---------------------------- MODULE Reads_proofs -----------------------------
(***************************************************************************)
(* What holds of the readers of a store: its connections, for any number   *)
(* of threads, connections and calls of close(); the client the MCP tools  *)
(* are served with, for any number of worker threads, accounts, tool calls *)
(* and rewrites of the two files; a search, for any tiers, rows, queries   *)
(* and writes of others during it; a walk through pages; and the LangGraph *)
(* store, as an implementation of the abstract one.                        *)
(***************************************************************************)
EXTENDS StorageConnections, McpClient, RecallQuery, McpPages, SibylStore,
        FiniteSetTheorems, TLAPS

-----------------------------------------------------------------------------
(* The connections of a Storage.                                            *)

\* Connections are numbered as they are opened; only a thread that is reaping
\* or closing holds any to close.
ConnOK ==
  /\ where \in [Threads -> {"out", "register", "reap", "begin", "body", "rollback", "close"}]
  /\ slot \in [Threads -> 0..opened]
  /\ opened \in Nat
  /\ busy \subseteq 1..opened
  /\ open \subseteq 1..opened
  /\ doomed \in [Threads -> SUBSET (1..opened)]
  /\ registry \subseteq [owner : Threads, conn : 1..opened]
  /\ \A t \in Threads : where[t] \notin {"reap", "close"} => doomed[t] = {}
  /\ \A t \in Threads : where[t] = "register" => slot[t] # 0

\* A connection is the slot of one thread.
OwnSlots == \A t, u \in Threads : slot[t] = slot[u] /\ slot[t] # 0 => t = u

ConnInv == ConnOK /\ OwnSlots /\ Tracked /\ NoneLeftInside

LEMMA ConnStart == ConnInit => ConnInv
  BY ConnectionBounds DEF ConnInit, ConnInv, ConnOK, OwnSlots, Tracked, NoneLeftInside

\* What each step of a thread does to the four parts.
LEMMA ConnTyped == ConnInv /\ [ConnNext]_connVars => ConnOK' /\ OwnSlots'
<1> SUFFICES ASSUME ConnOK, OwnSlots, [ConnNext]_connVars
             PROVE  ConnOK' /\ OwnSlots'
  BY DEF ConnInv
<1> USE DEF ConnOK, OwnSlots, GoTo, Quiet, SlotUsable
<1>1. ASSUME NEW t \in Threads, Start(t) PROVE ConnOK' /\ OwnSlots'
  BY <1>1 DEF Start
<1>2. ASSUME NEW t \in Threads, Exit(t) PROVE ConnOK' /\ OwnSlots'
  BY <1>2 DEF Exit
<1>3. ASSUME NEW t \in Threads, UseSlot(t) PROVE ConnOK' /\ OwnSlots'
  BY <1>3 DEF UseSlot
<1>4. ASSUME NEW t \in Threads, Connect(t) PROVE ConnOK' /\ OwnSlots'
  BY <1>4 DEF Connect
<1>5. ASSUME NEW t \in Threads, Register(t) PROVE ConnOK' /\ OwnSlots'
  BY <1>5 DEF Register, Surviving, Gone
<1>6. ASSUME NEW t \in Threads, CloseOne(t) PROVE ConnOK' /\ OwnSlots'
  BY <1>6 DEF CloseOne
<1>7. ASSUME NEW t \in Threads, Reaped(t) PROVE ConnOK' /\ OwnSlots'
  BY <1>7 DEF Reaped
<1>8. ASSUME NEW t \in Threads, Begin(t) PROVE ConnOK' /\ OwnSlots'
  BY <1>8 DEF Begin
<1>9. ASSUME NEW t \in Threads, Read(t) \/ Raise(t) \/ CommitFails(t) PROVE ConnOK' /\ OwnSlots'
  BY <1>9 DEF Read, Raise, CommitFails
<1>10. ASSUME NEW t \in Threads, Commit(t) PROVE ConnOK' /\ OwnSlots'
  BY <1>10 DEF Commit
<1>11. ASSUME NEW t \in Threads, Rollback(t) PROVE ConnOK' /\ OwnSlots'
  BY <1>11 DEF Rollback
<1>12. ASSUME NEW t \in Threads, TakeAll(t) PROVE ConnOK' /\ OwnSlots'
  BY <1>12 DEF TakeAll
<1>13. ASSUME NEW t \in Threads, Closed(t) PROVE ConnOK' /\ OwnSlots'
  BY <1>13 DEF Closed
<1>14. CASE UNCHANGED connVars
  BY <1>14 DEF connVars
<1>15. QED
  BY <1>1, <1>2, <1>3, <1>4, <1>5, <1>6, <1>7, <1>8, <1>9, <1>10, <1>11, <1>12, <1>13, <1>14
     DEF ConnNext

\* Where a connection can be found.
InHand(t, c) == (where[t] = "register" /\ slot[t] = c) \/ c \in doomed[t]
Findable(c) == Listed(c) \/ \E t \in Threads : InHand(t, c)

\* A connection leaves the registry into the hands of the thread that closes it.
LEMMA ConnTracked == ConnInv /\ [ConnNext]_connVars => Tracked'
<1> SUFFICES ASSUME ConnOK, \A c \in open : Findable(c), [ConnNext]_connVars, NEW c \in open'
             PROVE  Findable(c)'
  BY DEF ConnInv, Tracked, Findable, InHand
<1> USE DEF ConnOK, GoTo, Quiet, SlotUsable
<1>1. ASSUME NEW t \in Threads, Connect(t) PROVE Findable(c)'
  <2>1. CASE c = opened + 1
    BY <1>1, <2>1 DEF Connect, Findable, InHand
  <2>2. CASE c \in open
    <3>1. Findable(c)
      BY <2>2
    <3>2. CASE Listed(c)
      BY <1>1, <3>2 DEF Connect, Findable, Listed
    <3>3. ASSUME NEW u \in Threads, InHand(u, c) PROVE InHand(u, c)'
      BY <1>1, <3>3 DEF Connect, InHand
    <3>4. QED
      BY <3>1, <3>2, <3>3 DEF Findable
  <2>3. QED
    BY <1>1, <2>1, <2>2 DEF Connect
<1>2. ASSUME NEW t \in Threads, Register(t) PROVE Findable(c)'
  <2>1. c \in open /\ Findable(c)
    BY <1>2 DEF Register
  <2>2. ASSUME NEW e \in registry, e.conn = c, Gone(e) PROVE Findable(c)'
    BY <1>2, <2>2 DEF Register, Findable, InHand
  <2>3. ASSUME NEW e \in registry, e.conn = c, ~Gone(e) PROVE Findable(c)'
    BY <1>2, <2>3 DEF Register, Surviving, Findable, Listed
  <2>4. CASE InHand(t, c)
    <3>1. c = slot[t]
      BY <1>2, <2>4 DEF Register, InHand
    <3>2. [owner |-> t, conn |-> c] \in registry'
      BY <1>2, <3>1 DEF Register
    <3>3. QED
      BY <3>2 DEF Findable, Listed
  <2>5. ASSUME NEW u \in Threads, u # t, InHand(u, c) PROVE Findable(c)'
    BY <1>2, <2>5 DEF Register, Findable, InHand
  <2>6. QED
    BY <2>1, <2>2, <2>3, <2>4, <2>5 DEF Findable, Listed
<1>3. ASSUME NEW t \in Threads, TakeAll(t) PROVE Findable(c)'
  <2>1. c \in open /\ Findable(c)
    BY <1>3 DEF TakeAll
  <2>2. ASSUME Listed(c) PROVE Findable(c)'
    BY <1>3, <2>2 DEF TakeAll, Findable, Listed, InHand
  <2>3. ASSUME NEW u \in Threads, InHand(u, c) PROVE Findable(c)'
    BY <1>3, <2>3 DEF TakeAll, Findable, InHand
  <2>4. QED
    BY <2>1, <2>2, <2>3 DEF Findable
<1>4. ASSUME NEW t \in Threads, CloseOne(t) PROVE Findable(c)'
  <2>1. c \in open /\ c # Min(doomed[t]) /\ Findable(c)
    BY <1>4 DEF CloseOne
  <2>2. Listed(c) => Listed(c)'
    BY <1>4 DEF CloseOne, Listed
  <2>3. ASSUME NEW u \in Threads, InHand(u, c) PROVE InHand(u, c)'
    BY <1>4, <2>1, <2>3 DEF CloseOne, InHand
  <2>4. QED
    BY <2>1, <2>2, <2>3 DEF Findable
<1>5. ASSUME NEW t \in Threads,
             Start(t) \/ Exit(t) \/ UseSlot(t) \/ Reaped(t) \/ Begin(t) \/ Read(t) \/ Raise(t)
               \/ Commit(t) \/ CommitFails(t) \/ Rollback(t) \/ Closed(t)
      PROVE  Findable(c)'
  <2>1. c \in open /\ Findable(c)
    BY <1>5 DEF Start, Exit, UseSlot, Reaped, Begin, Read, Raise, Commit, CommitFails, Rollback, Closed
  <2>2. Listed(c) => Listed(c)'
    BY <1>5 DEF Listed, Start, Exit, UseSlot, Reaped, Begin, Read, Raise, Commit, CommitFails,
                Rollback, Closed
  <2>3. ASSUME NEW u \in Threads, InHand(u, c) PROVE InHand(u, c)'
    BY <1>5, <2>3 DEF InHand, Start, Exit, UseSlot, Reaped, Begin, Read, Raise, Commit, CommitFails,
                      Rollback, Closed
  <2>4. QED
    BY <2>1, <2>2, <2>3 DEF Findable
<1>6. CASE UNCHANGED connVars
  <2>1. c \in open /\ Findable(c)
    BY <1>6 DEF connVars
  <2>2. QED
    BY <1>6, <2>1 DEF connVars, Findable, Listed, InHand
<1>7. QED
  BY <1>1, <1>2, <1>3, <1>4, <1>5, <1>6 DEF ConnNext

\* A slot is busy only while its own thread is between BEGIN and the end of
\* its transaction.
LEMMA ConnOutside == ConnInv /\ [ConnNext]_connVars => NoneLeftInside'
<1> SUFFICES ASSUME ConnOK, OwnSlots, NoneLeftInside, [ConnNext]_connVars, NEW u \in Threads,
                    where'[u] \notin {"body", "rollback"}, slot'[u] \in busy'
             PROVE  slot'[u] \in broken'
  BY DEF ConnInv, NoneLeftInside
<1> USE DEF ConnOK, OwnSlots, NoneLeftInside, GoTo, Quiet, SlotUsable
<1>1. ASSUME NEW t \in Threads, Connect(t) PROVE slot'[u] \in broken'
  BY <1>1 DEF Connect
<1>2. ASSUME NEW t \in Threads, Begin(t) PROVE slot'[u] \in broken'
  BY <1>2 DEF Begin
<1>3. ASSUME NEW t \in Threads, Commit(t) PROVE slot'[u] \in broken'
  BY <1>3 DEF Commit
<1>4. ASSUME NEW t \in Threads, Rollback(t) PROVE slot'[u] \in broken'
  BY <1>4 DEF Rollback
<1>5. ASSUME NEW t \in Threads, Start(t) \/ Exit(t) \/ UseSlot(t) \/ Register(t) \/ CloseOne(t)
      PROVE slot'[u] \in broken'
  BY <1>5 DEF Start, Exit, UseSlot, Register, CloseOne
<1>6. ASSUME NEW t \in Threads, Reaped(t) \/ Read(t) \/ Raise(t) \/ CommitFails(t) \/ TakeAll(t) \/ Closed(t)
      PROVE slot'[u] \in broken'
  BY <1>6 DEF Reaped, Read, Raise, CommitFails, TakeAll, Closed
<1>7. CASE UNCHANGED connVars
  BY <1>7 DEF connVars
<1>8. QED
  BY <1>1, <1>2, <1>3, <1>4, <1>5, <1>6, <1>7 DEF ConnNext

LEMMA ConnAlways == ConnSpec => []ConnInv
<1>1. ConnInv /\ [ConnNext]_connVars => ConnInv'
  BY ConnTyped, ConnTracked, ConnOutside DEF ConnInv
<1>2. QED
  BY ConnStart, <1>1, PTL DEF ConnSpec

\* Whatever threads begin, end and close the storage, an open connection is in
\* the registry or in the hands of a thread that registers or closes it.
THEOREM EveryConnectionTracked == ConnSpec => []Tracked
<1>1. ConnInv => Tracked
  BY DEF ConnInv
<1>2. QED
  BY ConnAlways, <1>1, PTL

\* Whatever fails inside a transaction, the connection a thread keeps for its
\* next one is outside of any, unless the ROLLBACK failed too.
THEOREM NoTransactionLeftOpen == ConnSpec => []NoneLeftInside
<1>1. ConnInv => NoneLeftInside
  BY DEF ConnInv
<1>2. QED
  BY ConnAlways, <1>1, PTL

-----------------------------------------------------------------------------
(* The client of the MCP server.  A modification time is given to one       *)
(* content of credentials.json only: so a client built while the file       *)
(* changed is kept under a time the file will not have again, and only the  *)
(* time 0, no file, comes back.                                             *)

Stages == {"idle", "open", "pass", "compare", "swap", "gate", "operate", "served", "refused"}
Locked == {"pass", "compare", "swap"}

McpOK ==
  /\ writes \in Nat
  /\ creds = Absent \/ creds.mtime \in 1..writes
  /\ cache = Absent \/ cache.mtime \in 0..writes
  /\ stage \in [Workers -> Stages]
  /\ saw \in [Workers -> [mtime : 0..writes, serial : Nat]]
  /\ pass = Absent \/ pass.serial \in Nat
  /\ DOMAIN mine = Workers /\ mine = [w \in Workers |-> mine[w]]
  /\ DOMAIN meant = Workers /\ meant = [w \in Workers |-> meant[w]]
  /\ \A w \in Workers : stage[w] \in Locked => clientLock = w

\* A call knows every tenant the credentials have meant since it began.
KnowsNow == \A w \in Workers : Inside(w) => TenantOf(creds) \in meant[w]

\* A client kept or about to be kept under the time the file has is the
\* file's account's.
KeptIsCurrent ==
  /\ cache # Absent /\ creds # Absent /\ cache.mtime = creds.mtime => cache.tenant = creds.account
  /\ \A w \in Workers :
       stage[w] = "swap" /\ creds # Absent /\ creds.mtime = saw[w].mtime => mine[w] = creds.account

\* So is a client found under the time a call has seen, as that call knows.
FoundIsMeant ==
  \A w \in Workers :
    /\ stage[w] \in {"pass", "compare"} /\ saw[w].mtime # 0
         /\ cache # Absent /\ cache.mtime = saw[w].mtime => cache.tenant \in meant[w]
    /\ stage[w] = "swap" => mine[w] \in meant[w]
    /\ stage[w] \in {"gate", "operate", "served"} /\ saw[w].mtime # 0 => mine[w] \in meant[w]

McpInv == McpOK /\ KnowsNow /\ KeptIsCurrent /\ FoundIsMeant

LEMMA McpStart == McpInit => McpInv
  BY ServerBounds
  DEF McpInit, McpInv, McpOK, Stages, Locked, KnowsNow, Inside, KeptIsCurrent, FoundIsMeant

LEMMA McpStep == McpInv /\ [McpNext]_mcpVars => McpInv'
<1> SUFFICES ASSUME McpInv, [McpNext]_mcpVars PROVE McpInv'
  OBVIOUS
<1> USE ServerBounds
    DEF McpInv, McpOK, Stages, Locked, KnowsNow, Inside, KeptIsCurrent, FoundIsMeant,
        Goes, Files, fileVars, serverVars, TenantOf, MtimeOf, SerialOf
<1>1. CASE Rewrite
  <2>1. \/ creds' = creds
        \/ creds' = Absent
        \/ creds'.mtime = writes + 1
    BY <1>1 DEF Rewrite
  <2>2. McpOK'
    BY <1>1, <2>1 DEF Rewrite
  <2>3. KnowsNow'
    BY <1>1 DEF Rewrite
  <2>4. KeptIsCurrent'
    BY <1>1, <2>1 DEF Rewrite
  <2>5. FoundIsMeant'
    BY <1>1 DEF Rewrite
  <2>6. QED
    BY <2>2, <2>3, <2>4, <2>5
<1>2. ASSUME NEW w \in Workers, BeginCall(w) PROVE McpInv'
  BY <1>2 DEF BeginCall
<1>3. ASSUME NEW w \in Workers, StatCreds(w) PROVE McpInv'
  BY <1>3 DEF StatCreds
<1>4. ASSUME NEW w \in Workers, ReadPass(w) PROVE McpInv'
  BY <1>4 DEF ReadPass
<1>5. ASSUME NEW w \in Workers, Reuse(w) PROVE McpInv'
  BY <1>5 DEF Reuse, Outdated
<1>6. ASSUME NEW w \in Workers, Build(w) PROVE McpInv'
  BY <1>6 DEF Build
<1>7. ASSUME NEW w \in Workers, Swap(w) PROVE McpInv'
  BY <1>7 DEF Swap
<1>8. ASSUME NEW w \in Workers, Gate(w) \/ Operate(w) PROVE McpInv'
  BY SMTT(30), <1>8 DEF Gate, Operate
<1>9. CASE UNCHANGED mcpVars
  BY <1>9 DEF mcpVars
<1>10. QED
  BY <1>1, <1>2, <1>3, <1>4, <1>5, <1>6, <1>7, <1>8, <1>9 DEF McpNext

\* For any number of workers, accounts and rewrites: a tool that found somebody
\* signed in works on the memory of an account the credentials named during it.
THEOREM ToolsServeTheSignedIn == McpSpec => []ServesTheSignedIn
<1>1. McpInv => ServesTheSignedIn
  BY DEF McpInv, FoundIsMeant, ServesTheSignedIn
<1>2. QED
  BY McpStart, McpStep, <1>1, PTL DEF McpSpec

-----------------------------------------------------------------------------
(* One search over a store other clients write to.                         *)

\* A finite set of numbers has a largest one: take a smallest subset without.
LEMMA Largest ==
  ASSUME NEW S, IsFiniteSet(S), S # {}, S \subseteq Nat
  PROVE  /\ Max(S) \in S
         /\ \A x \in S : x <= Max(S)
<1> DEFINE Has(U) == \E m \in U : \A x \in U : m >= x
           F == {U \in SUBSET S : U # {} /\ ~Has(U)}
<1>1. Has(S)
  <2> SUFFICES ASSUME ~Has(S) PROVE FALSE
    OBVIOUS
  <2>1. FiniteSubsetsOf(S) = SUBSET S
    BY FS_FiniteSubsetsOfFinite
  <2>2. F # {} /\ F \subseteq FiniteSubsetsOf(S)
    BY <2>1
  <2>3. PICK U \in F : \A V \in F : <<V, U>> \notin StrictSubsetOrdering(S)
    <3> HIDE DEF F
    <3> QED BY <2>2, FS_StrictSubsetOrderingWellFounded, WFMin
  <2>4. PICK x \in U : TRUE
    OBVIOUS
  <2>5. U \ {x} \in SUBSET S /\ <<U \ {x}, U>> \in StrictSubsetOrdering(S)
    BY DEF StrictSubsetOrdering
  <2>6. U \ {x} = {} \/ Has(U \ {x})
    BY <2>3, <2>5
  <2>7. CASE U \ {x} = {}
    <3>1. U = {x} /\ x \in Nat
      BY <2>7
    <3> QED BY <3>1
  <2>8. CASE Has(U \ {x})
    <3>1. PICK m \in U \ {x} : \A y \in U \ {x} : m >= y
      BY <2>8
    <3>2. m \in Nat /\ x \in Nat /\ U \subseteq Nat
      OBVIOUS
    <3>3. Has(U)
      <4>1. CASE m >= x
        BY <4>1, <3>1, <3>2
      <4>2. CASE x >= m
        BY <4>2, <3>1, <3>2
      <4> QED BY <3>2, <4>1, <4>2
    <3> QED BY <3>3
  <2> QED BY <2>6, <2>7, <2>8
<1> QED BY <1>1 DEF Max

\* A store is a finite table of rows.
TableOK(R) ==
  /\ IsFiniteSet(R) /\ RowsApart(R)
  /\ \A r \in R : r.rid \in Nat \ {0} /\ <<r.tier, r.key, r.tenant>> \in Slots

Edit(s) == DeleteRow(s) \/ \E b \in Bodies : SetRow(s, b)

LEMMA FreshNumber ==
  ASSUME TableOK(rows), NEW tier
  PROVE  /\ NextNumber(tier) \in Nat \ {0}
         /\ \A r \in rows : r.tier = tier => r.rid < NextNumber(tier)
<1> DEFINE Of == {x \in rows : x.tier = tier}
           N == {r.rid : r \in Of}
<1>1. IsFiniteSet(Of)
  BY FS_Subset DEF TableOK
<1>2. IsFiniteSet(N)
  <2> DEFINE f == [x \in Of |-> x.rid]
  <2>1. f \in Surjection(Of, N)
    BY DEF Surjection
  <2> HIDE DEF f
  <2> QED BY <1>1, <2>1, FS_Surjection
<1>3. IsFiniteSet({0} \union N) /\ {0} \union N \subseteq Nat /\ {0} \union N # {}
  <2>1. IsFiniteSet({0} \union N)
    <3> HIDE DEF N
    <3> QED BY <1>2, FS_Singleton, FS_Union
  <2>2. N \subseteq Nat
    BY DEF TableOK
  <2> QED BY <2>1, <2>2
<1>4. Max({0} \union N) \in Nat /\ \A x \in {0} \union N : x <= Max({0} \union N)
  <2> HIDE DEF N
  <2> QED BY <1>3, Largest
<1>5. NextNumber(tier) = 1 + Max({0} \union N)
  BY DEF NextNumber
<1>6. \A r \in rows : r.tier = tier => r.rid \in N /\ r.rid \in Nat
  BY DEF TableOK
<1> HIDE DEF N
<1> QED BY <1>4, <1>5, <1>6

\* What one write of another client does to the rows.
LEMMA WriteOne ==
  ASSUME TableOK(rows), NEW s \in Slots, NEW b, SetRow(s, b)
  PROVE  \E n :
           /\ n = [tier |-> s[1], key |-> s[2], tenant |-> s[3], rid |-> n.rid, body |-> b]
           /\ n.rid \in Nat \ {0}
           /\ rows' = (rows \ Held(s)) \union {n}
           /\ shrunk' = (shrunk \/ Held(s) # {})
           /\ \A r \in Held(s) : n.rid = r.rid
           /\ \A r \in rows \ Held(s) : r.tier = n.tier => r.rid # n.rid
<1> DEFINE id == IF Held(s) = {} THEN NextNumber(s[1]) ELSE (CHOOSE r \in Held(s) : TRUE).rid
           n == [tier |-> s[1], key |-> s[2], tenant |-> s[3], rid |-> id, body |-> b]
<1>1. rows' = (rows \ Held(s)) \union {n} /\ shrunk' = (shrunk \/ Held(s) # {})
  BY DEF SetRow
<1>2. \A r \in Held(s) : /\ r \in rows /\ <<r.tier, r.key, r.tenant>> = s
                         /\ r.tier = s[1] /\ r.key = s[2] /\ r.tenant = s[3]
  BY DEF Held
<1>3. \A r, o \in Held(s) : r = o
  BY <1>2 DEF TableOK, RowsApart
<1>4. CASE Held(s) = {}
  <2>1. id = NextNumber(s[1])
    BY <1>4
  <2>2. id \in Nat \ {0} /\ \A r \in rows : r.tier = s[1] => r.rid < id
    BY <2>1, FreshNumber
  <2>3. \A r \in rows : r.rid \in Nat
    BY DEF TableOK
  <2> HIDE DEF id
  <2>4. \A r \in rows : r.tier = s[1] => r.rid # id
    BY <2>2, <2>3
  <2>5. n.rid = id /\ n.tier = s[1]
    OBVIOUS
  <2> QED BY <1>1, <1>4, <2>2, <2>4, <2>5
<1>5. CASE Held(s) # {}
  <2>1. PICK h \in Held(s) : h = (CHOOSE r \in Held(s) : TRUE)
    BY <1>5
  <2>2. id = h.rid /\ h \in rows /\ h.tier = s[1]
    BY <1>2, <1>5, <2>1
  <2> HIDE DEF id
  <2>3. id \in Nat \ {0} /\ \A r \in Held(s) : id = r.rid
    BY <2>2, <1>3 DEF TableOK
  <2>4. \A r \in rows \ Held(s) : r.tier = s[1] => r.rid # id
    BY <2>2 DEF TableOK, RowsApart
  <2>5. n.rid = id /\ n.tier = s[1]
    OBVIOUS
  <2> QED BY <1>1, <2>3, <2>4, <2>5
<1> QED BY <1>4, <1>5

LEMMA EditsKeepTables ==
  ASSUME TableOK(rows), NEW s \in Slots, Edit(s)
  PROVE  TableOK(rows)' /\ (shrunk' \/ (~shrunk /\ rows \subseteq rows'))
<1>1. CASE DeleteRow(s)
  <2>1. rows' = rows \ Held(s) /\ shrunk'
    BY <1>1 DEF DeleteRow
  <2>2. IsFiniteSet(rows')
    BY <2>1, FS_Subset DEF TableOK
  <2> QED BY <2>1, <2>2 DEF TableOK, RowsApart
<1>2. ASSUME NEW b \in Bodies, SetRow(s, b) PROVE TableOK(rows)' /\ (shrunk' \/ (~shrunk /\ rows \subseteq rows'))
  <2>1. PICK n :
           /\ n = [tier |-> s[1], key |-> s[2], tenant |-> s[3], rid |-> n.rid, body |-> b]
           /\ n.rid \in Nat \ {0}
           /\ rows' = (rows \ Held(s)) \union {n}
           /\ shrunk' = (shrunk \/ Held(s) # {})
           /\ \A r \in Held(s) : n.rid = r.rid
           /\ \A r \in rows \ Held(s) : r.tier = n.tier => r.rid # n.rid
    BY <1>2, WriteOne
  <2>2. IsFiniteSet(rows')
    BY <2>1, FS_Difference, FS_Singleton, FS_Union DEF TableOK
  <2>3. n.tier = s[1] /\ n.key = s[2] /\ n.tenant = s[3] /\ s = <<s[1], s[2], s[3]>>
    BY <2>1, TablesAndQueries
  <2>4. <<n.tier, n.key, n.tenant>> = s
    BY <2>3
  <2>5. \A r \in rows \ Held(s) : <<r.tier, r.key, r.tenant>> # s
    BY DEF Held
  <2>6. \A r \in rows \ Held(s) : r.tier = n.tier => r.rid # n.rid /\ <<r.key, r.tenant>> # <<n.key, n.tenant>>
    BY <2>1, <2>4, <2>5
  <2>7. RowsApart(rows')
    BY <2>1, <2>6 DEF TableOK, RowsApart
  <2>8. \A r \in rows' : r.rid \in Nat \ {0} /\ <<r.tier, r.key, r.tenant>> \in Slots
    BY <2>1, <2>4 DEF TableOK
  <2> QED BY <2>1, <2>2, <2>7, <2>8 DEF TableOK
<1> QED BY <1>1, <1>2 DEF Edit

\* A row whose memory nobody touched keeps its number.
LEMMA SteadyRowStays ==
  ASSUME TableOK(rows), NEW s \in Slots, Edit(s),
         NEW v \in steady', NEW r \in Mine, Version(r) = v
  PROVE  \E o \in Mine' : Version(o) = v /\ o.rid = r.rid
<1>1. PICK o \in MineIn(rows') : v = Version(o)
  BY DEF Edit, DeleteRow, SetRow, Remember
<1>2. /\ o \in rows' /\ o.tenant = Own /\ r \in rows /\ r.tenant = Own
      /\ o.tier = r.tier /\ o.key = r.key
  BY <1>1 DEF MineIn, Mine, Version
<1>3. o \in Mine'
  BY <1>1 DEF Mine
<1>4. CASE DeleteRow(s)
  <2>1. o \in rows
    BY <1>2, <1>4 DEF DeleteRow
  <2>2. o = r
    BY <2>1, <1>2 DEF TableOK, RowsApart
  <2> QED BY <1>1, <1>3, <2>2
<1>5. ASSUME NEW b \in Bodies, SetRow(s, b) PROVE o.rid = r.rid
  <2>1. PICK n :
           /\ n = [tier |-> s[1], key |-> s[2], tenant |-> s[3], rid |-> n.rid, body |-> b]
           /\ n.rid \in Nat \ {0}
           /\ rows' = (rows \ Held(s)) \union {n}
           /\ shrunk' = (shrunk \/ Held(s) # {})
           /\ \A x \in Held(s) : n.rid = x.rid
           /\ \A x \in rows \ Held(s) : x.tier = n.tier => x.rid # n.rid
    BY <1>5, WriteOne
  <2>2. CASE o \in rows \ Held(s)
    BY <2>2, <1>2 DEF TableOK, RowsApart
  <2>3. CASE o = n
    <3>1. o.tier = s[1] /\ o.key = s[2] /\ o.tenant = s[3] /\ s = <<s[1], s[2], s[3]>>
      BY <2>1, <2>3, TablesAndQueries
    <3>2. <<r.tier, r.key, r.tenant>> = s
      BY <3>1, <1>2
    <3>3. r \in Held(s)
      BY <3>2, <1>2 DEF Held
    <3> QED BY <3>3, <2>1, <2>3
  <2> QED BY <1>2, <2>1, <2>2, <2>3
<1> QED BY <1>1, <1>3, <1>4, <1>5 DEF Edit

\* ORDER BY rank LIMIT n: all the rows when there are no more than n.
LEMMA TopRows ==
  ASSUME NEW n \in Nat, NEW S, IsFiniteSet(S), NEW got \in Top(n, S)
  PROVE  /\ got \subseteq S /\ IsFiniteSet(got) /\ Cardinality(got) \in Nat
         /\ Cardinality(got) <= n /\ Cardinality(S) \in Nat
         /\ Cardinality(S) <= n => got = S
         /\ Cardinality(S) >= n => Cardinality(got) = n
         /\ n # 0 /\ got = {} => S = {}
<1>1. got \subseteq S /\ Cardinality(got) = Least(n, Cardinality(S))
  BY DEF Top, kSubset
<1>2. IsFiniteSet(got) /\ Cardinality(got) \in Nat /\ Cardinality(S) \in Nat
  BY <1>1, FS_Subset, FS_CardinalityType
<1>3. Cardinality(got) = Cardinality(S) => got = S
  BY <1>1, FS_Subset
<1>4. Cardinality(S) = 0 => S = {}
  BY FS_EmptySet
<1>5. got = {} => Cardinality(got) = 0
  BY FS_EmptySet
<1> QED BY <1>1, <1>2, <1>3, <1>4, <1>5 DEF Least

\* What the search remembers of the store it has run on.
HistoryOK ==
  /\ steady \subseteq {Version(r) : r \in Mine}
  /\ {Version(r) : r \in Mine} \subseteq seen
  /\ Unsupported(Mine) \subseteq absent
  /\ Mine = {} => wasEmpty

Named == {"exact", "partial", "count"}
Gated == Named \union {"recall", "tally", "prep", "gates", "hydrate", "stage0"}

SearchOK ==
  /\ query \in Queries
  /\ pc \in Gated \union {"strict", "append", "probe", "done"}
  /\ pc \in Gated => query.kind = "gated"
  /\ pc \in {"strict", "append"} => query.kind = "raw"
  /\ at \in DOMAIN Tiers /\ (pc \in {"tally", "append"} => at = 1)
  /\ turn \in Nat \ {0} /\ (pc \in Named => turn = 1 /\ head = {} /\ full = {})
  /\ pc = "count" => query.tokens # <<>>
  /\ pc \in {"recall", "tally"} => turn \in DOMAIN query.tokens
  /\ corpus \in Nat /\ df \in [Asked -> Nat]

LEMMA MineFinite ==
  ASSUME TableOK(rows)
  PROVE  /\ IsFiniteSet(Mine)
         /\ \A i : IsFiniteSet(InTier(i)) /\ Cardinality(InTier(i)) \in Nat
         /\ \A i, t : LET S == {r \in InTier(i) : t \in r.body}
                      IN IsFiniteSet(S) /\ Cardinality(S) \in Nat
         /\ \A r \in Mine : r \in rows /\ \E i \in DOMAIN Tiers : r.tier = Tiers[i]
<1>1. Mine \subseteq rows /\ \A i : InTier(i) \subseteq rows
  BY DEF Mine, MineIn, InTier
<1>2. \A S \in SUBSET rows : IsFiniteSet(S) /\ Cardinality(S) \in Nat
  BY FS_Subset, FS_CardinalityType DEF TableOK
<1>3. \A i, t : {r \in InTier(i) : t \in r.body} \in SUBSET rows
  BY <1>1
<1>4. ASSUME NEW r \in Mine PROVE r \in rows /\ \E i \in DOMAIN Tiers : r.tier = Tiers[i]
  <2>1. r \in rows /\ <<r.tier, r.key, r.tenant>> \in Slots
    BY <1>1, <1>4 DEF TableOK
  <2> QED BY <2>1, TablesAndQueries
<1> QED BY <1>1, <1>2, <1>3, <1>4

LEMMA SearchStart == RecallInit => TableOK(rows) /\ HistoryOK /\ SearchOK
<1> SUFFICES ASSUME RecallInit PROVE TableOK(rows) /\ HistoryOK /\ SearchOK
  OBVIOUS
<1>1. TableOK(rows)
  BY TablesAndQueries DEF RecallInit, TableOK
<1>2. HistoryOK
  BY DEF RecallInit, HistoryOK
<1>3. 1 \in DOMAIN Tiers
  BY TablesAndQueries
<1>4. SearchOK
  <2>1. query \in Queries /\ query.kind \in {"gated", "raw"} /\ df = [t \in Asked |-> 0]
    BY TablesAndQueries DEF RecallInit
  <2>2. (pc = "exact" /\ query.kind = "gated") \/ (pc = "strict" /\ query.kind = "raw")
    BY <2>1 DEF RecallInit
  <2>3. df \in [Asked -> Nat]
    BY <2>1
  <2> QED BY <1>3, <2>1, <2>2, <2>3 DEF RecallInit, SearchOK, Gated, Named
<1> QED BY <1>1, <1>2, <1>4

LEMMA EditsKeepHistory ==
  ASSUME HistoryOK, NEW s \in Slots, Edit(s)
  PROVE  HistoryOK' /\ UNCHANGED <<pc, searchVars>> /\ seen \subseteq seen' /\ steady' \subseteq steady
<1>1. Remember(rows')
  BY DEF Edit, DeleteRow, SetRow
<1>2. /\ seen' = seen \union {Version(r) : r \in MineIn(rows')}
      /\ steady' = steady \intersect {Version(r) : r \in MineIn(rows')}
      /\ absent' = absent \union Unsupported(MineIn(rows'))
      /\ wasEmpty' = (wasEmpty \/ MineIn(rows') = {})
      /\ UNCHANGED <<pc, searchVars>> /\ query' = query
  BY <1>1 DEF Remember, searchVars
<1>3. Mine' = MineIn(rows') /\ Unsupported(Mine)' = Unsupported(MineIn(rows'))
  BY <1>2 DEF Mine, Unsupported, Asked
<1>4. {Version(r) : r \in Mine}' = {Version(r) : r \in MineIn(rows')}
  BY <1>3
<1> QED BY <1>2, <1>3, <1>4 DEF HistoryOK

\* A step of the search leaves the store and what was seen of it alone.
LEMMA StepsOnlyRead ==
  ASSUME SearchStep
  PROVE  /\ UNCHANGED <<rows, edits, query>> /\ UNCHANGED history
         /\ Mine' = Mine /\ Asked' = Asked
<1>1. UNCHANGED <<rows, edits, query>> /\ UNCHANGED history
  BY DEF SearchStep, Still, ExactNames, PartialNames, CountCorpus, RecallTier, CountTier,
         RecallShadow, LoadPrep, Gates, HydratePage, MergeNames, Probe, StrictTier, AppendShadow
<1> QED BY <1>1 DEF Mine, Asked

LEMMA StepsKeepHistory == HistoryOK /\ SearchStep => HistoryOK'
<1> SUFFICES ASSUME HistoryOK, SearchStep PROVE HistoryOK'
  OBVIOUS
<1>1. UNCHANGED history /\ Mine' = Mine /\ Asked' = Asked
  BY StepsOnlyRead
<1>2. Unsupported(Mine)' = Unsupported(Mine)
  BY <1>1 DEF Unsupported
<1>3. {Version(r) : r \in Mine}' = {Version(r) : r \in Mine}
  BY <1>1
<1> QED BY <1>1, <1>2, <1>3 DEF HistoryOK, history

LEMMA NextTierStays ==
  ASSUME at \in DOMAIN Tiers, NEW after, NextTier(after)
  PROVE  /\ at' \in DOMAIN Tiers /\ (pc' = pc \/ (pc' = after /\ at' = 1 /\ LastTier))
         /\ at' = at + 1 \/ (LastTier /\ at' = 1 /\ pc' = after)
         /\ ~LastTier => pc' = pc /\ at' = at + 1
<1>1. Len(Tiers) \in Nat /\ DOMAIN Tiers = 1..Len(Tiers)
  BY TablesAndQueries
<1> QED BY <1>1 DEF NextTier, LastTier

LEMMA StepsKeepSearch ==
  ASSUME TableOK(rows), SearchOK, SearchStep
  PROVE  SearchOK'
<1> USE DEF SearchOK, Gated, Named, Still
<1>1. Asked' = Asked /\ query' = query
  BY StepsOnlyRead
<1>2. Len(query.tokens) \in Nat /\ DOMAIN query.tokens = 1..Len(query.tokens)
  BY TablesAndQueries
<1>3. Token \in Asked \/ pc \notin {"recall", "tally"}
  BY DEF Token, Asked, RangeOf
<1>4. CASE ExactNames
  BY <1>1, <1>4 DEF ExactNames
<1>5. CASE PartialNames
  BY <1>1, <1>5 DEF PartialNames
<1>6. CASE CountCorpus
  <2>1. corpus' \in Nat
    BY <1>6, MineFinite DEF CountCorpus
  <2>2. 1 \in DOMAIN query.tokens \/ pc # "count"
    BY <1>2, TablesAndQueries
  <2> QED BY <1>1, <1>6, <2>1, <2>2, NextTierStays DEF CountCorpus
<1>7. CASE RecallTier
  <2>1. PICK got \in Top(Depth, {r \in InTier(at) : Token \in r.body}) :
               df' = IF Cardinality(got) >= Depth THEN df
                     ELSE [df EXCEPT ![Token] = @ + Cardinality(got)]
    BY <1>7 DEF RecallTier
  <2>2. Cardinality(got) \in Nat
    <3>1. IsFiniteSet({r \in InTier(at) : Token \in r.body}) /\ Depth \in Nat
      BY MineFinite, RecallBounds
    <3> QED BY <2>1, <3>1, TopRows
  <2>3. df' \in [Asked -> Nat]
    BY <2>1, <2>2, <1>3, <1>7 DEF RecallTier
  <2>4. pc = "recall" /\ turn' = turn /\ corpus' = corpus /\ NextTier("tally")
    BY <1>7 DEF RecallTier
  <2> QED BY <1>1, <2>3, <2>4, NextTierStays
<1>8. CASE CountTier
  <2>1. df' = [df EXCEPT ![Token] = @ + Cardinality({r \in InTier(Min(full)) : Token \in r.body})]
    BY <1>8 DEF CountTier
  <2>2. Cardinality({r \in InTier(Min(full)) : Token \in r.body}) \in Nat
    BY MineFinite
  <2>3. df' \in [Asked -> Nat]
    BY <2>1, <2>2, <1>3, <1>8 DEF CountTier
  <2> QED BY <1>1, <1>8, <2>3 DEF CountTier
<1>9. CASE RecallShadow
  <2>1. PICK extra \in ShadowRows(Depth - Cardinality(head)) :
               df' = [df EXCEPT ![Token] = df[Token] + Cardinality(extra)]
    BY <1>9 DEF RecallShadow
  <2>2. Cardinality(extra) \in Nat
    <3>1. extra \subseteq Mine
      BY <2>1 DEF ShadowRows, Top, kSubset
    <3> QED BY <3>1, MineFinite, FS_Subset, FS_CardinalityType
  <2>3. df' \in [Asked -> Nat]
    BY <2>1, <2>2, <1>3, <1>9 DEF RecallShadow
  <2>4. /\ pc = "tally" /\ at' = at /\ corpus' = corpus
        /\ \/ pc' \in {"stage0", "prep", "gates"} /\ turn' \in {turn, turn + 1}
           \/ pc' = "recall" /\ turn < Len(query.tokens) /\ turn' = turn + 1
    BY <1>9 DEF RecallShadow
  <2> QED BY <1>1, <1>2, <2>3, <2>4
<1>10. CASE LoadPrep
  BY <1>1, <1>10 DEF LoadPrep
<1>11. CASE Gates
  BY <1>1, <1>11 DEF Gates
<1>12. CASE HydratePage
  BY <1>1, <1>12 DEF HydratePage
<1>13. CASE MergeNames
  <2>1. 1 \in DOMAIN Tiers
    BY TablesAndQueries
  <2> QED BY <1>1, <1>13, <2>1 DEF MergeNames
<1>14. CASE Probe
  <2>1. Len(Tiers) \in Nat /\ DOMAIN Tiers = 1..Len(Tiers)
    BY TablesAndQueries
  <2> QED BY <1>1, <1>14, <2>1 DEF Probe, LastTier
<1>15. CASE StrictTier
  <2>1. Len(Tiers) \in Nat /\ DOMAIN Tiers = 1..Len(Tiers)
    BY TablesAndQueries
  <2>2. /\ pc = "strict" /\ pc' \in {"strict", "append"} /\ corpus' = corpus /\ df' = df
        /\ IF ~LastTier THEN pc' = pc /\ at' = at + 1 /\ turn' = turn
           ELSE at' = 1 /\ turn' \in {turn, turn + 1}
    BY <1>15 DEF StrictTier
  <2> QED BY <1>1, <2>1, <2>2 DEF LastTier
<1>16. CASE AppendShadow
  BY <1>1, <1>16 DEF AppendShadow
<1> QED BY <1>4, <1>5, <1>6, <1>7, <1>8, <1>9, <1>10, <1>11, <1>12, <1>13, <1>14, <1>15, <1>16 DEF SearchStep

-----------------------------------------------------------------------------
(* An honest zero.                                                          *)

\* While clients only add: the rows that hold the token the search has found
\* nowhere so far lie ahead of it, in a tier not read yet or in the shadow.
HereOn(r) == \E i \in DOMAIN Tiers : i >= at /\ r.tier = Tiers[i]
StillAhead ==
  ~shrunk /\ df[Token] = 0 /\ head = {} =>
    /\ pc = "recall" => Token \in absent \/ \E r \in Mine : Close(Token, r) \/ (Token \in r.body /\ HereOn(r))
    /\ pc = "tally" => Token \in absent \/ \E r \in Mine : Close(Token, r)
\* What was found will be counted.
ToBeCounted ==
  ~shrunk /\ pc \in {"recall", "tally"} /\ df[Token] = 0 /\ head # {} =>
    \E i \in full : \E r \in InTier(i) : Token \in r.body
ProbeAhead == ~shrunk /\ pc = "probe" => wasEmpty \/ \E r \in Mine : HereOn(r)
ZeroesSaid ==
  /\ verdict = "ABSTAINED_ON" => pc \in {"stage0", "probe", "done"} /\ (~shrunk => Token \in absent)
  /\ verdict = "EMPTY_STORE" /\ ~shrunk => wasEmpty
ZeroInv == StillAhead /\ ToBeCounted /\ ProbeAhead /\ ZeroesSaid

LEMMA EditsKeepZero ==
  ASSUME TableOK(rows), HistoryOK, SearchOK, ZeroInv, NEW s \in Slots, Edit(s)
  PROVE  ZeroInv'
<1>1. UNCHANGED <<pc, searchVars>>
  BY EditsKeepHistory
<1>2. Token' = Token /\ df' = df /\ head' = head /\ pc' = pc /\ full' = full /\ verdict' = verdict /\ at' = at
  BY <1>1 DEF searchVars, Token
<1>3. shrunk' \/ (~shrunk /\ Mine \subseteq Mine' /\ \A i : InTier(i) \subseteq InTier(i)')
  BY EditsKeepTables DEF Mine, MineIn, InTier
<1>4. absent \subseteq absent' /\ (wasEmpty => wasEmpty')
  BY DEF Edit, DeleteRow, SetRow, Remember
<1>5. StillAhead'
  BY <1>2, <1>3, <1>4 DEF ZeroInv, StillAhead, HereOn
<1>6. ToBeCounted'
  BY <1>2, <1>3 DEF ZeroInv, ToBeCounted
<1>7. ProbeAhead'
  BY <1>2, <1>3, <1>4 DEF ZeroInv, ProbeAhead, HereOn
<1>8. ZeroesSaid'
  BY <1>2, <1>3, <1>4 DEF ZeroInv, ZeroesSaid
<1> QED BY <1>5, <1>6, <1>7, <1>8 DEF ZeroInv

\* A token whose recall begins is asked of the whole store.
LEMMA RecallBegins ==
  ASSUME TableOK(rows), HistoryOK, NEW t \in Asked
  PROVE  t \in absent \/ \E r \in Mine : Close(t, r) \/ (t \in r.body /\ \E i \in DOMAIN Tiers : i >= 1 /\ r.tier = Tiers[i])
<1>1. DOMAIN Tiers = 1..Len(Tiers) /\ Len(Tiers) \in Nat
  BY TablesAndQueries
<1>2. \A r \in Mine : \E i \in DOMAIN Tiers : i >= 1 /\ r.tier = Tiers[i]
  BY <1>1, MineFinite
<1>3. t \in Unsupported(Mine) \/ \E r \in Mine : t \in r.body \/ Close(t, r)
  BY DEF Unsupported
<1> QED BY <1>2, <1>3 DEF HistoryOK

LEMMA TierRecalled ==
  ASSUME TableOK(rows), HistoryOK, SearchOK, ZeroInv, RecallTier
  PROVE  StillAhead' /\ ToBeCounted'
<1> DEFINE S == {r \in InTier(at) : Token \in r.body}
<1>1. PICK got \in Top(Depth, S) :
        /\ head' = head \union {ByNumber(r) : r \in got}
        /\ full' = IF Cardinality(got) >= Depth THEN full \union {at} ELSE full
        /\ df' = IF Cardinality(got) >= Depth THEN df ELSE [df EXCEPT ![Token] = @ + Cardinality(got)]
  BY DEF RecallTier
<1>2. IsFiniteSet(S) /\ Depth \in Nat /\ Depth # 0
  BY MineFinite, RecallBounds
<1> HIDE DEF S
<1>3. got \subseteq S /\ Cardinality(got) \in Nat /\ (got = {} => S = {}) /\ IsFiniteSet(got)
  BY <1>1, <1>2, TopRows
<1>4. Token \in Asked /\ df[Token] \in Nat /\ pc = "recall" /\ turn' = turn
  BY TablesAndQueries DEF RecallTier, SearchOK, Token, Asked, RangeOf
<1>5. /\ Mine' = Mine /\ UNCHANGED history /\ Token' = Token /\ query' = query
      /\ \A i : InTier(i)' = InTier(i)
      /\ UNCHANGED <<absent, shrunk>>
  <2>1. SearchStep
    BY DEF SearchStep
  <2> QED BY <2>1, <1>4, StepsOnlyRead DEF Token, history, InTier
<1>6. ASSUME got # {}, df'[Token] = 0 PROVE \E i \in full' : \E r \in InTier(i)' : Token \in r.body
  <2>1. Cardinality(got) # 0
    BY <1>3, <1>6, FS_EmptySet
  <2>2. Cardinality(got) >= Depth
    BY <1>1, <1>3, <1>4, <1>6, <2>1 DEF SearchOK
  <2>3. at \in full'
    BY <1>1, <2>2
  <2>4. PICK r \in got : TRUE
    BY <1>6
  <2>5. r \in InTier(at) /\ Token \in r.body
    BY <1>3, <2>4 DEF S
  <2> QED BY <1>5, <2>3, <2>5
<1>7. ASSUME got = {} PROVE df' = df /\ head' = head /\ full \subseteq full'
  <2>1. Cardinality(got) = 0
    BY <1>7, FS_EmptySet
  <2> QED BY <1>1, <1>2, <1>4, <1>7, <2>1 DEF SearchOK
<1>8. ToBeCounted'
  <2>1. CASE got = {}
    BY <1>4, <1>5, <1>7, <2>1 DEF ZeroInv, ToBeCounted
  <2>2. CASE got # {}
    BY <1>5, <1>6, <2>2 DEF ToBeCounted
  <2> QED BY <2>1, <2>2
<1>9. StillAhead'
  <2> SUFFICES ASSUME ~shrunk', df'[Token] = 0, head' = {}
               PROVE  /\ pc' = "recall" => Token \in absent \/ \E r \in Mine : Close(Token, r) \/ (Token \in r.body /\ HereOn(r)')
                      /\ pc' = "tally" => Token \in absent \/ \E r \in Mine : Close(Token, r)
    BY <1>5 DEF StillAhead
  <2>1. got = {} /\ S = {}
    BY <1>1, <1>3
  <2>2. ~shrunk /\ df[Token] = 0 /\ head = {}
    BY <1>5, <1>7, <2>1
  <2>3. Token \in absent \/ \E r \in Mine : Close(Token, r) \/ (Token \in r.body /\ HereOn(r))
    BY <2>2, <1>4 DEF ZeroInv, StillAhead
  <2>4. \A r \in Mine : Token \in r.body => r.tier # Tiers[at]
    BY <2>1 DEF S, InTier
  <2>5. Len(Tiers) \in Nat /\ DOMAIN Tiers = 1..Len(Tiers) /\ at \in DOMAIN Tiers
    BY TablesAndQueries DEF SearchOK
  <2>6. \A r \in Mine : Token \in r.body /\ HereOn(r) => at # Len(Tiers) /\ \E i \in DOMAIN Tiers : i >= at + 1 /\ r.tier = Tiers[i]
    BY <2>4, <2>5 DEF HereOn
  <2>7. (pc' = "tally" /\ LastTier) \/ (pc' = "recall" /\ at' = at + 1)
    BY <1>4 DEF RecallTier, NextTier
  <2> QED BY <2>3, <2>6, <2>7 DEF HereOn, LastTier
<1> QED BY <1>8, <1>9

LEMMA TierCounted ==
  ASSUME TableOK(rows), SearchOK, ZeroInv, CountTier
  PROVE  StillAhead' /\ ToBeCounted'
<1> DEFINE S == {r \in InTier(Min(full)) : Token \in r.body}
<1>1. /\ df' = [df EXCEPT ![Token] = @ + Cardinality(S)] /\ full' = full \ {Min(full)}
      /\ pc = "tally" /\ pc' = "tally" /\ head' = head
  BY DEF CountTier
<1>2. IsFiniteSet(S) /\ Cardinality(S) \in Nat
  BY MineFinite
<1>3. Token \in Asked /\ df[Token] \in Nat /\ df \in [Asked -> Nat]
  BY <1>1, TablesAndQueries DEF SearchOK, Token, Asked, RangeOf
<1>4. /\ Mine' = Mine /\ UNCHANGED <<absent, shrunk>> /\ Token' = Token
      /\ \A i : InTier(i)' = InTier(i)
  <2>1. SearchStep
    BY DEF SearchStep
  <2> QED BY <2>1, StepsOnlyRead DEF CountTier, Token, history, InTier
<1>5. df'[Token] = df[Token] + Cardinality(S)
  <2> HIDE DEF S
  <2> QED BY <1>1, <1>3
<1>6. StillAhead'
  <2> HIDE DEF S
  <2> QED BY <1>1, <1>2, <1>3, <1>4, <1>5 DEF ZeroInv, StillAhead
<1>7. ToBeCounted'
  <2> SUFFICES ASSUME ~shrunk', df'[Token] = 0, head' # {}
               PROVE  \E i \in full' : \E r \in InTier(i)' : Token \in r.body
    BY <1>4 DEF ToBeCounted
  <2>1. df[Token] = 0 /\ Cardinality(S) = 0
    <3> HIDE DEF S
    <3> QED BY <1>2, <1>3, <1>5
  <2>2. S = {}
    <3> HIDE DEF S
    <3> QED BY <1>2, <2>1, FS_EmptySet
  <2>3. PICK i \in full : \E r \in InTier(i) : Token \in r.body
    BY <1>1, <1>4, <2>1 DEF ZeroInv, ToBeCounted
  <2>4. i # Min(full)
    BY <2>2, <2>3
  <2> QED BY <1>1, <1>4, <2>3, <2>4
<1> QED BY <1>6, <1>7

LEMMA ShadowAnswers ==
  ASSUME TableOK(rows), HistoryOK, SearchOK, ZeroInv, RecallShadow
  PROVE  ZeroInv'
<1>0. Len(query.tokens) \in Nat /\ turn \in Nat
  BY TablesAndQueries DEF SearchOK
<1>1. PICK extra \in ShadowRows(Depth - Cardinality(head)) :
        LET zero == df[Token] + Cardinality(extra) = 0 /\ Token \notin FunctionWords IN
        /\ df' = [df EXCEPT ![Token] = df[Token] + Cardinality(extra)]
        /\ verdict' = IF zero THEN "ABSTAINED_ON" ELSE verdict
        /\ zero => turn' = turn /\ pc' = "stage0"
        /\ pc' = "recall" => turn' = turn + 1 /\ turn < Len(query.tokens)
        /\ pc' \in {"stage0", "recall", "prep", "gates"}
  <2>1. PICK extra \in ShadowRows(Depth - Cardinality(head)) :
          LET zero == df[Token] + Cardinality(extra) = 0 /\ Token \notin FunctionWords IN
          /\ df' = [df EXCEPT ![Token] = df[Token] + Cardinality(extra)]
          /\ verdict' = IF zero THEN "ABSTAINED_ON" ELSE verdict
          /\ IF zero \/ turn = Len(query.tokens) THEN turn' = turn ELSE turn' = turn + 1
          /\ zero => pc' = "stage0"
          /\ ~zero /\ turn < Len(query.tokens) => pc' = "recall"
          /\ ~zero /\ ~(turn < Len(query.tokens)) => pc' \in {"prep", "gates"}
    BY DEF RecallShadow
  <2> DEFINE zero == df[Token] + Cardinality(extra) = 0 /\ Token \notin FunctionWords
  <2> HIDE DEF zero
  <2>2. /\ verdict' = IF zero THEN "ABSTAINED_ON" ELSE verdict
        /\ IF zero \/ turn = Len(query.tokens) THEN turn' = turn ELSE turn' = turn + 1
        /\ zero => pc' = "stage0"
        /\ ~zero /\ turn < Len(query.tokens) => pc' = "recall"
        /\ ~zero /\ ~(turn < Len(query.tokens)) => pc' \in {"prep", "gates"}
    BY <2>1 DEF zero
  <2>3. /\ zero => turn' = turn /\ pc' = "stage0"
        /\ pc' = "recall" => turn' = turn + 1 /\ turn < Len(query.tokens)
        /\ pc' \in {"stage0", "recall", "prep", "gates"}
    BY <1>0, <2>2
  <2> QED BY <2>1, <2>3 DEF zero
<1>2. head' = {} /\ full = {} /\ at' = at /\ pc = "tally" /\ full' = full
  BY DEF RecallShadow
<1>3. Token \in Asked /\ df[Token] \in Nat /\ df \in [Asked -> Nat]
  BY <1>2, TablesAndQueries DEF SearchOK, Token, Asked, RangeOf
<1>4. /\ Mine' = Mine /\ UNCHANGED <<absent, shrunk, query, wasEmpty>> /\ Asked' = Asked
  <2>1. SearchStep
    BY DEF SearchStep
  <2> QED BY <2>1, StepsOnlyRead DEF history
<1>5. extra \subseteq Mine /\ Cardinality(extra) \in Nat /\ IsFiniteSet(extra)
  <2>1. extra \subseteq Mine
    BY <1>1 DEF ShadowRows, Top, kSubset
  <2> QED BY <2>1, MineFinite, FS_Subset, FS_CardinalityType
<1>6. ASSUME ~shrunk, df[Token] + Cardinality(extra) = 0 PROVE Token \in absent
  <2>1. df[Token] = 0 /\ Cardinality(extra) = 0
    BY <1>3, <1>5, <1>6
  <2>2. extra = {}
    BY <1>5, <2>1, FS_EmptySet
  <2>3. head = {}
    BY <1>2, <1>6, <2>1 DEF ZeroInv, ToBeCounted
  <2>4. Token \in absent \/ \E r \in Mine : Close(Token, r)
    BY <1>2, <1>6, <2>1, <2>3 DEF ZeroInv, StillAhead
  <2>5. {r \in Mine : Close(Token, r)} = {}
    <3> DEFINE F == {r \in Mine : Close(Token, r)}
    <3>1. extra \in Top(Depth, F)
      BY <1>1, <2>3 DEF ShadowRows
    <3>2. IsFiniteSet(F) /\ Depth \in Nat /\ Depth # 0
      BY MineFinite, FS_Subset, RecallBounds
    <3> HIDE DEF F
    <3>3. F = {}
      BY <2>2, <3>1, <3>2, TopRows
    <3> QED BY <3>3 DEF F
  <2> QED BY <2>4, <2>5
<1>7. ZeroesSaid'
  <2>1. verdict # "ABSTAINED_ON"
    BY <1>2 DEF ZeroInv, ZeroesSaid
  <2>2. CASE df[Token] + Cardinality(extra) = 0 /\ Token \notin FunctionWords
    <3>1. Token' = Token /\ pc' = "stage0" /\ verdict' = "ABSTAINED_ON"
      BY <1>1, <1>4, <2>2 DEF Token
    <3> QED BY <1>4, <1>6, <2>2, <3>1 DEF ZeroesSaid
  <2>3. CASE ~(df[Token] + Cardinality(extra) = 0 /\ Token \notin FunctionWords)
    <3>1. verdict' = verdict
      BY <1>1, <2>3
    <3> QED BY <1>4, <2>1, <3>1 DEF ZeroInv, ZeroesSaid
  <2> QED BY <2>2, <2>3
<1>8. StillAhead'
  <2>1. CASE pc' = "recall"
    <3>1. Token' \in Asked
      <4>1. turn' \in DOMAIN query.tokens
        <5>1. Len(query.tokens) \in Nat /\ DOMAIN query.tokens = 1..Len(query.tokens)
          BY TablesAndQueries DEF SearchOK
        <5> QED BY <1>1, <1>2, <2>1, <5>1 DEF SearchOK
      <4> QED BY <4>1, <1>4 DEF Token, Asked, RangeOf
    <3>2. at' = 1
      BY <1>2 DEF SearchOK
    <3>3. Token' \in absent \/ \E r \in Mine : Close(Token', r) \/ (Token' \in r.body /\ \E i \in DOMAIN Tiers : i >= 1 /\ r.tier = Tiers[i])
      <4> SUFFICES ASSUME NEW t \in Asked
                   PROVE  t \in absent \/ \E r \in Mine : Close(t, r) \/ (t \in r.body /\ \E i \in DOMAIN Tiers : i >= 1 /\ r.tier = Tiers[i])
        BY <3>1
      <4> QED BY RecallBegins
    <3> QED BY <1>4, <2>1, <3>2, <3>3 DEF StillAhead, HereOn
  <2>2. CASE pc' # "recall"
    BY <1>1, <2>2 DEF StillAhead
  <2> QED BY <2>1, <2>2
<1>9. ToBeCounted' /\ ProbeAhead'
  BY <1>1, <1>2 DEF ToBeCounted, ProbeAhead
<1> QED BY <1>7, <1>8, <1>9 DEF ZeroInv

LEMMA ProbeBegins ==
  ASSUME TableOK(rows), HistoryOK
  PROVE  wasEmpty \/ \E r \in Mine : \E i \in DOMAIN Tiers : i >= 1 /\ r.tier = Tiers[i]
<1>1. DOMAIN Tiers = 1..Len(Tiers) /\ Len(Tiers) \in Nat
  BY TablesAndQueries
<1>2. \A r \in Mine : \E i \in DOMAIN Tiers : i >= 1 /\ r.tier = Tiers[i]
  BY <1>1, MineFinite
<1> QED BY <1>2 DEF HistoryOK

LEMMA StepsKeepZero ==
  ASSUME TableOK(rows), HistoryOK, SearchOK, ZeroInv, SearchStep
  PROVE  ZeroInv'
<1>1. /\ Mine' = Mine /\ query' = query /\ UNCHANGED <<absent, shrunk, wasEmpty>> /\ Asked' = Asked
      /\ turn' = turn => Token' = Token
  BY StepsOnlyRead DEF history, Token
<1>2. pc \notin {"stage0", "probe", "done"} => verdict # "ABSTAINED_ON"
  BY DEF ZeroInv, ZeroesSaid
<1>3. verdict = "EMPTY_STORE" /\ ~shrunk => wasEmpty
  BY DEF ZeroInv, ZeroesSaid
<1>4. CASE ExactNames \/ PartialNames \/ LoadPrep \/ HydratePage
  <2>1. /\ pc \notin {"stage0", "probe", "done"} /\ verdict' = verdict
        /\ pc' \notin {"recall", "tally", "probe"}
    BY <1>4 DEF ExactNames, PartialNames, LoadPrep, HydratePage
  <2> QED BY <2>1, <1>1, <1>2, <1>3 DEF ZeroInv, StillAhead, ToBeCounted, ProbeAhead, ZeroesSaid
<1>5. CASE CountCorpus
  <2>1. pc = "count" /\ verdict' = verdict /\ turn' = turn /\ head' = head /\ NextTier("recall")
    BY <1>5 DEF CountCorpus
  <2>2. pc' = "count" \/ (pc' = "recall" /\ at' = 1)
    BY <2>1, NextTierStays DEF SearchOK
  <2>3. head' = {} /\ Token \in Asked
    <3>1. 1 \in DOMAIN query.tokens
      <4>1. query.tokens # <<>> /\ query \in Queries
        BY <2>1 DEF SearchOK
      <4>2. Len(query.tokens) \in Nat /\ DOMAIN query.tokens = 1..Len(query.tokens)
        BY <4>1, TablesAndQueries
      <4> QED BY <4>1, <4>2, TablesAndQueries
    <3> QED BY <2>1, <3>1 DEF SearchOK, Named, Token, Asked, RangeOf
  <2>4. Token \in absent \/ \E r \in Mine : Close(Token, r) \/ (Token \in r.body /\ \E i \in DOMAIN Tiers : i >= 1 /\ r.tier = Tiers[i])
    BY <2>3, RecallBegins
  <2>5. StillAhead'
    BY <1>1, <2>1, <2>2, <2>4 DEF StillAhead, HereOn
  <2> QED BY <2>1, <2>2, <2>3, <2>5, <1>1, <1>2, <1>3 DEF ZeroInv, ToBeCounted, ProbeAhead, ZeroesSaid
<1>6. CASE RecallTier \/ CountTier
  <2>1. StillAhead' /\ ToBeCounted'
    BY <1>6, TierRecalled, TierCounted
  <2>2. pc \in {"recall", "tally"} /\ verdict' = verdict
    BY <1>6 DEF RecallTier, CountTier
  <2>3. pc' # "probe"
    BY <1>6, <2>2, NextTierStays DEF RecallTier, CountTier, SearchOK
  <2> QED BY <2>1, <2>2, <2>3, <1>1, <1>2, <1>3 DEF ZeroInv, ProbeAhead, ZeroesSaid
<1>7. CASE RecallShadow
  BY <1>7, ShadowAnswers
<1>8. CASE Gates
  <2>1. pc = "gates" /\ verdict' \in {verdict, "NEGATION_ABSTAIN", "GATED"} /\ pc' \in {"stage0", "hydrate"}
    BY <1>8 DEF Gates
  <2> QED BY <2>1, <1>1, <1>2, <1>3 DEF ZeroInv, StillAhead, ToBeCounted, ProbeAhead, ZeroesSaid
<1>9. CASE MergeNames
  <2>1. /\ pc = "stage0" /\ verdict' \in {verdict, "OK"} /\ pc' \in {"probe", "done"}
        /\ at' = 1 /\ turn' = turn
    BY <1>9 DEF MergeNames
  <2>2. ProbeAhead'
    BY <2>1, <1>1, ProbeBegins DEF ProbeAhead, HereOn
  <2> QED BY <2>1, <2>2, <1>1, <1>3 DEF ZeroInv, StillAhead, ToBeCounted, ZeroesSaid
<1>10. CASE Probe
  <2>1. /\ pc = "probe" /\ pc' \in {"probe", "done"} /\ turn' = turn
        /\ pc' = "probe" => InTier(at) = {} /\ ~LastTier /\ at' = at + 1
        /\ verdict' = IF InTier(at) = {} /\ LastTier THEN "EMPTY_STORE" ELSE verdict
    BY <1>10 DEF Probe
  <2>2. Len(Tiers) \in Nat /\ DOMAIN Tiers = 1..Len(Tiers) /\ at \in DOMAIN Tiers
    BY TablesAndQueries DEF SearchOK
  <2>3. ~shrunk => wasEmpty \/ \E r \in Mine : HereOn(r)
    BY <2>1 DEF ZeroInv, ProbeAhead
  <2>4. InTier(at) = {} => \A r \in Mine : HereOn(r) => at # Len(Tiers) /\ \E i \in DOMAIN Tiers : i >= at + 1 /\ r.tier = Tiers[i]
    BY <2>2 DEF HereOn, InTier
  <2>5. ProbeAhead'
    BY <2>1, <2>3, <2>4, <1>1 DEF ProbeAhead, HereOn
  <2>6. ZeroesSaid'
    BY <2>1, <2>3, <2>4, <1>1, <1>3 DEF ZeroInv, ZeroesSaid, LastTier
  <2> QED BY <2>1, <2>5, <2>6 DEF ZeroInv, StillAhead, ToBeCounted
<1>11. CASE StrictTier
  <2>1. pc = "strict" /\ pc' \in {"strict", "append"} /\ verdict' = verdict
    BY <1>11 DEF StrictTier
  <2> QED BY <2>1, <1>1, <1>2, <1>3 DEF ZeroInv, StillAhead, ToBeCounted, ProbeAhead, ZeroesSaid
<1>12. CASE AppendShadow
  <2>1. /\ pc = "append" /\ pc' \in {"probe", "done"} /\ verdict' \in {verdict, "OK"}
        /\ at' = at /\ turn' = turn
    BY <1>12 DEF AppendShadow
  <2>2. at = 1
    BY <2>1 DEF SearchOK
  <2>3. ProbeAhead'
    BY <2>1, <2>2, <1>1, ProbeBegins DEF ProbeAhead, HereOn
  <2> QED BY <2>1, <2>3, <1>1, <1>2, <1>3 DEF ZeroInv, StillAhead, ToBeCounted, ZeroesSaid
<1> QED BY <1>4, <1>5, <1>6, <1>7, <1>8, <1>9, <1>10, <1>11, <1>12 DEF SearchStep

\* An honest zero: while clients only add, a search says "unsupported" of a word
\* only when at some moment no memory held it in any form, and "empty" of a
\* store only when it was (ZeroHonest; multi_record_search, store_is_empty).
THEOREM ZeroesAreHonest == RecallSpec => []ZeroHonest
<1> DEFINE Inv == TableOK(rows) /\ HistoryOK /\ SearchOK /\ ZeroInv
<1>1. RecallInit => Inv
  BY SearchStart DEF RecallInit, ZeroInv, StillAhead, ToBeCounted, ProbeAhead, ZeroesSaid
<1>2. Inv /\ [RecallNext]_recallVars => Inv'
  <2> SUFFICES ASSUME Inv, [RecallNext]_recallVars PROVE Inv'
    OBVIOUS
  <2>1. ASSUME NEW s \in Slots, Edit(s) PROVE Inv'
    <3>1. TableOK(rows)' /\ HistoryOK' /\ ZeroInv' /\ UNCHANGED <<pc, searchVars>>
      BY <2>1, EditsKeepTables, EditsKeepHistory, EditsKeepZero
    <3> QED BY <3>1 DEF SearchOK, searchVars, Asked
  <2>2. CASE SearchStep
    <3>1. rows' = rows
      BY <2>2, StepsOnlyRead
    <3> QED BY <2>2, <3>1, StepsKeepHistory, StepsKeepSearch, StepsKeepZero
  <2>3. CASE UNCHANGED recallVars
    <3>1. /\ UNCHANGED <<rows, pc, query, turn, at, head, full, corpus, df, verdict>>
          /\ UNCHANGED <<seen, steady, absent, wasEmpty, shrunk>>
      BY <2>3 DEF recallVars, searchVars, history
    <3>2. Mine' = Mine /\ Asked' = Asked /\ Token' = Token /\ (\A i : InTier(i)' = InTier(i))
      BY <3>1 DEF Mine, Asked, Token, InTier
    <3>3. HistoryOK' /\ SearchOK'
      BY <3>1, <3>2 DEF HistoryOK, SearchOK, Unsupported
    <3>4. ZeroInv'
      BY <3>1, <3>2 DEF ZeroInv, StillAhead, ToBeCounted, ProbeAhead, ZeroesSaid, HereOn
    <3> QED BY <3>1, <3>3, <3>4
  <2> QED BY <2>1, <2>2, <2>3 DEF RecallNext, Edit
<1>3. Inv => ZeroHonest
  BY DEF ZeroInv, ZeroesSaid, ZeroHonest
<1> QED BY <1>1, <1>2, <1>3, PTL DEF RecallSpec

-----------------------------------------------------------------------------
(* What stands still is found.                                              *)

\* Rows and hits are told apart by what they are called; every one the search
\* holds is a memory it may have seen.
SeenIdents == {Ident(v) : v \in seen}
Distinct(S) == \A x, y \in S : Ident(x) = Ident(y) => x = y
Known(S) == \A x \in S : Ident(x) \in SeenIdents
Small == Cardinality(SeenIdents) <= Limit

LEMMA SeenFinite ==
  ASSUME IsFiniteSet(seen)
  PROVE  IsFiniteSet(SeenIdents) /\ Cardinality(SeenIdents) \in Nat
<1> DEFINE f == [v \in seen |-> Ident(v)]
<1>1. f \in Surjection(seen, SeenIdents)
  BY DEF Surjection, SeenIdents
<1> QED BY <1>1, FS_Surjection, FS_CardinalityType

LEMMA AsManyAsSeen ==
  ASSUME IsFiniteSet(seen), NEW S, Distinct(S), Known(S)
  PROVE  IsFiniteSet(S) /\ Cardinality(S) \in Nat /\ Cardinality(S) <= Cardinality(SeenIdents)
<1> DEFINE f == [x \in S |-> Ident(x)]
<1>1. f \in Injection(S, SeenIdents)
  BY DEF Injection, IsInjective, Distinct, Known
<1> HIDE DEF f
<1> QED BY <1>1, SeenFinite, FS_Injection, FS_CardinalityType

LEMMA NoFewer ==
  ASSUME IsFiniteSet(seen), NEW S, Distinct(S), NEW T, Distinct(T), Known(T),
         \A x \in S : \E y \in T : Ident(y) = Ident(x)
  PROVE  IsFiniteSet(S) /\ Cardinality(S) \in Nat /\ Cardinality(T) \in Nat /\ Cardinality(S) <= Cardinality(T)
<1> DEFINE f == [x \in S |-> CHOOSE y \in T : Ident(y) = Ident(x)]
<1>1. \A x \in S : f[x] \in T /\ Ident(f[x]) = Ident(x)
  OBVIOUS
<1>2. f \in [S -> T]
  OBVIOUS
<1> HIDE DEF f
<1>3. f \in Injection(S, T)
  BY <1>1, <1>2 DEF Injection, IsInjective, Distinct
<1>4. IsFiniteSet(T)
  BY AsManyAsSeen
<1> QED BY <1>3, <1>4, FS_Injection, FS_CardinalityType

\* The page of _finish: all there is to show, unless that fills the page.
MayShow(exact, part, text) ==
  LET room == Limit - Cardinality(exact) IN
    IF room <= 0 THEN Top(Limit, exact)
    ELSE IF room <= Cardinality(part) THEN {exact \union P : P \in Top(room, part)}
    ELSE {exact \union part \union S : S \in Top(room - Cardinality(part), text)}
ShowsAll(got, exact, part, text) ==
  LET all == exact \union part \union text IN
    /\ got \subseteq all
    /\ Cardinality(all) <= Limit \/ Cardinality(got) < Limit => got = all
    /\ exact \subseteq got \/ (Cardinality(exact) > Limit /\ Cardinality(got) = Limit)

LEMMA MergedPage ==
  ASSUME NEW exact, NEW part, NEW text, NEW got,
         IsFiniteSet(exact), IsFiniteSet(part), IsFiniteSet(text),
         exact \intersect part = {}, (exact \union part) \intersect text = {},
         got \in MayShow(exact, part, text)
  PROVE  ShowsAll(got, exact, part, text)
<1> USE DEF MayShow, ShowsAll
<1> DEFINE e == Cardinality(exact)
           p == Cardinality(part)
           t == Cardinality(text)
           both == exact \union part
           all == exact \union part \union text
<1>1. e \in Nat /\ p \in Nat /\ t \in Nat /\ Limit \in Nat /\ Limit # 0
  BY FS_CardinalityType, RecallBounds
<1>2. IsFiniteSet(both) /\ Cardinality(both) = e + p
  <2>1. IsFiniteSet(both) /\ Cardinality(both) = e + p - Cardinality({})
    BY FS_Union
  <2> QED BY <1>1, <2>1, FS_EmptySet
<1>3. IsFiniteSet(all) /\ Cardinality(all) = e + p + t
  <2>1. both \intersect text = {} /\ all = both \union text
    OBVIOUS
  <2> HIDE DEF both, all
  <2>2. IsFiniteSet(all) /\ Cardinality(all) = Cardinality(both) + t - Cardinality({})
    BY <2>1, <1>2, FS_Union
  <2> QED BY <1>1, <1>2, <2>2, FS_EmptySet
<1>4. CASE Limit - e <= 0
  <2>1. got \in Top(Limit, exact)
    BY <1>4
  <2>2. /\ got \subseteq exact /\ Cardinality(got) = Limit
        /\ (e <= Limit => got = exact)
    BY <1>1, <1>4, <2>1, TopRows
  <2>3. ASSUME e + p + t <= Limit PROVE got = all
    <3>1. got = exact /\ Cardinality(exact) = Cardinality(all) /\ exact \subseteq all
      <4> HIDE DEF all
      <4>1. e = Limit /\ p = 0 /\ t = 0
        BY <1>1, <1>4, <2>3
      <4> QED BY <1>1, <1>3, <2>2, <4>1 DEF all
    <3>2. exact = all
      BY <3>1, <1>3, FS_Subset
    <3> QED BY <3>1, <3>2
  <2> QED BY <1>1, <1>3, <1>4, <2>2, <2>3
<1>5. CASE ~(Limit - e <= 0) /\ Limit - e <= p
  <2>1. PICK P \in Top(Limit - e, part) : got = exact \union P
    BY <1>5
  <2>2. Limit - e \in Nat /\ p >= Limit - e
    BY <1>1, <1>5
  <2>3. /\ P \subseteq part /\ IsFiniteSet(P) /\ Cardinality(P) = Limit - e
        /\ (p <= Limit - e => P = part)
    BY <2>1, <2>2, TopRows
  <2>4. Cardinality(got) = Limit
    <3>1. exact \intersect P = {}
      BY <2>3
    <3>2. Cardinality(got) = e + Cardinality(P) - Cardinality({})
      BY <2>1, <2>3, <3>1, FS_Union
    <3> QED BY <1>1, <2>3, <3>2, FS_EmptySet
  <2>5. ASSUME e + p + t <= Limit PROVE got = all
    <3>1. P = part /\ t = 0
      BY <1>1, <2>2, <2>3, <2>5
    <3>2. text = {}
      BY <3>1, FS_EmptySet
    <3> QED BY <2>1, <3>1, <3>2
  <2> QED BY <1>1, <1>3, <2>1, <2>3, <2>4, <2>5
<1>6. CASE ~(Limit - e <= 0) /\ ~(Limit - e <= p)
  <2>1. PICK S \in Top(Limit - e - p, text) : got = exact \union part \union S
    BY <1>6
  <2>2. Limit - e - p \in Nat
    BY <1>1, <1>6
  <2>3. /\ S \subseteq text /\ IsFiniteSet(S)
        /\ (t <= Limit - e - p => S = text)
        /\ (t >= Limit - e - p => Cardinality(S) = Limit - e - p)
    BY <2>1, <2>2, TopRows
  <2>4. CASE t <= Limit - e - p
    BY <2>1, <2>3, <2>4
  <2>5. CASE ~(t <= Limit - e - p)
    <3>1. both \intersect S = {} /\ got = both \union S
      BY <2>1, <2>3
    <3>2. Cardinality(got) = Cardinality(both) + Cardinality(S) - Cardinality({})
      <4> HIDE DEF both
      <4> QED BY <1>2, <2>3, <3>1, FS_Union
    <3>3. Cardinality(S) = Limit - e - p /\ e + p + t > Limit
      BY <1>1, <2>2, <2>3, <2>5
    <3>4. Cardinality(got) = Limit
      BY <1>1, <1>2, <3>2, <3>3, FS_EmptySet
    <3> QED BY <1>1, <1>3, <2>1, <2>3, <3>3, <3>4
  <2> QED BY <2>4, <2>5
<1> QED BY <1>4, <1>5, <1>6

HitsOK ==
  /\ IsFiniteSet(seen)
  /\ Distinct(head) /\ Known(head)
  /\ pc \in {"recall", "strict"} => \A h \in head : \E i \in DOMAIN Tiers : i < at /\ h.tier = Tiers[i]
  /\ \A c \in cand : c = [hit |-> c.hit, m |-> c.m] /\ Ident(c.hit) \in SeenIdents
  /\ \A c, d \in cand : Ident(c.hit) = Ident(d.hit) => c = d
  /\ pc \in Named \/ (pc \in {"recall", "tally"} /\ turn = 1) => cand = {}
  /\ Known(named) /\ \A n, o \in named : n.match = o.match /\ Ident(n) = Ident(o) => n = o
  /\ pc = "partial" => \A n \in named : n.match = "name"
  /\ pc \in Named \union {"recall", "tally", "prep"} => preps = {}
  /\ pc = "prep" => query.terminal
  /\ Distinct(page) /\ Known(page)

\* While clients only add, every row number still loads.
Loads(h) == Loaded(h) # {}
HitsLoad ==
  ~shrunk =>
    /\ pc \in {"recall", "tally"} => \A h \in head : Loads(h)
    /\ \A c \in cand : c.hit.rid = 0 \/ Loads(c.hit)
    /\ pc = "hydrate" => \A h \in page : h.rid = 0 \/ Loads(h)

LEMMA MineApart ==
  ASSUME TableOK(rows)
  PROVE  \A r, o \in Mine : /\ Ident(r) = Ident(o) => r = o
                            /\ r.tier = o.tier /\ r.rid = o.rid => r = o
BY DEF TableOK, RowsApart, Mine, MineIn, Ident

LEMMA MineSeen ==
  ASSUME HistoryOK
  PROVE  \A r \in Mine : Ident(r) \in SeenIdents
<1> SUFFICES ASSUME NEW r \in Mine PROVE Ident(r) \in SeenIdents
  OBVIOUS
<1>1. Version(r) \in seen
  BY DEF HistoryOK
<1>2. Ident(Version(r)) = Ident(r)
  BY DEF Version, Ident
<1>3. Ident(Version(r)) \in SeenIdents
  BY <1>1 DEF SeenIdents
<1> QED BY <1>2, <1>3

LEMMA VersionsFinite ==
  ASSUME NEW R, IsFiniteSet(R)
  PROVE  IsFiniteSet({Version(r) : r \in R})
<1> DEFINE T == {Version(r) : r \in R}
           f == [r \in R |-> Version(r)]
<1>1. f \in Surjection(R, T)
  BY DEF Surjection
<1> HIDE DEF f
<1> QED BY <1>1, FS_Surjection

LEMMA HitsStart == RecallInit => HitsOK /\ HitsLoad
<1> SUFFICES ASSUME RecallInit PROVE HitsOK /\ HitsLoad
  OBVIOUS
<1>1. IsFiniteSet(seen)
  <2>1. TableOK(rows)
    BY SearchStart
  <2>2. seen = {Version(r) : r \in Mine}
    BY DEF RecallInit
  <2> QED BY <2>1, <2>2, MineFinite, VersionsFinite
<1>2. head = {} /\ cand = {} /\ named = {} /\ preps = {} /\ page = {} /\ pc \in {"exact", "strict"}
  BY DEF RecallInit
<1> QED BY <1>1, <1>2 DEF HitsOK, HitsLoad, Distinct, Known, Named

LEMMA EditsKeepHits ==
  ASSUME TableOK(rows), HistoryOK, HitsOK, HitsLoad, NEW s \in Slots, Edit(s)
  PROVE  HitsOK' /\ HitsLoad' /\ (Small' => Small) /\ SeenIdents \subseteq SeenIdents'
<1>1. UNCHANGED <<pc, searchVars>> /\ seen \subseteq seen'
  BY EditsKeepHistory
<1>2. UNCHANGED <<pc, query, turn, at, named, head, cand, preps, page>>
  BY <1>1 DEF searchVars
<1>3. SeenIdents \subseteq SeenIdents'
  BY <1>1 DEF SeenIdents
<1>4. IsFiniteSet(seen')
  <2>1. TableOK(rows)'
    BY EditsKeepTables
  <2>2. IsFiniteSet(MineIn(rows'))
    BY <2>1, FS_Subset DEF TableOK, MineIn
  <2>3. IsFiniteSet({Version(r) : r \in MineIn(rows')})
    BY <2>2, VersionsFinite
  <2>4. seen' = seen \union {Version(r) : r \in MineIn(rows')}
    BY DEF Edit, DeleteRow, SetRow, Remember
  <2> QED BY <2>3, <2>4, FS_Union DEF HitsOK
<1>5. HitsOK'
  BY <1>2, <1>3, <1>4 DEF HitsOK, Distinct, Known
<1>6. HitsLoad'
  <2>1. shrunk' \/ (~shrunk /\ Mine \subseteq Mine')
    BY EditsKeepTables DEF Mine, MineIn
  <2> QED BY <1>2, <2>1 DEF HitsLoad, Loads, Loaded
<1>7. Small' => Small
  <2>1. IsFiniteSet(SeenIdents') /\ Cardinality(SeenIdents) \in Nat
    <3>1. HitsOK' => IsFiniteSet(SeenIdents')
      <4> SUFFICES ASSUME NEW Q, IsFiniteSet(Q) PROVE IsFiniteSet({Ident(v) : v \in Q})
        BY DEF HitsOK, SeenIdents
      <4> DEFINE T == {Ident(v) : v \in Q}
                 f == [v \in Q |-> Ident(v)]
      <4>1. f \in Surjection(Q, T)
        BY DEF Surjection
      <4> HIDE DEF f
      <4> QED BY <4>1, FS_Surjection
    <3> QED BY <1>5, <3>1, SeenFinite DEF HitsOK
  <2>2. Cardinality(SeenIdents) <= Cardinality(SeenIdents') /\ Cardinality(SeenIdents') \in Nat
    BY <1>3, <2>1, FS_Subset, FS_CardinalityType
  <2> QED BY <2>1, <2>2, RecallBounds DEF Small
<1> QED BY <1>3, <1>5, <1>6, <1>7

LEMMA RecallKeepsHits ==
  ASSUME TableOK(rows), HistoryOK, SearchOK, HitsOK, HitsLoad, RecallTier
  PROVE  HitsOK' /\ HitsLoad'
<1>1. PICK got \in Top(Depth, {r \in InTier(at) : Token \in r.body}) :
             head' = head \union {ByNumber(r) : r \in got}
  BY DEF RecallTier
<1>2. got \subseteq InTier(at) /\ InTier(at) \subseteq Mine
  BY <1>1 DEF Top, kSubset, InTier
<1>3. /\ SearchStep /\ Mine' = Mine /\ UNCHANGED <<seen, shrunk, turn, query, named, cand, preps, page>>
      /\ pc = "recall" /\ NextTier("tally")
  <2>1. SearchStep
    BY DEF SearchStep
  <2> QED BY <2>1, StepsOnlyRead DEF RecallTier, history
<1>4. (pc' = "recall" /\ at' = at + 1) \/ pc' = "tally"
  BY <1>3, NextTierStays DEF SearchOK
<1>5. Len(Tiers) \in Nat /\ DOMAIN Tiers = 1..Len(Tiers) /\ at \in DOMAIN Tiers
  BY TablesAndQueries DEF SearchOK
<1>6. \A h \in head : \E i \in DOMAIN Tiers : i < at /\ h.tier = Tiers[i]
  BY <1>3 DEF HitsOK
<1>7. \A r \in got : ByNumber(r).tier = Tiers[at] /\ Ident(ByNumber(r)) = Ident(r) /\ r \in Mine
  BY <1>2 DEF ByNumber, Ident, InTier
<1>8. \A h \in head : h.tier # Tiers[at]
  BY <1>5, <1>6, TablesAndQueries
<1>9. Distinct(head')
  <2>1. ASSUME NEW r \in got, NEW o \in got, Ident(ByNumber(r)) = Ident(ByNumber(o)) PROVE r = o
    BY <1>7, <2>1, MineApart
  <2>2. ASSUME NEW h \in head, NEW r \in got PROVE Ident(h) # Ident(ByNumber(r))
    BY <1>7, <1>8 DEF Ident
  <2> QED BY <1>1, <2>1, <2>2 DEF HitsOK, Distinct
<1>10. Known(head')
  BY <1>1, <1>7, MineSeen DEF HitsOK, Known
<1>11. pc' = "recall" => \A h \in head' : \E i \in DOMAIN Tiers : i < at' /\ h.tier = Tiers[i]
  BY <1>1, <1>3, <1>4, <1>5, <1>6, <1>7
<1>12. HitsOK'
  BY <1>3, <1>4, <1>9, <1>10, <1>11 DEF HitsOK, Distinct, Known, SeenIdents, Named
<1>13. \A r \in got : Loads(ByNumber(r))
  BY <1>7 DEF Loads, Loaded, ByNumber
<1>14. HitsLoad'
  BY <1>1, <1>3, <1>4, <1>13 DEF HitsLoad, Loads, Loaded
<1> QED BY <1>12, <1>14

\* The hits of a token, of the tiers and of the shadow.
LEMMA TokenHits ==
  ASSUME TableOK(rows), HistoryOK, HitsOK, NEW room, NEW extra \in ShadowRows(room)
  PROVE  LET hits == head \union {ByShadow(r) : r \in extra}
         IN Distinct(hits) /\ Known(hits) /\ extra \subseteq Mine
<1> DEFINE hits == head \union {ByShadow(r) : r \in extra}
<1>1. extra \subseteq Mine /\ \A r \in extra : \A h \in head : Ident(h) # Ident(r)
  BY DEF ShadowRows, Top, kSubset
<1>2. \A r \in extra : Ident(ByShadow(r)) = Ident(r)
  BY DEF ByShadow, Ident
<1>3. Distinct(hits)
  <2>1. ASSUME NEW r \in extra, NEW o \in extra, Ident(ByShadow(r)) = Ident(ByShadow(o)) PROVE r = o
    BY <1>1, <1>2, <2>1, MineApart
  <2>2. ASSUME NEW h \in head, NEW r \in extra PROVE Ident(h) # Ident(ByShadow(r))
    BY <1>1, <1>2
  <2> QED BY <2>1, <2>2 DEF HitsOK, Distinct
<1>4. Known(hits)
  BY <1>1, <1>2, MineSeen DEF HitsOK, Known
<1> QED BY <1>1, <1>3, <1>4

LEMMA Gathered ==
  ASSUME HitsOK, NEW hits, Distinct(hits), Known(hits)
  PROVE  /\ \A c \in Gather(hits) : c = [hit |-> c.hit, m |-> c.m] /\ Ident(c.hit) \in SeenIdents
         /\ \A c, d \in Gather(hits) : Ident(c.hit) = Ident(d.hit) => c = d
         /\ \A c \in Gather(hits) : c.hit \in hits \/ \E d \in cand : c.hit = d.hit
<1> DEFINE known == {c \in cand : \E h \in hits : Ident(h) = Ident(c.hit)}
           fresh == {h \in hits : \A c \in cand : Ident(c.hit) # Ident(h)}
           More(c) == [c EXCEPT !.m = @ \union {Token}]
           New(h) == [hit |-> h, m |-> {Token}]
<1>1. Gather(hits) = (cand \ known) \union {More(c) : c \in known} \union {New(h) : h \in fresh}
  BY DEF Gather
<1>2. \A c \in cand : c = [hit |-> c.hit, m |-> c.m] /\ Ident(c.hit) \in SeenIdents
  BY DEF HitsOK
<1>3. \A c \in cand : More(c) = [hit |-> c.hit, m |-> c.m \union {Token}] /\ More(c).hit = c.hit
  <2> SUFFICES ASSUME NEW c \in cand PROVE More(c) = [hit |-> c.hit, m |-> c.m \union {Token}] /\ More(c).hit = c.hit
    OBVIOUS
  <2>1. c = [hit |-> c.hit, m |-> c.m]
    BY <1>2
  <2> QED BY <2>1
<1>4. \A h \in hits : New(h).hit = h /\ Ident(h) \in SeenIdents
  BY DEF Known
<1>5. \A c, d \in cand : Ident(c.hit) = Ident(d.hit) => c = d
  BY DEF HitsOK
<1>6. known \subseteq cand /\ fresh \subseteq hits
  OBVIOUS
<1>7. \A h \in fresh : \A c \in cand : Ident(c.hit) # Ident(h)
  OBVIOUS
<1>8. \A c \in known : c \notin cand \ known
  OBVIOUS
<1> HIDE DEF known, fresh, More, New
<1>9. \A c \in Gather(hits) :
        \/ c \in cand \ known
        \/ \E d \in known : c = More(d)
        \/ \E h \in fresh : c = New(h)
  BY <1>1
<1>10. \A c \in Gather(hits) : c = [hit |-> c.hit, m |-> c.m] /\ Ident(c.hit) \in SeenIdents
  <2> SUFFICES ASSUME NEW c \in Gather(hits) PROVE c = [hit |-> c.hit, m |-> c.m] /\ Ident(c.hit) \in SeenIdents
    OBVIOUS
  <2>1. CASE c \in cand \ known
    BY <1>2, <2>1
  <2>2. ASSUME NEW d \in known, c = More(d) PROVE c = [hit |-> c.hit, m |-> c.m] /\ Ident(c.hit) \in SeenIdents
    BY <1>2, <1>3, <1>6, <2>2
  <2>3. ASSUME NEW h \in fresh, c = New(h) PROVE c = [hit |-> c.hit, m |-> c.m] /\ Ident(c.hit) \in SeenIdents
    BY <1>4, <1>6, <2>3 DEF New
  <2> QED BY <1>9, <2>1, <2>2, <2>3
<1>11. \A c, d \in Gather(hits) : Ident(c.hit) = Ident(d.hit) => c = d
  <2> SUFFICES ASSUME NEW c \in Gather(hits), NEW d \in Gather(hits), Ident(c.hit) = Ident(d.hit) PROVE c = d
    OBVIOUS
  <2>1. CASE c \in cand \ known
    BY <2>1, <1>3, <1>4, <1>5, <1>6, <1>7, <1>8, <1>9
  <2>2. ASSUME NEW x \in known, c = More(x) PROVE c = d
    BY <2>2, <1>3, <1>4, <1>5, <1>6, <1>7, <1>8, <1>9
  <2>3. ASSUME NEW h \in fresh, c = New(h) PROVE c = d
    BY <2>3, <1>3, <1>4, <1>6, <1>7, <1>9 DEF Distinct
  <2> QED BY <1>9, <2>1, <2>2, <2>3
<1>12. \A c \in Gather(hits) : c.hit \in hits \/ \E d \in cand : c.hit = d.hit
  BY <1>3, <1>4, <1>6, <1>9
<1> QED BY <1>10, <1>11, <1>12

LEMMA ShadowKeepsHits ==
  ASSUME TableOK(rows), HistoryOK, SearchOK, HitsOK, HitsLoad, RecallShadow
  PROVE  HitsOK' /\ HitsLoad'
<1>1. PICK extra \in ShadowRows(Depth - Cardinality(head)) :
             cand' \in {cand, Gather(head \union {ByShadow(r) : r \in extra})}
  BY DEF RecallShadow
<1> DEFINE hits == head \union {ByShadow(r) : r \in extra}
<1>2. Distinct(hits) /\ Known(hits) /\ extra \subseteq Mine
  BY TokenHits
<1>3. /\ Mine' = Mine /\ UNCHANGED <<seen, shrunk, query, named, preps, page>>
      /\ pc = "tally" /\ head' = {} /\ turn \in Nat \ {0}
      /\ pc' = "recall" => turn' # 1
      /\ pc' = "prep" => query.terminal
      /\ pc' \in {"stage0", "recall", "prep", "gates"}
  <2>1. SearchStep
    BY DEF SearchStep
  <2>2. UNCHANGED history /\ Mine' = Mine /\ turn \in Nat \ {0}
    BY <2>1, StepsOnlyRead DEF SearchOK
  <2>3. /\ UNCHANGED <<query, named, preps, page>>
        /\ pc = "tally" /\ head' = {}
        /\ pc' \in {"stage0", "recall", "prep", "gates"}
        /\ pc' = "prep" => query.terminal
    BY DEF RecallShadow, Still
  <2>4. pc' = "recall" => turn' # 1
    <3>1. Len(query.tokens) \in Nat
      BY TablesAndQueries DEF SearchOK
    <3>2. pc' = "recall" => turn' = turn + 1
      BY <3>1, <2>2 DEF RecallShadow
    <3> QED BY <2>2, <3>2
  <2> QED BY <2>2, <2>3, <2>4 DEF history
<1> HIDE DEF hits
<1>4. /\ \A c \in cand' : c = [hit |-> c.hit, m |-> c.m] /\ Ident(c.hit) \in SeenIdents
      /\ \A c, d \in cand' : Ident(c.hit) = Ident(d.hit) => c = d
      /\ \A c \in cand' : c.hit \in hits \/ \E d \in cand : c.hit = d.hit
  <2>1. CASE cand' = cand
    BY <2>1 DEF HitsOK
  <2>2. CASE cand' = Gather(hits)
    BY <1>2, <2>2, Gathered
  <2> QED BY <1>1, <2>1, <2>2 DEF hits
<1>5. HitsOK'
  BY <1>3, <1>4 DEF HitsOK, Distinct, Known, SeenIdents, Named
<1>6. ~shrunk => \A h \in hits : h.rid = 0 \/ Loads(h)
  <2>1. \A r \in extra : ByShadow(r).rid = 0
    BY DEF ByShadow
  <2> QED BY <1>3, <2>1 DEF HitsLoad, hits
<1>7. HitsLoad'
  BY <1>3, <1>4, <1>6 DEF HitsLoad, Loads, Loaded
<1> QED BY <1>5, <1>7

\* The page the gates choose: the hits of some candidates.
LEMMA GatedPage ==
  ASSUME Gates
  PROVE  \E C \in SUBSET cand : page' = {c.hit : c \in C}
<1> DEFINE ungated == {c \in cand : c.hit \notin preps}
           whole == {c \in ungated : Whole(c)}
<1>1. CASE page' = {}
  <2>1. page' = {c.hit : c \in {}}
    BY <1>1
  <2> QED BY <2>1
<1>2. ASSUME NEW some \in SUBSET {c \in ungated : Partly(c)},
             page' \in IF Cardinality(whole) >= Limit
                       THEN {{c.hit : c \in S} : S \in Top(Limit, whole)}
                       ELSE {{c.hit : c \in whole \union S} : S \in Top(Limit - Cardinality(whole), some)}
      PROVE  \E C \in SUBSET cand : page' = {c.hit : c \in C}
  <2>1. CASE Cardinality(whole) >= Limit
    <3>1. PICK S \in Top(Limit, whole) : page' = {c.hit : c \in S}
      BY <1>2, <2>1
    <3>2. S \in SUBSET cand
      BY <3>1 DEF Top, kSubset
    <3> QED BY <3>1, <3>2
  <2>2. CASE ~(Cardinality(whole) >= Limit)
    <3>1. PICK S \in Top(Limit - Cardinality(whole), some) : page' = {c.hit : c \in whole \union S}
      BY <1>2, <2>2
    <3>2. whole \union S \in SUBSET cand
      BY <3>1 DEF Top, kSubset
    <3> QED BY <3>1, <3>2
  <2> QED BY <2>1, <2>2
<1> QED BY <1>1, <1>2 DEF Gates

LEMMA HydratedHits ==
  ASSUME TableOK(rows), NEW P, Distinct(P), Known(P)
  PROVE  /\ Distinct(Hydrate(P)) /\ Known(Hydrate(P))
         /\ (\A h \in P : h.rid = 0 \/ Loads(h)) => \A h \in P : \E v \in Hydrate(P) : Ident(v) = Ident(h)
<1> DEFINE Of(h) == IF h.rid = 0 THEN {[tier |-> h.tier, key |-> h.key, body |-> h.body]} ELSE ReadByNumber(h)
<1>1. Hydrate(P) = UNION {Of(h) : h \in P}
  BY DEF Hydrate
<1>2. ASSUME NEW h PROVE /\ \A v \in Of(h) : Ident(v) = Ident(h)
                         /\ \A v, w \in Of(h) : v = w
                         /\ h.rid = 0 \/ Loads(h) => Of(h) # {}
  <2>1. \A r, o \in Loaded(h) : r = o
    BY MineApart DEF Loaded
  <2>2. CASE h.rid = 0
    BY <2>2 DEF Ident
  <2>3. CASE h.rid # 0
    <3>1. \A v \in ReadByNumber(h) : Ident(v) = Ident(h)
      BY DEF Ident, ReadByNumber
    <3>2. \A v, w \in ReadByNumber(h) : v = w
      BY <2>1 DEF ReadByNumber
    <3>3. Loads(h) => ReadByNumber(h) # {}
      BY DEF ReadByNumber, Loads
    <3> QED BY <2>3, <3>1, <3>2, <3>3
  <2> QED BY <2>2, <2>3
<1> HIDE DEF Of
<1>3. \A v \in Hydrate(P) : \E h \in P : v \in Of(h)
  BY <1>1
<1>4. Distinct(Hydrate(P)) /\ Known(Hydrate(P))
  BY <1>2, <1>3 DEF Distinct, Known
<1>5. \A h \in P : \A v \in Of(h) : v \in Hydrate(P)
  BY <1>1
<1> QED BY <1>2, <1>4, <1>5

\* The three parts a page is merged from name different memories.
Exact == Leads("name")
Part == {v \in Leads("name_partial") : \A e \in Exact : Ident(e) # Ident(v)}
Text == {v \in page : \A n \in Exact \union Part : Ident(n) # Ident(v)}

LEMMA PartsApart ==
  ASSUME TableOK(rows), HistoryOK, HitsOK
  PROVE  /\ Distinct(Exact \union Part \union Text) /\ Known(Exact \union Part \union Text)
         /\ Exact \intersect Part = {} /\ (Exact \union Part) \intersect Text = {}
         /\ IsFiniteSet(Exact) /\ IsFiniteSet(Part) /\ IsFiniteSet(Text)
<1>1. ASSUME NEW n PROVE /\ \A v \in ReadByNumber(n) : Ident(v) = Ident(n)
                         /\ \A v, w \in ReadByNumber(n) : v = w
  BY MineApart DEF ReadByNumber, Loaded, Ident
<1>2. ASSUME NEW match PROVE Distinct(Leads(match)) /\ Known(Leads(match))
  <2>1. \A v \in Leads(match) : \E n \in named : n.match = match /\ v \in ReadByNumber(n)
    BY DEF Leads, Usable
  <2> QED BY <1>1, <2>1 DEF HitsOK, Distinct, Known
<1>3. Distinct(Exact) /\ Known(Exact) /\ Distinct(Part) /\ Known(Part) /\ Distinct(Text) /\ Known(Text)
  BY <1>2 DEF Exact, Part, Text, HitsOK, Distinct, Known
<1>4. /\ \A e \in Exact : \A p \in Part : Ident(e) # Ident(p)
      /\ \A t \in Text : \A n \in Exact \union Part : Ident(n) # Ident(t)
  BY DEF Part, Text
<1>5. IsFiniteSet(Exact) /\ IsFiniteSet(Part) /\ IsFiniteSet(Text)
  BY <1>3, AsManyAsSeen DEF HitsOK
<1>6. Distinct(Exact \union Part \union Text) /\ Known(Exact \union Part \union Text)
  BY <1>3, <1>4 DEF Distinct, Known
<1> QED BY <1>4, <1>5, <1>6

LEMMA MergedNames ==
  ASSUME TableOK(rows), HistoryOK, HitsOK, MergeNames
  PROVE  ShowsAll(page', Exact, Part, Text)
<1>1. page' \in MayShow(Exact, Part, Text)
  BY DEF MergeNames, Exact, Part, Text, MayShow
<1> QED BY <1>1, PartsApart, MergedPage

LEMMA NamesKeepHits ==
  ASSUME TableOK(rows), HistoryOK, HitsOK, ExactNames \/ PartialNames
  PROVE  Known(named') /\ \A n, o \in named' : n.match = o.match /\ Ident(n) = Ident(o) => n = o
<1>1. \A match : \A r \in Mine : NameRow(r, match).match = match /\ Ident(NameRow(r, match)) = Ident(r)
  BY DEF NameRow, Ident
<1>2. CASE ExactNames
  <2>1. named' = {NameRow(r, "name") : r \in {x \in Mine : x.tier = "entity" /\ x.key \in query.exact}}
    BY <1>2 DEF ExactNames
  <2>2. \A n \in named' : \E r \in Mine : n = NameRow(r, "name")
    BY <2>1
  <2> QED BY <2>2, <1>1, MineApart, MineSeen DEF Known
<1>3. CASE PartialNames
  <2>1. \A n \in named' : n \in named \/ \E r \in Mine : n = NameRow(r, "name_partial")
    BY <1>3 DEF PartialNames
  <2>2. \A n \in named : n.match = "name"
    BY <1>3 DEF HitsOK, PartialNames
  <2>3. Known(named')
    BY <2>1, <1>1, MineSeen DEF HitsOK, Known
  <2> QED BY <2>1, <2>2, <2>3, <1>1, MineApart DEF HitsOK
<1> QED BY <1>2, <1>3

LEMMA StrictKeepsHits ==
  ASSUME TableOK(rows), HistoryOK, SearchOK, HitsOK, HitsLoad, StrictTier
  PROVE  HitsOK' /\ HitsLoad'
<1>1. PICK got \in Top(Limit, {r \in InTier(at) : Variants[turn] \subseteq r.body}) :
             head' = head \union {Version(r) : r \in got}
  BY DEF StrictTier
<1>2. got \subseteq InTier(at) /\ InTier(at) \subseteq Mine
  BY <1>1 DEF Top, kSubset, InTier
<1>3. /\ Mine' = Mine /\ UNCHANGED <<seen, shrunk, query, named, cand, preps>> /\ pc = "strict"
      /\ \/ ~LastTier /\ UNCHANGED <<pc, turn, page>> /\ at' = at + 1
         \/ /\ LastTier /\ at' = 1 /\ page' \in Top(Limit, head')
            /\ (head' = {} /\ pc' = pc) \/ pc' = "append"
  <2>1. SearchStep
    BY DEF SearchStep
  <2> QED BY <2>1, StepsOnlyRead DEF StrictTier, history
<1>4. Len(Tiers) \in Nat /\ DOMAIN Tiers = 1..Len(Tiers) /\ at \in DOMAIN Tiers
  BY TablesAndQueries DEF SearchOK
<1>5. \A h \in head : \E i \in DOMAIN Tiers : i < at /\ h.tier = Tiers[i]
  BY <1>3 DEF HitsOK
<1>6. \A r \in got : Version(r).tier = Tiers[at] /\ Ident(Version(r)) = Ident(r) /\ r \in Mine
  BY <1>2 DEF Version, Ident, InTier
<1>7. \A h \in head : h.tier # Tiers[at]
  BY <1>4, <1>5, TablesAndQueries
<1>8. Distinct(head') /\ Known(head')
  <2>1. ASSUME NEW r \in got, NEW o \in got, Ident(Version(r)) = Ident(Version(o)) PROVE r = o
    BY <1>6, <2>1, MineApart
  <2>2. ASSUME NEW h \in head, NEW r \in got PROVE Ident(h) # Ident(Version(r))
    BY <1>6, <1>7 DEF Ident
  <2>3. Distinct(head')
    BY <1>1, <2>1, <2>2 DEF HitsOK, Distinct
  <2>4. Known(head')
    BY <1>1, <1>6, MineSeen DEF HitsOK, Known
  <2> QED BY <2>3, <2>4
<1>9. pc' = "strict" => \A h \in head' : \E i \in DOMAIN Tiers : i < at' /\ h.tier = Tiers[i]
  BY <1>1, <1>3, <1>4, <1>5, <1>6
<1>10. Distinct(page') /\ Known(page')
  <2>1. page' = page \/ page' \subseteq head'
    BY <1>3 DEF Top, kSubset
  <2> QED BY <1>3, <1>8, <2>1 DEF HitsOK, Distinct, Known, SeenIdents
<1>11. pc' \in {"strict", "append"}
  BY <1>3
<1>12. HitsOK'
  BY <1>3, <1>8, <1>9, <1>10, <1>11 DEF HitsOK, Distinct, Known, SeenIdents, Named
<1>13. HitsLoad'
  BY <1>3, <1>11 DEF HitsLoad, Loads, Loaded
<1> QED BY <1>12, <1>13

LEMMA StepsKeepHits ==
  ASSUME TableOK(rows), HistoryOK, SearchOK, HitsOK, HitsLoad, SearchStep
  PROVE  HitsOK' /\ HitsLoad'
<1>1. /\ Mine' = Mine /\ UNCHANGED <<seen, shrunk, query>> /\ SeenIdents' = SeenIdents
      /\ \A h : Loads(h)' = Loads(h)
  BY StepsOnlyRead DEF history, SeenIdents, Loads, Loaded
<1>2. CASE ExactNames \/ PartialNames
  <2>1. Known(named') /\ \A n, o \in named' : n.match = o.match /\ Ident(n) = Ident(o) => n = o
    BY <1>2, NamesKeepHits
  <2>2. /\ UNCHANGED <<turn, at, head, cand, preps, page>> /\ pc \in {"exact", "partial"}
        /\ \/ pc' = "partial" /\ \A n \in named' : n.match = "name"
           \/ pc' \in {"count", "stage0"}
    BY <1>2 DEF ExactNames, PartialNames, NameRow
  <2>3. HitsOK'
    BY <1>1, <2>1, <2>2 DEF HitsOK, Distinct, Known, Named
  <2>4. HitsLoad'
    BY <1>1, <2>2 DEF HitsLoad
  <2> QED BY <2>3, <2>4
<1>3. CASE CountCorpus
  <2>1. UNCHANGED <<turn, named, head, cand, preps, page>> /\ pc = "count" /\ NextTier("recall")
    BY <1>3 DEF CountCorpus
  <2>2. pc' \in {"count", "recall"}
    BY <2>1, NextTierStays DEF SearchOK
  <2>3. head = {} /\ cand = {}
    BY <2>1 DEF SearchOK, HitsOK, Named
  <2>4. HitsOK'
    BY <1>1, <2>1, <2>2, <2>3 DEF HitsOK, Distinct, Known, Named
  <2> QED BY <1>1, <2>1, <2>2, <2>3, <2>4 DEF HitsLoad
<1>4. CASE RecallTier
  BY <1>4, RecallKeepsHits
<1>5. CASE CountTier
  <2>1. UNCHANGED <<turn, at, named, head, cand, preps, page, pc>> /\ pc = "tally"
    BY <1>5 DEF CountTier
  <2> QED BY <1>1, <2>1 DEF HitsOK, Distinct, Known, HitsLoad
<1>6. CASE RecallShadow
  BY <1>6, ShadowKeepsHits
<1>7. CASE LoadPrep
  <2>1. UNCHANGED <<turn, at, named, head, cand, page>> /\ pc = "prep" /\ pc' = "gates"
    BY <1>7 DEF LoadPrep
  <2> QED BY <1>1, <2>1 DEF HitsOK, Distinct, Known, HitsLoad, Named
<1>8. CASE Gates
  <2>1. UNCHANGED <<turn, at, named, head, cand, preps>> /\ pc = "gates" /\ pc' \in {"stage0", "hydrate"}
    BY <1>8 DEF Gates
  <2>2. PICK C \in SUBSET cand : page' = {c.hit : c \in C}
    BY <1>8, GatedPage
  <2>3. Distinct(page') /\ Known(page') /\ (~shrunk => \A h \in page' : h.rid = 0 \/ Loads(h))
    BY <2>2 DEF HitsOK, HitsLoad, Distinct, Known
  <2> QED BY <1>1, <2>1, <2>3 DEF HitsOK, Distinct, Known, HitsLoad, Named
<1>9. CASE HydratePage
  <2>1. /\ UNCHANGED <<turn, at, named, head, cand, preps>> /\ pc = "hydrate" /\ pc' = "stage0"
        /\ page' = Hydrate(page)
    BY <1>9 DEF HydratePage
  <2>2. Distinct(page') /\ Known(page')
    BY <2>1, HydratedHits DEF HitsOK
  <2> QED BY <1>1, <2>1, <2>2 DEF HitsOK, Distinct, Known, HitsLoad, Named
<1>10. CASE MergeNames
  <2>1. UNCHANGED <<turn, named, head, cand, preps>> /\ pc = "stage0" /\ pc' \in {"probe", "done"}
    BY <1>10 DEF MergeNames
  <2>2. page' \subseteq Exact \union Part \union Text
    BY <1>10, MergedNames DEF ShowsAll
  <2>3. Distinct(page') /\ Known(page')
    BY <2>2, PartsApart DEF Distinct, Known
  <2> QED BY <1>1, <2>1, <2>3 DEF HitsOK, Distinct, Known, HitsLoad, Named
<1>11. CASE Probe
  <2>1. UNCHANGED <<turn, named, head, cand, preps, page>> /\ pc = "probe" /\ pc' \in {"probe", "done"}
    BY <1>11 DEF Probe
  <2> QED BY <1>1, <2>1 DEF HitsOK, Distinct, Known, HitsLoad, Named
<1>12. CASE StrictTier
  BY <1>12, StrictKeepsHits
<1>13. CASE AppendShadow
  <2>1. UNCHANGED <<turn, at, named, cand, preps>> /\ pc = "append" /\ pc' \in {"probe", "done"} /\ head' = {}
    BY <1>13 DEF AppendShadow
  <2>2. PICK extra \in ShadowBehind : page' = page \union extra
    BY <1>13 DEF AppendShadow
  <2>3. \A v \in extra : (\A h \in page : Ident(h) # Ident(v)) /\ \E r \in Mine : v = Version(r)
    BY <2>2 DEF ShadowBehind
  <2>4. \A r \in Mine : Ident(Version(r)) = Ident(r)
    BY DEF Version, Ident
  <2>5. Distinct(page') /\ Known(page')
    BY <2>2, <2>3, <2>4, MineApart, MineSeen DEF HitsOK, Distinct, Known
  <2> QED BY <1>1, <2>1, <2>5 DEF HitsOK, Distinct, Known, HitsLoad, Named
<1> QED BY <1>2, <1>3, <1>4, <1>5, <1>6, <1>7, <1>8, <1>9, <1>10, <1>11, <1>12, <1>13 DEF SearchStep

\* The hit of a memory nobody touched: it brings the text, or the number.
Stands(h, v) ==
  /\ Ident(h) = Ident(v)
  /\ IF h.rid = 0 THEN h.body = v.body ELSE \E r \in Mine : Version(r) = v /\ r.rid = h.rid
Behind(v) == \E i \in DOMAIN Tiers : i < at /\ v.tier = Tiers[i]
Barred == Heavy = {} \/ Dropped \intersect Negations # {}
RoomFor == Small \/ (~shrunk /\ Cardinality(page) < Limit)
OnPage(v) == \E h \in page : Ident(h) = Ident(v)

\* Where a memory that holds every word of a gated query is at each stage.
WordsFound(v) ==
  /\ verdict # "ABSTAINED_ON"
  /\ pc \in {"recall", "tally"} =>
       /\ pc = "tally" \/ Behind(v) => /\ \E h \in head : Stands(h, v)
                                       /\ df[Token] >= 1 \/ \E i \in full : Tiers[i] = v.tier
       /\ turn # 1 => \E c \in cand : Stands(c.hit, v) /\ \A j \in 1..(turn - 1) : query.tokens[j] \in c.m
  /\ pc \in {"prep", "gates"} => \E c \in cand : Stands(c.hit, v) /\ Asked \subseteq c.m /\ c.hit \notin preps
  /\ pc = "hydrate" /\ ~Barred /\ RoomFor => \E h \in page : Stands(h, v)
  /\ pc \in {"stage0", "probe", "done"} /\ ~Barred /\ RoomFor => OnPage(v)

\* Of a raw query.
StrictFound(v) ==
  /\ pc = "strict" => turn = 1 /\ (Behind(v) => (v \in head \/ Cardinality(head) >= Limit) /\ (Small => v \in head))
  /\ pc \in {"append", "probe", "done"} /\ RoomFor => OnPage(v)

\* And one the query names.
NameFound(v) ==
  /\ pc \in Gated \ {"exact"} =>
       \E n \in named : n.match = "name" /\ Ident(n) = Ident(v) /\ \E r \in Mine : Version(r) = v /\ r.rid = n.rid
  /\ pc \in {"probe", "done"} /\ verdict # "ABSTAINED_ON" /\ RoomFor => OnPage(v)

FoundFor(v) ==
  /\ pc = "probe" => \E i \in DOMAIN Tiers : i >= at /\ v.tier = Tiers[i]
  /\ Carries(v) /\ query.kind = "gated" => WordsFound(v)
  /\ Carries(v) /\ query.kind = "raw" => StrictFound(v)
  /\ ByName(v) => NameFound(v)
FoundInv == Shallow => \A v \in steady : FoundFor(v)

LEMMA SteadyRow ==
  ASSUME TableOK(rows), HistoryOK, NEW v \in steady
  PROVE  /\ \E r \in Mine : Version(r) = v
         /\ \A r \in Mine : Version(r) = v => /\ r.tier = v.tier /\ r.key = v.key /\ r.body = v.body
                                              /\ Ident(r) = Ident(v) /\ r.rid \in Nat \ {0}
         /\ v = [tier |-> v.tier, key |-> v.key, body |-> v.body]
         /\ \E i \in DOMAIN Tiers : v.tier = Tiers[i]
<1>1. \E r \in Mine : Version(r) = v
  BY DEF HistoryOK
<1>2. ASSUME NEW r \in Mine, Version(r) = v
      PROVE  /\ r.tier = v.tier /\ r.key = v.key /\ r.body = v.body
             /\ Ident(r) = Ident(v) /\ r.rid \in Nat \ {0}
             /\ v = [tier |-> v.tier, key |-> v.key, body |-> v.body]
  BY <1>2, MineFinite DEF Version, Ident, TableOK
<1> QED BY <1>1, <1>2, MineFinite

LEMMA FoundStart == RecallInit => FoundInv
<1> SUFFICES ASSUME RecallInit, NEW v \in steady PROVE FoundFor(v)
  BY DEF FoundInv
<1>1. /\ at = 1 /\ turn = 1 /\ verdict = "NO_MATCH"
      /\ pc \in {"exact", "strict"} /\ DOMAIN Tiers = 1..Len(Tiers) /\ Len(Tiers) \in Nat
  BY TablesAndQueries DEF RecallInit
<1>2. ~Behind(v)
  BY <1>1 DEF Behind
<1>3. pc = "exact" \/ query.kind = "raw"
  BY DEF RecallInit
<1>4. ByName(v) => query.kind = "gated"
  BY DEF ByName
<1> QED BY <1>1, <1>2, <1>3, <1>4 DEF FoundFor, WordsFound, StrictFound, NameFound, Gated, Named

LEMMA EditsKeepFound ==
  ASSUME TableOK(rows), HistoryOK, SearchOK, HitsOK, HitsLoad, FoundInv, NEW s \in Slots, Edit(s)
  PROVE  FoundInv'
<1> SUFFICES ASSUME Shallow, NEW v \in steady' PROVE FoundFor(v)'
  BY DEF FoundInv, Shallow
<1>1. UNCHANGED <<pc, searchVars>> /\ v \in steady
  BY EditsKeepHistory
<1>2. UNCHANGED <<pc, query, turn, at, named, corpus, head, full, df, cand, preps, page, verdict>>
  BY <1>1 DEF searchVars
<1>3. FoundFor(v)
  BY <1>1 DEF FoundInv
<1>4. \A r \in Mine : Version(r) = v => \E o \in Mine' : Version(o) = v /\ o.rid = r.rid
  BY SteadyRowStays
<1>5. ASSUME NEW h, Stands(h, v) PROVE Stands(h, v)'
  BY <1>4, <1>5 DEF Stands
<1>6. RoomFor' => RoomFor
  <2>1. Small' => Small
    BY EditsKeepHits
  <2>2. ~shrunk' => ~shrunk
    BY EditsKeepTables
  <2> QED BY <1>2, <2>1, <2>2 DEF RoomFor
<1>7. /\ Barred' = Barred /\ Token' = Token /\ Asked' = Asked /\ Behind(v)' = Behind(v) /\ OnPage(v)' = OnPage(v)
      /\ Carries(v)' = Carries(v) /\ ByName(v)' = ByName(v) /\ (Small' => Small)
  BY <1>2, EditsKeepHits DEF Barred, Heavy, Scored, Dropped, Live, Function, Token, Asked, Behind, OnPage, Carries, ByName
<1>8. Carries(v) /\ query.kind = "gated" => WordsFound(v)'
  <2> SUFFICES ASSUME WordsFound(v) PROVE WordsFound(v)'
    BY <1>3 DEF FoundFor
  <2> QED BY <1>2, <1>5, <1>6, <1>7 DEF WordsFound
<1>9. Carries(v) /\ query.kind = "raw" => StrictFound(v)'
  BY <1>2, <1>3, <1>6, <1>7 DEF FoundFor, StrictFound
<1>10. ByName(v) => NameFound(v)'
  <2> SUFFICES ASSUME NameFound(v) PROVE NameFound(v)'
    BY <1>3 DEF FoundFor
  <2> QED BY <1>2, <1>4, <1>6, <1>7 DEF NameFound
<1> QED BY <1>2, <1>3, <1>7, <1>8, <1>9, <1>10 DEF FoundFor

\* One tier's rows with the token: all of them, when no tier is deeper than the
\* limit of one SELECT.
LEMMA ShallowTier ==
  ASSUME TableOK(rows), Shallow, at \in DOMAIN Tiers, NEW t
  PROVE  LET S == {r \in InTier(at) : t \in r.body}
         IN IsFiniteSet(S) /\ Cardinality(S) \in Nat /\ Cardinality(S) <= Depth
<1> DEFINE S == {r \in InTier(at) : t \in r.body}
           D == {d \in Slots : d[1] = Tiers[at] /\ d[3] = Own}
           f == [r \in S |-> <<r.tier, r.key, r.tenant>>]
<1>1. Cardinality(D) <= Depth
  BY DEF Shallow
<1>2. IsFiniteSet(D) /\ Cardinality(D) \in Nat /\ Depth \in Nat
  BY TablesAndQueries, FS_Subset, FS_CardinalityType, RecallBounds
<1>3. \A r \in S : r \in rows /\ r.tier = Tiers[at] /\ r.tenant = Own
  BY DEF InTier, Mine, MineIn
<1>4. f \in Injection(S, D)
  <2>1. \A r \in S : <<r.tier, r.key, r.tenant>> \in D
    BY <1>3 DEF TableOK
  <2>2. \A r, o \in S : f[r] = f[o] => r = o
    BY <1>3 DEF TableOK, RowsApart
  <2> QED BY <2>1, <2>2 DEF Injection, IsInjective
<1> HIDE DEF S, D, f
<1>5. IsFiniteSet(S) /\ Cardinality(S) <= Cardinality(D)
  BY <1>2, <1>4, FS_Injection
<1>6. IsFiniteSet(S) /\ Cardinality(S) \in Nat /\ Cardinality(S) <= Depth
  BY <1>1, <1>2, <1>5, FS_CardinalityType
<1> QED BY <1>6 DEF S

LEMMA RecallFinds ==
  ASSUME TableOK(rows), HistoryOK, SearchOK, HitsOK, Shallow, RecallTier,
         NEW v \in steady, Carries(v), WordsFound(v)
  PROVE  WordsFound(v)'
<1> DEFINE S == {r \in InTier(at) : Token \in r.body}
<1>1. PICK got \in Top(Depth, S) :
        /\ head' = head \union {ByNumber(r) : r \in got}
        /\ full' = IF Cardinality(got) >= Depth THEN full \union {at} ELSE full
        /\ df' = IF Cardinality(got) >= Depth THEN df ELSE [df EXCEPT ![Token] = @ + Cardinality(got)]
  BY DEF RecallTier
<1>2. IsFiniteSet(S) /\ Cardinality(S) \in Nat /\ Cardinality(S) <= Depth /\ Depth \in Nat /\ Depth # 0
  BY ShallowTier, RecallBounds DEF SearchOK
<1>3. got = S /\ Cardinality(got) \in Nat
  <2> HIDE DEF S
  <2> QED BY <1>1, <1>2, TopRows
<1>4. /\ UNCHANGED <<turn, cand, preps, verdict, corpus>> /\ pc = "recall" /\ NextTier("tally")
      /\ Mine' = Mine /\ Token' = Token /\ query' = query
  <2>1. SearchStep
    BY DEF SearchStep
  <2> QED BY <2>1, StepsOnlyRead DEF RecallTier, Token
<1>5. Token \in Asked /\ df[Token] \in Nat /\ df \in [Asked -> Nat]
  BY <1>4, TablesAndQueries DEF SearchOK, Token, Asked, RangeOf
<1>6. df'[Token] >= df[Token] /\ (Cardinality(got) # 0 => df'[Token] >= 1 \/ at \in full') /\ full \subseteq full'
  <2>1. CASE Cardinality(got) >= Depth
    BY <1>1, <1>5, <2>1
  <2>2. CASE ~(Cardinality(got) >= Depth)
    <3>1. df'[Token] = df[Token] + Cardinality(got) /\ full' = full
      BY <1>1, <1>5, <2>2
    <3> QED BY <1>3, <1>5, <3>1
  <2> QED BY <2>1, <2>2
<1>7. Len(Tiers) \in Nat /\ DOMAIN Tiers = 1..Len(Tiers) /\ at \in DOMAIN Tiers
  BY TablesAndQueries DEF SearchOK
<1>8. PICK r \in Mine : Version(r) = v
  BY SteadyRow
<1>9. r.tier = v.tier /\ r.body = v.body /\ Ident(r) = Ident(v) /\ r.rid \in Nat \ {0}
  BY <1>8, SteadyRow
<1>10. Token \in r.body
  BY <1>5, <1>9 DEF Carries
<1>11. \A h : Stands(h, v) => Stands(h, v)'
  BY <1>4 DEF Stands
<1>12. ASSUME pc' = "tally" \/ Behind(v)'
       PROVE  (\E h \in head' : Stands(h, v)') /\ (df'[Token] >= 1 \/ \E i \in full' : Tiers[i] = v.tier)
  <2>1. CASE Tiers[at] = v.tier
    <3>1. r \in S
      BY <1>8, <1>9, <1>10, <2>1 DEF InTier
    <3>2. ByNumber(r) \in head'
      BY <1>1, <1>3, <3>1
    <3>3. Stands(ByNumber(r), v)'
      <4>1. Ident(ByNumber(r)) = Ident(r) /\ ByNumber(r).rid = r.rid
        BY DEF ByNumber, Ident
      <4> QED BY <4>1, <1>4, <1>8, <1>9 DEF Stands
    <3>4. Cardinality(got) # 0
      <4>1. got # {} /\ IsFiniteSet(got)
        BY <1>2, <1>3, <3>1
      <4> QED BY <4>1, FS_EmptySet
    <3> QED BY <1>6, <2>1, <3>2, <3>3, <3>4
  <2>2. CASE Tiers[at] # v.tier
    <3>1. Behind(v)
      <4>1. PICK k \in DOMAIN Tiers : v.tier = Tiers[k]
        BY SteadyRow
      <4>2. CASE pc' = "tally"
        <5>1. at = Len(Tiers)
          BY <4>2, <1>4 DEF NextTier, LastTier
        <5> QED BY <1>7, <2>2, <4>1, <5>1 DEF Behind
      <4>3. CASE pc' # "tally"
        <5>1. at' = at + 1
          BY <4>3, <1>4 DEF NextTier
        <5>2. PICK i \in DOMAIN Tiers : i < at' /\ v.tier = Tiers[i]
          BY <4>3, <1>12 DEF Behind
        <5> QED BY <1>7, <2>2, <5>1, <5>2 DEF Behind
      <4> QED BY <4>2, <4>3
    <3>2. (\E h \in head : Stands(h, v)) /\ (df[Token] >= 1 \/ \E i \in full : Tiers[i] = v.tier)
      BY <1>4, <3>1 DEF WordsFound
    <3>3. df[Token] >= 1 => df'[Token] >= 1
      BY <1>3, <1>5, <1>6, <1>1
    <3> QED BY <1>1, <1>6, <1>11, <3>2, <3>3
  <2> QED BY <2>1, <2>2
<1>13. pc' \in {"recall", "tally"}
  BY <1>4, NextTierStays DEF SearchOK
<1> QED BY <1>4, <1>11, <1>12, <1>13 DEF WordsFound

LEMMA TallyFinds ==
  ASSUME TableOK(rows), HistoryOK, SearchOK, HitsOK, CountTier,
         NEW v \in steady, Carries(v), WordsFound(v)
  PROVE  WordsFound(v)'
<1> DEFINE S == {r \in InTier(Min(full)) : Token \in r.body}
<1>1. /\ df' = [df EXCEPT ![Token] = @ + Cardinality(S)] /\ full' = full \ {Min(full)}
      /\ pc = "tally"
  BY DEF CountTier
<1>2. IsFiniteSet(S) /\ Cardinality(S) \in Nat
  BY MineFinite
<1>3. Token \in Asked /\ df[Token] \in Nat /\ df \in [Asked -> Nat]
  BY <1>1, TablesAndQueries DEF SearchOK, Token, Asked, RangeOf
<1>4. /\ UNCHANGED <<pc, turn, at, head, cand, preps, verdict, corpus>>
      /\ Mine' = Mine /\ Token' = Token /\ query' = query
  <2>1. SearchStep
    BY DEF SearchStep
  <2> QED BY <2>1, StepsOnlyRead DEF CountTier, Token
<1>5. df'[Token] = df[Token] + Cardinality(S)
  <2> HIDE DEF S
  <2> QED BY <1>1, <1>3
<1>6. (\E h \in head : Stands(h, v)) /\ (df[Token] >= 1 \/ \E i \in full : Tiers[i] = v.tier)
  BY <1>1 DEF WordsFound
<1>7. df'[Token] >= 1 \/ \E i \in full' : Tiers[i] = v.tier
  <2>1. CASE df[Token] >= 1
    <3> HIDE DEF S
    <3> QED BY <1>2, <1>3, <1>5, <2>1
  <2>2. ASSUME NEW i \in full, Tiers[i] = v.tier, i = Min(full) PROVE df'[Token] >= 1
    <3>1. PICK r \in Mine : Version(r) = v
      BY SteadyRow
    <3>2. r.tier = v.tier /\ r.body = v.body
      BY <3>1, SteadyRow
    <3>3. r \in S
      BY <1>3, <2>2, <3>1, <3>2 DEF Carries, InTier
    <3> HIDE DEF S
    <3>4. Cardinality(S) # 0
      BY <1>2, <3>3, FS_EmptySet
    <3> QED BY <1>2, <1>3, <1>5, <3>4
  <2> QED BY <1>1, <1>6, <2>1, <2>2
<1>8. \A h : Stands(h, v) => Stands(h, v)'
  BY <1>4 DEF Stands
<1> QED BY <1>1, <1>4, <1>6, <1>7, <1>8 DEF WordsFound

LEMMA GatherFinds ==
  ASSUME HitsOK, NEW hits, Distinct(hits), NEW h \in hits
  PROVE  /\ (\A c \in cand : Ident(c.hit) # Ident(h)) => [hit |-> h, m |-> {Token}] \in Gather(hits)
         /\ \A c \in cand : Ident(c.hit) = Ident(h) => [hit |-> c.hit, m |-> c.m \union {Token}] \in Gather(hits)
<1> DEFINE known == {c \in cand : \E x \in hits : Ident(x) = Ident(c.hit)}
           fresh == {x \in hits : \A c \in cand : Ident(c.hit) # Ident(x)}
           More(c) == [c EXCEPT !.m = @ \union {Token}]
           New(x) == [hit |-> x, m |-> {Token}]
<1>1. Gather(hits) = (cand \ known) \union {More(c) : c \in known} \union {New(x) : x \in fresh}
  BY DEF Gather
<1>2. (\A c \in cand : Ident(c.hit) # Ident(h)) => h \in fresh
  OBVIOUS
<1>3. \A c \in cand : Ident(c.hit) = Ident(h) => c \in known
  OBVIOUS
<1>4. \A c \in cand : More(c) = [hit |-> c.hit, m |-> c.m \union {Token}]
  <2> SUFFICES ASSUME NEW c \in cand PROVE More(c) = [hit |-> c.hit, m |-> c.m \union {Token}]
    OBVIOUS
  <2>1. c = [hit |-> c.hit, m |-> c.m]
    BY DEF HitsOK
  <2> QED BY <2>1
<1>5. New(h) = [hit |-> h, m |-> {Token}]
  OBVIOUS
<1> HIDE DEF known, fresh, More, New
<1>6. /\ \A c \in known : More(c) \in Gather(hits)
      /\ \A x \in fresh : New(x) \in Gather(hits)
  BY <1>1
<1>7. ASSUME \A c \in cand : Ident(c.hit) # Ident(h) PROVE [hit |-> h, m |-> {Token}] \in Gather(hits)
  BY <1>2, <1>5, <1>6, <1>7
<1>8. ASSUME NEW c \in cand, Ident(c.hit) = Ident(h) PROVE [hit |-> c.hit, m |-> c.m \union {Token}] \in Gather(hits)
  <2>1. c \in known
    BY <1>3, <1>8
  <2>2. More(c) \in Gather(hits) /\ More(c) = [hit |-> c.hit, m |-> c.m \union {Token}]
    BY <1>4, <1>6, <2>1
  <2> QED BY <2>2
<1> QED BY <1>7, <1>8

LEMMA ShadowFinds ==
  ASSUME TableOK(rows), HistoryOK, SearchOK, HitsOK, RecallShadow,
         NEW v \in steady, Carries(v), WordsFound(v)
  PROVE  WordsFound(v)'
<1>0. Len(query.tokens) \in Nat /\ DOMAIN query.tokens = 1..Len(query.tokens) /\ turn \in DOMAIN query.tokens
      /\ pc = "tally" /\ full = {}
  BY TablesAndQueries DEF SearchOK, RecallShadow
<1>1. Token \in Asked /\ df[Token] \in Nat /\ df \in [Asked -> Nat]
  BY <1>0, TablesAndQueries DEF SearchOK, Token, Asked, RangeOf
<1>2. PICK h \in head : Stands(h, v)
  BY <1>0 DEF WordsFound
<1>3. df[Token] >= 1
  BY <1>0 DEF WordsFound
<1>4. PICK extra \in ShadowRows(Depth - Cardinality(head)) :
        LET n == df[Token] + Cardinality(extra)
            zero == n = 0 /\ Token \notin FunctionWords IN
        /\ cand' = IF n = 0 THEN cand ELSE Gather(head \union {ByShadow(r) : r \in extra})
        /\ verdict' = IF zero THEN "ABSTAINED_ON" ELSE verdict
        /\ IF zero \/ turn = Len(query.tokens) THEN turn' = turn ELSE turn' = turn + 1
        /\ ~zero /\ turn < Len(query.tokens) => pc' = "recall"
        /\ ~zero /\ ~(turn < Len(query.tokens)) => pc' \in {"prep", "gates"}
  BY DEF RecallShadow
<1> DEFINE hits == head \union {ByShadow(r) : r \in extra}
<1>5. Distinct(hits) /\ h \in hits
  BY TokenHits
<1>6. Cardinality(extra) \in Nat
  <2>1. extra \subseteq Mine
    BY TokenHits
  <2> QED BY <2>1, MineFinite, FS_Subset, FS_CardinalityType
<1>7. df[Token] + Cardinality(extra) # 0
  BY <1>1, <1>3, <1>6
<1>8. /\ cand' = Gather(hits) /\ verdict' = verdict
      /\ turn < Len(query.tokens) => turn' = turn + 1 /\ pc' = "recall"
      /\ turn = Len(query.tokens) => turn' = turn /\ pc' \in {"prep", "gates"}
  BY <1>0, <1>4, <1>7
<1>9. /\ Mine' = Mine /\ query' = query /\ Asked' = Asked /\ preps' = preps /\ preps = {}
      /\ head' = {} /\ at' = at /\ at = 1
  <2>1. SearchStep
    BY DEF SearchStep
  <2>2. preps = {} /\ at = 1
    BY <1>0 DEF HitsOK, SearchOK
  <2> QED BY <2>1, <2>2, StepsOnlyRead DEF RecallShadow
<1> HIDE DEF hits
<1>10. \E c \in cand' : Stands(c.hit, v) /\ \A j \in 1..turn : query.tokens[j] \in c.m
  <2>1. CASE turn = 1
    <3>1. cand = {}
      BY <1>0, <2>1 DEF HitsOK
    <3>2. [hit |-> h, m |-> {Token}] \in cand'
      BY <1>5, <1>8, <3>1, GatherFinds
    <3>3. \A j \in 1..turn : query.tokens[j] \in {Token}
      BY <2>1 DEF Token
    <3> DEFINE new == [hit |-> h, m |-> {Token}]
    <3>4. new.hit = h /\ new.m = {Token}
      OBVIOUS
    <3> HIDE DEF new
    <3> QED BY <1>2, <3>2, <3>3, <3>4 DEF new
  <2>2. CASE turn # 1
    <3>1. PICK c \in cand : Stands(c.hit, v) /\ \A j \in 1..(turn - 1) : query.tokens[j] \in c.m
      BY <1>0, <2>2 DEF WordsFound
    <3>2. Ident(c.hit) = Ident(h)
      BY <1>2, <3>1 DEF Stands
    <3> DEFINE new == [hit |-> c.hit, m |-> c.m \union {Token}]
    <3>3. new \in cand'
      BY <1>5, <1>8, <3>2, GatherFinds
    <3>4. new.hit = c.hit /\ new.m = c.m \union {Token}
      OBVIOUS
    <3> HIDE DEF new
    <3>5. \A j \in 1..turn : query.tokens[j] \in new.m
      <4> SUFFICES ASSUME NEW j \in 1..turn PROVE query.tokens[j] \in new.m
        OBVIOUS
      <4>1. j = turn \/ j \in 1..(turn - 1)
        BY <1>0
      <4> QED BY <3>1, <3>4, <4>1 DEF Token
    <3> QED BY <3>1, <3>3, <3>4, <3>5
  <2> QED BY <2>1, <2>2
<1>11. \A x : Stands(x, v) => Stands(x, v)'
  BY <1>9 DEF Stands
<1>12. CASE turn < Len(query.tokens)
  <2>1. ~Behind(v)'
    <3>1. DOMAIN Tiers = 1..Len(Tiers) /\ Len(Tiers) \in Nat
      BY TablesAndQueries
    <3> QED BY <1>9, <3>1 DEF Behind
  <2>2. turn' - 1 = turn /\ pc' = "recall"
    BY <1>0, <1>8, <1>12
  <2>3. verdict' # "ABSTAINED_ON"
    BY <1>8 DEF WordsFound
  <2>4. \E c \in cand' : Stands(c.hit, v)' /\ \A j \in 1..(turn' - 1) : query'.tokens[j] \in c.m
    BY <1>9, <1>10, <1>11, <2>2
  <2> QED BY <2>1, <2>2, <2>3, <2>4 DEF WordsFound
<1>13. CASE turn = Len(query.tokens)
  <2>1. PICK c \in cand' : Stands(c.hit, v) /\ \A j \in 1..turn : query.tokens[j] \in c.m
    BY <1>10
  <2>2. Asked' \subseteq c.m
    BY <1>0, <1>9, <1>13, <2>1 DEF Asked, RangeOf
  <2>3. verdict' # "ABSTAINED_ON" /\ pc' \in {"prep", "gates"} /\ c.hit \notin preps'
    BY <1>8, <1>9, <1>13 DEF WordsFound
  <2> QED BY <1>11, <2>1, <2>2, <2>3 DEF WordsFound
<1> QED BY <1>0, <1>12, <1>13

LEMMA HydratesTo ==
  ASSUME TableOK(rows), HistoryOK, NEW v \in steady, NEW h, Stands(h, v)
  PROVE  Hydrate({h}) = {v} /\ \A P : h \in P => v \in Hydrate(P)
<1>1. v = [tier |-> v.tier, key |-> v.key, body |-> v.body]
  BY SteadyRow
<1>2. h.tier = v.tier /\ h.key = v.key
  BY DEF Stands, Ident
<1> DEFINE Of(x) == IF x.rid = 0 THEN {[tier |-> x.tier, key |-> x.key, body |-> x.body]} ELSE ReadByNumber(x)
<1>3. Of(h) = {v}
  <2>1. CASE h.rid = 0
    <3>1. h.body = v.body
      BY <2>1 DEF Stands
    <3> QED BY <1>1, <1>2, <2>1, <3>1
  <2>2. CASE h.rid # 0
    <3>1. PICK r \in Mine : Version(r) = v /\ r.rid = h.rid
      BY <2>2 DEF Stands
    <3>2. r.tier = v.tier /\ r.body = v.body
      BY <3>1, SteadyRow
    <3>3. Loaded(h) = {r}
      BY <1>2, <3>1, <3>2, MineApart DEF Loaded
    <3>4. ReadByNumber(h) = {[tier |-> h.tier, key |-> h.key, body |-> r.body]}
      BY <3>3 DEF ReadByNumber
    <3> QED BY <1>1, <1>2, <2>2, <3>2, <3>4
  <2> QED BY <2>1, <2>2
<1>4. \A P : Hydrate(P) = UNION {Of(x) : x \in P}
  BY DEF Hydrate
<1> HIDE DEF Of
<1>5. Hydrate({h}) = Of(h)
  BY <1>4
<1>6. ASSUME NEW P, h \in P PROVE v \in Hydrate(P)
  BY <1>3, <1>4, <1>6
<1> QED BY <1>3, <1>5, <1>6

LEMMA PrepFinds ==
  ASSUME TableOK(rows), HistoryOK, SearchOK, HitsOK, LoadPrep,
         NEW v \in steady, Carries(v), WordsFound(v)
  PROVE  WordsFound(v)'
<1>1. /\ pc = "prep" /\ pc' = "gates" /\ UNCHANGED <<cand, verdict>> /\ query.terminal
      /\ preps' = {c.hit : c \in {x \in cand : \E w \in Hydrate({x.hit}) : PurePrep(w.body)}}
  BY DEF LoadPrep, HitsOK
<1>2. Mine' = Mine /\ Asked' = Asked
  <2>1. SearchStep
    BY DEF SearchStep
  <2> QED BY <2>1, StepsOnlyRead
<1>3. PICK c \in cand : Stands(c.hit, v) /\ Asked \subseteq c.m
  BY <1>1 DEF WordsFound
<1>4. Hydrate({c.hit}) = {v} /\ ~PurePrep(v.body)
  BY <1>1, <1>3, HydratesTo DEF Carries
<1>5. c.hit \notin preps'
  BY <1>1, <1>4
<1> QED BY <1>1, <1>2, <1>3, <1>5 DEF WordsFound, Stands

LEMMA GatesFind ==
  ASSUME TableOK(rows), HistoryOK, SearchOK, HitsOK, Gates,
         NEW v \in steady, Carries(v), WordsFound(v)
  PROVE  WordsFound(v)'
<1> DEFINE op == {c \in cand : c.hit \notin preps}
           whole == {c \in op : Whole(c)}
<1>1. pc = "gates" /\ UNCHANGED <<df, corpus, query, cand>> /\ pc' \in {"hydrate", "stage0"}
  BY DEF Gates, Still
<1>2. Mine' = Mine /\ UNCHANGED <<seen, shrunk>>
  <2>1. SearchStep
    BY DEF SearchStep
  <2> QED BY <2>1, StepsOnlyRead DEF history
<1>3. Barred' = Barred /\ SeenIdents' = SeenIdents /\ (\A h : Stands(h, v)' = Stands(h, v))
  BY <1>1, <1>2 DEF Barred, Heavy, Scored, Dropped, Live, Function, Asked, SeenIdents, Stands
<1>4. verdict' # "ABSTAINED_ON"
  BY DEF Gates, WordsFound
<1>5. CASE Live = {} \/ Dropped \intersect Negations # {}
  <2>1. Barred
    BY <1>5 DEF Barred, Heavy, Scored, Function
  <2> QED BY <1>1, <1>3, <1>4, <2>1 DEF WordsFound
<1>6. CASE ~(Live = {} \/ Dropped \intersect Negations # {})
  <2>1. pc' = "hydrate" /\ \E some \in SUBSET {c \in op : Partly(c)} :
           page' \in IF Cardinality(whole) >= Limit
                     THEN {{c.hit : c \in S} : S \in Top(Limit, whole)}
                     ELSE {{c.hit : c \in whole \union S} : S \in Top(Limit - Cardinality(whole), some)}
    BY <1>6 DEF Gates
  <2>2. ASSUME ~Barred, RoomFor' PROVE \E h \in page' : Stands(h, v)
    <3>1. PICK c \in cand : Stands(c.hit, v) /\ Asked \subseteq c.m /\ c.hit \notin preps
      BY <1>1 DEF WordsFound
    <3>2. c \in whole
      <4>1. Heavy # {} /\ Heavy \subseteq Asked
        BY <2>2 DEF Barred, Heavy, Scored, Live
      <4> QED BY <3>1, <4>1 DEF Whole
    <3>3. CASE ~(Cardinality(whole) >= Limit)
      <4>1. PICK S : page' = {d.hit : d \in whole \union S}
        BY <2>1, <3>3
      <4> QED BY <3>1, <3>2, <4>1
    <3>4. CASE Cardinality(whole) >= Limit
      <4>1. PICK S \in Top(Limit, whole) : page' = {d.hit : d \in S}
        BY <2>1, <3>4
      <4>2. \A x, y \in cand : Ident(x.hit) = Ident(y.hit) => x = y
        BY DEF HitsOK
      <4>3. IsFiniteSet(whole) /\ Cardinality(whole) \in Nat /\ Cardinality(whole) <= Cardinality(SeenIdents)
            /\ Cardinality(SeenIdents) \in Nat
        <5> DEFINE f == [x \in whole |-> Ident(x.hit)]
        <5>1. whole \subseteq cand /\ \A x \in whole : Ident(x.hit) \in SeenIdents
          BY DEF HitsOK
        <5>2. f \in Injection(whole, SeenIdents)
          BY <4>2, <5>1 DEF Injection, IsInjective
        <5> HIDE DEF whole, f
        <5> QED BY <5>2, SeenFinite, FS_Injection, FS_CardinalityType DEF HitsOK
      <4>4. whole \subseteq cand
        OBVIOUS
      <4> HIDE DEF whole
      <4>5. /\ S \subseteq whole /\ IsFiniteSet(S) /\ Cardinality(S) = Limit /\ Limit \in Nat
            /\ Cardinality(whole) <= Limit => S = whole
        BY <3>4, <4>1, <4>3, TopRows, RecallBounds
      <4>6. Cardinality(page') = Limit
        <5> DEFINE g == [x \in S |-> x.hit]
        <5>1. g \in Bijection(S, page')
          <6>1. \A x, y \in S : x.hit = y.hit => x = y
            BY <4>2, <4>4, <4>5
          <6> QED BY <4>1, <6>1 DEF Bijection, Injection, Surjection, IsInjective
        <5> HIDE DEF g
        <5> QED BY <4>5, <5>1, FS_Bijection DEF ExistsBijection
      <4>7. Small
        BY <1>3, <2>2, <4>5, <4>6 DEF RoomFor, Small
      <4>8. S = whole
        BY <4>3, <4>5, <4>7 DEF Small
      <4> QED BY <3>1, <3>2, <4>1, <4>8
    <3> QED BY <3>3, <3>4
  <2> QED BY <1>3, <1>4, <2>1, <2>2 DEF WordsFound
<1> QED BY <1>5, <1>6

LEMMA HydrateFinds ==
  ASSUME TableOK(rows), HistoryOK, SearchOK, HitsOK, HitsLoad, HydratePage,
         NEW v \in steady, Carries(v), WordsFound(v)
  PROVE  WordsFound(v)'
<1>1. pc = "hydrate" /\ pc' = "stage0" /\ page' = Hydrate(page) /\ UNCHANGED <<df, corpus, query, verdict>>
  BY DEF HydratePage, Still
<1>2. Mine' = Mine /\ UNCHANGED <<seen, shrunk>>
  <2>1. SearchStep
    BY DEF SearchStep
  <2> QED BY <2>1, StepsOnlyRead DEF history
<1>3. Barred' = Barred /\ Small' = Small
  BY <1>1, <1>2 DEF Barred, Heavy, Scored, Dropped, Live, Function, Asked, SeenIdents, Small
<1>4. ASSUME ~Barred, RoomFor' PROVE OnPage(v)'
  <2>1. RoomFor
    <3>1. CASE Small'
      BY <1>3, <3>1 DEF RoomFor
    <3>2. CASE ~Small'
      <4>1. ~shrunk /\ Cardinality(page') < Limit
        BY <1>2, <1>4, <3>2 DEF RoomFor
      <4>2. /\ Distinct(page) /\ Distinct(page') /\ Known(page')
            /\ \A h \in page : \E w \in page' : Ident(w) = Ident(h)
        BY <1>1, <4>1, HydratedHits DEF HitsOK, HitsLoad
      <4>3. Cardinality(page) \in Nat /\ Cardinality(page') \in Nat /\ Cardinality(page) <= Cardinality(page')
        <5> SUFFICES ASSUME NEW T, T = page' PROVE Cardinality(page) \in Nat /\ Cardinality(T) \in Nat /\ Cardinality(page) <= Cardinality(T)
          OBVIOUS
        <5>1. /\ Distinct(T) /\ Known(T)
              /\ \A h \in page : \E w \in T : Ident(w) = Ident(h)
          BY <1>1, <4>1, HydratedHits DEF HitsOK, HitsLoad
        <5> QED BY <4>2, <5>1, NoFewer DEF HitsOK
      <4> QED BY <4>1, <4>3, RecallBounds DEF RoomFor
    <3> QED BY <3>1, <3>2
  <2>2. PICK h \in page : Stands(h, v)
    BY <1>1, <1>4, <2>1 DEF WordsFound
  <2>3. v \in page'
    BY <1>1, <2>2, HydratesTo
  <2> QED BY <2>3 DEF OnPage
<1> QED BY <1>1, <1>3, <1>4 DEF WordsFound

\* _merge_stage0 keeps on the page whatever has room, and the names come first.
LEMMA MergeRoom ==
  ASSUME TableOK(rows), HistoryOK, SearchOK, HitsOK, MergeNames, RoomFor'
  PROVE  /\ page' = Exact \union Part \union Text
         /\ RoomFor
<1>1. Small' = Small /\ shrunk' = shrunk
  <2>1. SearchStep
    BY DEF SearchStep
  <2> QED BY <2>1, StepsOnlyRead DEF history, Small, SeenIdents
<1> SUFFICES ASSUME NEW T, T = page' PROVE T = Exact \union Part \union Text /\ RoomFor
  OBVIOUS
<1> DEFINE all == Exact \union Part \union Text
<1>2. ShowsAll(T, Exact, Part, Text)
  BY MergedNames
<1>3. Distinct(all) /\ Known(all)
  BY PartsApart
<1>4. Cardinality(all) <= Limit \/ Cardinality(T) < Limit => T = all
  BY <1>2 DEF ShowsAll
<1>5. \A h \in page : \E y \in all : Ident(y) = Ident(h)
  BY DEF Text
<1> HIDE DEF all
<1>6. Cardinality(all) \in Nat /\ Cardinality(all) <= Cardinality(SeenIdents) /\ Cardinality(SeenIdents) \in Nat
  BY <1>3, AsManyAsSeen, SeenFinite DEF HitsOK
<1>7. Cardinality(page) \in Nat /\ Cardinality(page) <= Cardinality(all)
  BY <1>3, <1>5, NoFewer DEF HitsOK
<1>8. Small \/ (~shrunk /\ Cardinality(T) < Limit)
  BY <1>1 DEF RoomFor
<1>9. T = all
  BY <1>4, <1>6, <1>8, RecallBounds DEF Small
<1>10. RoomFor
  BY <1>6, <1>7, <1>8, <1>9, RecallBounds DEF RoomFor
<1> QED BY <1>9, <1>10 DEF all

\* A search that abstains has no text rows.
EmptyPage ==
  /\ pc \in Named \union {"recall", "tally", "prep", "gates"} => page = {}
  /\ verdict = "ABSTAINED_ON" => page = {}

LEMMA StepsKeepEmpty ==
  ASSUME SearchOK, ZeroInv, EmptyPage, SearchStep
  PROVE  EmptyPage'
<1>1. verdict = "ABSTAINED_ON" => pc \in {"stage0", "probe", "done"}
  BY DEF ZeroInv, ZeroesSaid
<1>2. CASE ExactNames \/ PartialNames \/ CountTier \/ LoadPrep \/ RecallShadow
  BY <1>2 DEF EmptyPage, Named, ExactNames, PartialNames, CountTier, LoadPrep, RecallShadow
<1>3. CASE CountCorpus \/ RecallTier
  <2>1. UNCHANGED <<page, verdict>> /\ page = {}
    BY <1>3 DEF EmptyPage, Named, CountCorpus, RecallTier
  <2> QED BY <2>1 DEF EmptyPage
<1>4. CASE Gates \/ HydratePage \/ MergeNames \/ Probe \/ StrictTier \/ AppendShadow
  BY <1>1, <1>4 DEF EmptyPage, Named, Gates, HydratePage, MergeNames, Probe, StrictTier, AppendShadow
<1> QED BY <1>2, <1>3, <1>4 DEF SearchStep

LEMMA MergeFinds ==
  ASSUME TableOK(rows), HistoryOK, SearchOK, HitsOK, EmptyPage, MergeNames, NEW v \in steady, FoundFor(v)
  PROVE  FoundFor(v)'
<1>1. /\ pc = "stage0" /\ pc' \in {"probe", "done"} /\ at' = 1
      /\ UNCHANGED <<df, corpus, query, named>> /\ verdict' \in {verdict, "OK"}
      /\ page' # {} => verdict' = "OK"
      /\ page' = {} => verdict' = verdict
  BY DEF MergeNames, Still
<1>2. Mine' = Mine /\ Asked' = Asked /\ query.kind = "gated"
  <2>1. SearchStep
    BY DEF SearchStep
  <2> QED BY <2>1, <1>1, StepsOnlyRead DEF SearchOK, Gated
<1>3. Barred' = Barred /\ Carries(v)' = Carries(v) /\ ByName(v)' = ByName(v)
  BY <1>1, <1>2 DEF Barred, Heavy, Scored, Dropped, Live, Function, Carries, ByName
<1>4. \E i \in DOMAIN Tiers : i >= at' /\ v.tier = Tiers[i]
  <2>1. DOMAIN Tiers = 1..Len(Tiers) /\ Len(Tiers) \in Nat
    BY TablesAndQueries
  <2> QED BY <1>1, <2>1, SteadyRow
<1>5. ASSUME Carries(v) PROVE WordsFound(v)'
  <2>1. WordsFound(v)
    BY <1>2, <1>5 DEF FoundFor
  <2>2. ASSUME ~Barred, RoomFor' PROVE OnPage(v)'
    <3>1. page' = Exact \union Part \union Text /\ RoomFor
      BY <2>2, MergeRoom
    <3>2. PICK h \in page : Ident(h) = Ident(v)
      BY <1>1, <2>1, <2>2, <3>1 DEF WordsFound, OnPage
    <3>3. \E y \in Exact \union Part \union Text : Ident(y) = Ident(h)
      BY DEF Text
    <3>4. PICK y \in page' : Ident(y) = Ident(h)
      BY <3>1, <3>3
    <3> QED BY <3>2, <3>4 DEF OnPage
  <2>3. verdict' # "ABSTAINED_ON"
    BY <1>1, <2>1 DEF WordsFound
  <2> QED BY <1>1, <1>3, <2>2, <2>3 DEF WordsFound
<1>6. ASSUME ByName(v) PROVE NameFound(v)'
  <2>1. PICK n \in named : n.match = "name" /\ Ident(n) = Ident(v) /\ \E r \in Mine : Version(r) = v /\ r.rid = n.rid
    BY <1>1, <1>6 DEF FoundFor, NameFound, Gated, Named
  <2>2. ASSUME verdict' # "ABSTAINED_ON", RoomFor' PROVE OnPage(v)'
    <3>1. verdict # "ABSTAINED_ON"
      <4>1. CASE page' = {}
        BY <1>1, <2>2, <4>1
      <4>2. CASE verdict = "ABSTAINED_ON" /\ page' # {}
        <5>1. Usable = {}
          BY <4>2 DEF Usable
        <5>2. Exact = {} /\ Part = {}
          BY <5>1 DEF Exact, Part, Leads
        <5>3. Exact \union Part \union Text = {}
          BY <4>2, <5>2 DEF EmptyPage, Text
        <5> QED BY <2>2, <4>2, <5>3, MergeRoom
      <4> QED BY <4>1, <4>2
    <3>2. n \in Usable
      BY <2>1, <3>1 DEF Usable
    <3>3. PICK r \in Mine : Version(r) = v /\ r.rid = n.rid
      BY <2>1
    <3>4. r \in Loaded(n)
      <4>1. r.tier = v.tier
        BY <3>3, SteadyRow
      <4> QED BY <2>1, <3>3, <4>1 DEF Loaded, Ident
    <3>5. \E w \in ReadByNumber(n) : Ident(w) = Ident(v)
      <4> DEFINE w == [tier |-> n.tier, key |-> n.key, body |-> r.body]
      <4>1. w \in ReadByNumber(n)
        BY <3>4 DEF ReadByNumber
      <4>2. Ident(w) = Ident(n)
        BY DEF Ident
      <4> HIDE DEF w
      <4> QED BY <2>1, <4>1, <4>2
    <3>6. \E w \in Exact : Ident(w) = Ident(v)
      BY <2>1, <3>2, <3>5 DEF Exact, Leads
    <3>7. page' = Exact \union Part \union Text
      BY <2>2, MergeRoom
    <3> QED BY <3>6, <3>7 DEF OnPage
  <2> QED BY <1>1, <2>2 DEF NameFound, Gated, Named
<1> QED BY <1>1, <1>2, <1>3, <1>4, <1>5, <1>6 DEF FoundFor

LEMMA StrictFinds ==
  ASSUME TableOK(rows), HistoryOK, SearchOK, HitsOK, HitsLoad, StrictTier,
         NEW v \in steady, Carries(v), StrictFound(v)
  PROVE  StrictFound(v)'
<1> DEFINE S == {r \in InTier(at) : Asked \subseteq r.body}
<1>1. pc = "strict" /\ turn = 1
  BY DEF StrictTier, StrictFound
<1>2. Variants[turn] = Asked
  BY <1>1, TablesAndQueries DEF Variants, SearchOK
<1>3. PICK got \in Top(Limit, S) : head' = head \union {Version(r) : r \in got}
  BY <1>2 DEF StrictTier
<1>4. \/ ~LastTier /\ pc' = pc /\ turn' = turn /\ at' = at + 1
      \/ /\ LastTier /\ page' \in Top(Limit, head')
         /\ head' = {} \/ (pc' = "append" /\ turn' = turn)
  BY DEF StrictTier
<1>5. Mine' = Mine /\ UNCHANGED <<seen, shrunk, query>> /\ SeenIdents' = SeenIdents
  <2>1. SearchStep
    BY DEF SearchStep
  <2> QED BY <2>1, StepsOnlyRead DEF history, SeenIdents
<1>6. /\ Distinct(head') /\ Known(head')
      /\ S \subseteq Mine /\ Distinct(S) /\ Known(S)
  <2>1. HitsOK'
    BY StrictKeepsHits
  <2>2. S \subseteq Mine
    BY DEF InTier
  <2> QED BY <1>5, <2>1, <2>2, MineApart, MineSeen DEF HitsOK, Distinct, Known
<1>7. /\ IsFiniteSet(S) /\ Cardinality(S) \in Nat /\ Cardinality(S) <= Cardinality(SeenIdents)
      /\ Cardinality(SeenIdents) \in Nat /\ Limit \in Nat /\ Limit # 0
  <2> HIDE DEF S
  <2> QED BY <1>6, AsManyAsSeen, SeenFinite, RecallBounds DEF HitsOK
<1> DEFINE H == head'
<1>8. /\ IsFiniteSet(H) /\ Cardinality(H) \in Nat /\ Cardinality(H) <= Cardinality(SeenIdents)
      /\ Cardinality(head) \in Nat /\ Cardinality(head) <= Cardinality(H)
      /\ Cardinality(got) \in Nat /\ Cardinality(got) <= Cardinality(H)
      /\ got \subseteq S
      /\ Cardinality(S) <= Limit => got = S
      /\ Cardinality(S) >= Limit => Cardinality(got) = Limit
  <2> SUFFICES ASSUME NEW T, T = H
               PROVE  /\ IsFiniteSet(T) /\ Cardinality(T) \in Nat /\ Cardinality(T) <= Cardinality(SeenIdents)
                      /\ Cardinality(head) \in Nat /\ Cardinality(head) <= Cardinality(T)
                      /\ Cardinality(got) \in Nat /\ Cardinality(got) <= Cardinality(T)
                      /\ got \subseteq S
                      /\ Cardinality(S) <= Limit => got = S
                      /\ Cardinality(S) >= Limit => Cardinality(got) = Limit
    OBVIOUS
  <2>1. Distinct(T) /\ Known(T) /\ T = head \union {Version(r) : r \in got}
    BY <1>3, <1>6
  <2>2. /\ got \subseteq S /\ (Cardinality(S) <= Limit => got = S)
        /\ (Cardinality(S) >= Limit => Cardinality(got) = Limit)
    <3> HIDE DEF S
    <3> QED BY <1>3, <1>7, TopRows
  <2>3. Distinct(got)
    BY <1>6, <2>2 DEF Distinct
  <2>4. \A r \in got : \E y \in T : Ident(y) = Ident(r)
    <3>1. \A r \in got : Ident(Version(r)) = Ident(r)
      BY DEF Version, Ident
    <3> QED BY <2>1, <3>1
  <2>5. Distinct(head) /\ \A h \in head : \E y \in T : Ident(y) = Ident(h)
    BY <2>1 DEF HitsOK
  <2> HIDE DEF S
  <2>6. Cardinality(got) \in Nat /\ Cardinality(got) <= Cardinality(T)
    BY <2>1, <2>3, <2>4, NoFewer DEF HitsOK
  <2>7. Cardinality(head) \in Nat /\ Cardinality(head) <= Cardinality(T)
    BY <2>1, <2>5, NoFewer DEF HitsOK
  <2>8. IsFiniteSet(T) /\ Cardinality(T) \in Nat /\ Cardinality(T) <= Cardinality(SeenIdents)
    BY <2>1, AsManyAsSeen DEF HitsOK
  <2> QED BY <2>2, <2>6, <2>7, <2>8
<1>9. PICK r \in Mine : Version(r) = v
  BY SteadyRow
<1>10. r.tier = v.tier /\ r.body = v.body
  BY <1>9, SteadyRow
<1>11. ASSUME Tiers[at] = v.tier \/ Behind(v)
       PROVE  (v \in H \/ Cardinality(H) >= Limit) /\ (Small => v \in H)
  <2>1. CASE Tiers[at] = v.tier
    <3>1. r \in S
      BY <1>9, <1>10, <2>1 DEF Carries, InTier
    <3>2. r \in got => v \in H
      BY <1>3, <1>9
    <3> HIDE DEF S, H
    <3>3. CASE Cardinality(S) <= Limit
      BY <1>8, <3>1, <3>2, <3>3
    <3>4. CASE ~(Cardinality(S) <= Limit)
      BY <1>7, <1>8, <3>4 DEF Small
    <3> QED BY <3>3, <3>4
  <2>2. CASE Behind(v)
    <3>1. (v \in head \/ Cardinality(head) >= Limit) /\ (Small => v \in head)
      BY <1>1, <2>2 DEF StrictFound
    <3>2. head \subseteq H
      BY <1>3
    <3> HIDE DEF H
    <3> QED BY <1>7, <1>8, <3>1, <3>2
  <2> QED BY <1>11, <2>1, <2>2
<1>12. Len(Tiers) \in Nat /\ DOMAIN Tiers = 1..Len(Tiers) /\ at \in DOMAIN Tiers
  BY TablesAndQueries DEF SearchOK
<1>13. CASE ~LastTier
  <2>1. Behind(v)' => Tiers[at] = v.tier \/ Behind(v)
    BY <1>4, <1>12, <1>13 DEF Behind
  <2>2. Small' = Small
    BY <1>5 DEF Small
  <2>3. pc' = "strict" /\ turn' = 1
    BY <1>1, <1>4, <1>13
  <2> QED BY <1>11, <2>1, <2>2, <2>3 DEF StrictFound
<1>14. CASE LastTier
  <2>1. Tiers[at] = v.tier \/ Behind(v)
    <3>1. PICK k \in DOMAIN Tiers : v.tier = Tiers[k]
      BY SteadyRow
    <3> QED BY <1>12, <1>14, <3>1 DEF Behind, LastTier
  <2>2. (v \in H \/ Cardinality(H) >= Limit) /\ (Small => v \in H)
    BY <1>11, <2>1
  <2>3. H # {}
    <3> HIDE DEF H
    <3> QED BY <1>7, <2>2, FS_EmptySet
  <2>4. pc' = "append" /\ page' \in Top(Limit, H)
    BY <1>4, <1>14, <2>3
  <2> SUFFICES ASSUME RoomFor' PROVE OnPage(v)'
    BY <2>4 DEF StrictFound
  <2>5. Small \/ Cardinality(page') < Limit
    BY <1>5 DEF RoomFor, Small
  <2>6. v \in page'
    <3> SUFFICES ASSUME NEW P, P = page' PROVE v \in P
      OBVIOUS
    <3>1. P \in Top(Limit, H) /\ (Small \/ Cardinality(P) < Limit)
      BY <2>4, <2>5
    <3> HIDE DEF H
    <3>2. /\ Cardinality(H) <= Limit => P = H
          /\ Cardinality(H) >= Limit => Cardinality(P) = Limit
      BY <1>7, <1>8, <3>1, TopRows
    <3> QED BY <1>7, <1>8, <2>2, <3>1, <3>2 DEF Small
  <2> QED BY <2>6 DEF OnPage
<1> QED BY <1>13, <1>14

LEMMA AppendFinds ==
  ASSUME TableOK(rows), HistoryOK, SearchOK, HitsOK, HitsLoad, AppendShadow,
         NEW v \in steady, FoundFor(v)
  PROVE  FoundFor(v)'
<1>1. /\ pc = "append" /\ pc' \in {"probe", "done"} /\ at' = at /\ at = 1 /\ query' = query
      /\ query.kind = "raw"
  BY DEF AppendShadow, Still, SearchOK
<1>2. PICK extra : page' = page \union extra
  BY DEF AppendShadow
<1>3. Mine' = Mine /\ UNCHANGED <<seen, shrunk>> /\ Asked' = Asked
  <2>1. SearchStep
    BY DEF SearchStep
  <2> QED BY <2>1, StepsOnlyRead DEF history
<1>4. \E i \in DOMAIN Tiers : i >= at' /\ v.tier = Tiers[i]
  <2>1. DOMAIN Tiers = 1..Len(Tiers) /\ Len(Tiers) \in Nat
    BY TablesAndQueries
  <2> QED BY <1>1, <2>1, SteadyRow
<1>5. RoomFor' => RoomFor
  <2> SUFFICES ASSUME NEW P, P = page' PROVE Cardinality(P) < Limit => Cardinality(page) < Limit
    BY <1>3 DEF RoomFor, Small, SeenIdents
  <2>1. Distinct(P) /\ Known(P)
    <3>1. HitsOK'
      <4>1. SearchStep
        BY DEF SearchStep
      <4> QED BY <4>1, StepsKeepHits
    <3> QED BY <1>3, <3>1 DEF HitsOK, Distinct, Known, SeenIdents
  <2>2. Distinct(page) /\ \A h \in page : \E y \in P : Ident(y) = Ident(h)
    BY <1>2 DEF HitsOK
  <2>3. Cardinality(page) \in Nat /\ Cardinality(P) \in Nat /\ Cardinality(page) <= Cardinality(P)
    BY <2>1, <2>2, NoFewer DEF HitsOK
  <2> QED BY <2>3, RecallBounds
<1>6. OnPage(v) => OnPage(v)'
  BY <1>2 DEF OnPage
<1>7. Carries(v)' = Carries(v) /\ ByName(v)' = ByName(v) /\ ~ByName(v)
  BY <1>1, <1>3 DEF Carries, ByName
<1>8. ASSUME Carries(v) PROVE StrictFound(v)'
  BY <1>1, <1>5, <1>6, <1>8 DEF FoundFor, StrictFound
<1> QED BY <1>1, <1>4, <1>7, <1>8 DEF FoundFor

LEMMA ProbeFinds ==
  ASSUME TableOK(rows), HistoryOK, SearchOK, HitsOK, Probe, NEW v \in steady, FoundFor(v)
  PROVE  FoundFor(v)'
<1>1. /\ pc = "probe" /\ pc' \in {"probe", "done"} /\ UNCHANGED <<page, df, corpus, query>>
      /\ pc' = "probe" => InTier(at) = {} /\ ~LastTier /\ at' = at + 1
      /\ verdict' = IF InTier(at) = {} /\ LastTier THEN "EMPTY_STORE" ELSE verdict
  BY DEF Probe, Still
<1>2. Mine' = Mine /\ UNCHANGED <<seen, shrunk>> /\ Asked' = Asked
  <2>1. SearchStep
    BY DEF SearchStep
  <2> QED BY <2>1, StepsOnlyRead DEF history
<1>3. Len(Tiers) \in Nat /\ DOMAIN Tiers = 1..Len(Tiers) /\ at \in DOMAIN Tiers
  BY TablesAndQueries DEF SearchOK
<1>4. PICK i \in DOMAIN Tiers : i >= at /\ v.tier = Tiers[i]
  BY <1>1 DEF FoundFor
<1>5. PICK r \in Mine : Version(r) = v
  BY SteadyRow
<1>6. r.tier = v.tier
  BY <1>5, SteadyRow
<1>7. InTier(at) = {} => i >= at + 1 /\ ~LastTier
  BY <1>3, <1>4, <1>5, <1>6 DEF InTier, LastTier
<1>8. verdict' = verdict
  BY <1>1, <1>7
<1>9. /\ RoomFor' = RoomFor /\ Barred' = Barred /\ OnPage(v)' = OnPage(v)
      /\ Carries(v)' = Carries(v) /\ ByName(v)' = ByName(v)
  BY <1>1, <1>2 DEF RoomFor, Small, SeenIdents, Barred, Heavy, Scored, Dropped, Live, Function, OnPage,
     Carries, ByName
<1>10. pc' = "probe" => \E k \in DOMAIN Tiers : k >= at' /\ v.tier = Tiers[k]
  BY <1>1, <1>4, <1>7
<1>11. Carries(v) /\ query.kind = "gated" => WordsFound(v)'
  BY <1>1, <1>8, <1>9 DEF FoundFor, WordsFound
<1>12. Carries(v) /\ query.kind = "raw" => StrictFound(v)'
  BY <1>1, <1>9 DEF FoundFor, StrictFound
<1>13. ByName(v) => NameFound(v)'
  BY <1>1, <1>8, <1>9 DEF FoundFor, NameFound, Gated, Named
<1> QED BY <1>1, <1>9, <1>10, <1>11, <1>12, <1>13 DEF FoundFor

LEMMA NamesFind ==
  ASSUME TableOK(rows), HistoryOK, SearchOK, HitsOK, ExactNames \/ PartialNames,
         NEW v \in steady, FoundFor(v)
  PROVE  FoundFor(v)'
<1>1. /\ pc \in {"exact", "partial"} /\ pc' \in {"partial", "stage0", "count"}
      /\ UNCHANGED <<query, verdict>>
      /\ pc' = "stage0" => query.tokens = <<>>
      /\ pc = "exact" <=> ExactNames
  BY DEF ExactNames, PartialNames, Still
<1>2. Mine' = Mine /\ Asked' = Asked /\ query.kind = "gated"
  <2>1. SearchStep
    BY DEF SearchStep
  <2> QED BY <2>1, <1>1, StepsOnlyRead DEF SearchOK, Gated, Named
<1>3. Carries(v)' = Carries(v) /\ ByName(v)' = ByName(v) /\ (Carries(v) => query.tokens # <<>>)
  BY <1>1, <1>2 DEF Carries, ByName
<1>4. Carries(v) => WordsFound(v)'
  BY <1>1, <1>2, <1>3 DEF FoundFor, WordsFound
<1>5. ASSUME ByName(v) PROVE \E n \in named' : n.match = "name" /\ Ident(n) = Ident(v)
                                              /\ \E r \in Mine : Version(r) = v /\ r.rid = n.rid
  <2>1. CASE ExactNames
    <3>1. named' = {NameRow(r, "name") : r \in {x \in Mine : x.tier = "entity" /\ x.key \in query.exact}}
      BY <2>1 DEF ExactNames
    <3>2. PICK r \in Mine : Version(r) = v
      BY SteadyRow
    <3>3. r.tier = v.tier /\ r.key = v.key /\ Ident(r) = Ident(v)
      BY <3>2, SteadyRow
    <3>4. NameRow(r, "name") \in named'
      BY <1>5, <3>1, <3>2, <3>3 DEF ByName
    <3>5. NameRow(r, "name").match = "name" /\ Ident(NameRow(r, "name")) = Ident(r) /\ NameRow(r, "name").rid = r.rid
      BY DEF NameRow, Ident
    <3> QED BY <3>2, <3>3, <3>4, <3>5
  <2>2. CASE PartialNames
    <3>1. named \subseteq named' /\ pc = "partial"
      BY <2>2 DEF PartialNames
    <3> QED BY <1>5, <3>1 DEF FoundFor, NameFound, Gated, Named
  <2> QED BY <2>1, <2>2
<1>6. ByName(v) => NameFound(v)'
  BY <1>1, <1>2, <1>5 DEF NameFound
<1> QED BY <1>1, <1>2, <1>3, <1>4, <1>6 DEF FoundFor

LEMMA StepsKeepFound ==
  ASSUME TableOK(rows), HistoryOK, SearchOK, HitsOK, HitsLoad, EmptyPage, FoundInv, SearchStep
  PROVE  FoundInv'
<1>1. UNCHANGED <<query, seen, steady, shrunk>> /\ Mine' = Mine /\ Asked' = Asked
  BY StepsOnlyRead DEF history
<1> SUFFICES ASSUME Shallow, NEW v \in steady PROVE FoundFor(v)'
  BY <1>1 DEF FoundInv, Shallow
<1>2. FoundFor(v)
  BY DEF FoundInv
<1>3. Carries(v)' = Carries(v) /\ ByName(v)' = ByName(v) /\ (ByName(v) => query.kind = "gated")
  BY <1>1 DEF Carries, ByName
<1>4. CASE ExactNames \/ PartialNames
  BY <1>2, <1>4, NamesFind
<1>5. ASSUME RecallTier \/ CountTier \/ RecallShadow \/ LoadPrep \/ Gates \/ HydratePage
      PROVE  FoundFor(v)'
  <2>1. /\ pc \in Gated \ {"exact"} /\ named' = named
        /\ pc' \in Gated \ {"exact"}
    <3>1. CASE RecallTier
      <4>1. pc = "recall" /\ named' = named /\ NextTier("tally")
        BY <3>1 DEF RecallTier
      <4>2. pc' \in {"recall", "tally"}
        BY <4>1 DEF NextTier
      <4> QED BY <4>1, <4>2 DEF Gated, Named
    <3>2. CASE CountTier
      <4>1. pc = "tally" /\ pc' = "tally" /\ named' = named
        BY <3>2 DEF CountTier
      <4> QED BY <4>1 DEF Gated, Named
    <3>3. CASE RecallShadow
      <4>1. pc = "tally" /\ named' = named
        BY <3>3 DEF RecallShadow
      <4>2. pc' \in {"stage0", "recall", "prep", "gates"}
        BY <3>3 DEF RecallShadow
      <4> QED BY <4>1, <4>2 DEF Gated, Named
    <3>4. CASE LoadPrep
      <4>1. pc = "prep" /\ pc' = "gates" /\ named' = named
        BY <3>4 DEF LoadPrep
      <4> QED BY <4>1 DEF Gated, Named
    <3>5. CASE Gates
      <4>1. pc = "gates" /\ pc' \in {"stage0", "hydrate"} /\ named' = named
        BY <3>5 DEF Gates
      <4> QED BY <4>1 DEF Gated, Named
    <3>6. CASE HydratePage
      <4>1. pc = "hydrate" /\ pc' = "stage0" /\ named' = named
        BY <3>6 DEF HydratePage
      <4> QED BY <4>1 DEF Gated, Named
    <3> QED BY <1>5, <3>1, <3>2, <3>3, <3>4, <3>5, <3>6
  <2>2. query.kind = "gated"
    BY <2>1 DEF SearchOK
  <2>3. Carries(v) => WordsFound(v)'
    <3> SUFFICES ASSUME Carries(v), WordsFound(v) PROVE WordsFound(v)'
      BY <1>2, <2>2 DEF FoundFor
    <3> QED BY <1>5, RecallFinds, TallyFinds, ShadowFinds, PrepFinds, GatesFind, HydrateFinds
  <2>4. ByName(v) => NameFound(v)'
    BY <1>1, <1>2, <2>1 DEF FoundFor, NameFound, Gated, Named
  <2> QED BY <1>1, <1>3, <2>1, <2>2, <2>3, <2>4 DEF FoundFor, Gated, Named
<1>6. CASE CountCorpus
  <2>1. /\ pc = "count" /\ pc' \in {"count", "recall"} /\ named' = named /\ verdict' = verdict
        /\ turn' = turn /\ turn = 1 /\ (pc' = "recall" => at' = 1) /\ query.kind = "gated"
    BY <1>6, NextTierStays DEF CountCorpus, SearchOK, Gated, Named
  <2>2. pc' = "recall" => ~Behind(v)'
    <3>1. DOMAIN Tiers = 1..Len(Tiers) /\ Len(Tiers) \in Nat
      BY TablesAndQueries
    <3> QED BY <2>1, <3>1 DEF Behind
  <2>3. Carries(v) => WordsFound(v)'
    BY <1>2, <2>1, <2>2 DEF FoundFor, WordsFound
  <2>4. ByName(v) => NameFound(v)'
    BY <1>1, <1>2, <2>1 DEF FoundFor, NameFound, Gated, Named
  <2> QED BY <1>1, <1>3, <2>1, <2>3, <2>4 DEF FoundFor
<1>7. CASE MergeNames
  BY <1>2, <1>7, MergeFinds
<1>8. CASE Probe
  BY <1>2, <1>8, ProbeFinds
<1>9. CASE StrictTier
  <2>1. pc = "strict" /\ pc' \in {"strict", "append"} /\ query.kind = "raw"
    BY <1>9 DEF StrictTier, SearchOK
  <2>2. Carries(v) => StrictFound(v)'
    BY <1>2, <1>9, <2>1, StrictFinds DEF FoundFor
  <2> QED BY <1>1, <1>3, <2>1, <2>2 DEF FoundFor
<1>10. CASE AppendShadow
  BY <1>2, <1>10, AppendFinds
<1> QED BY <1>4, <1>5, <1>6, <1>7, <1>8, <1>9, <1>10 DEF SearchStep

\* The search finds what stands still: in a store no deeper than one SELECT, a
\* memory with every word of the query, or named by it, that nobody touched is
\* on a page with room for it, whatever other clients write between the
\* statements (SteadyFound; multi_record_search, search, _merge_stage0).
THEOREM WhatStandsIsFound == RecallSpec => []SteadyFound
<1> DEFINE Inv == /\ TableOK(rows) /\ HistoryOK /\ SearchOK /\ ZeroInv
                  /\ HitsOK /\ HitsLoad /\ EmptyPage /\ FoundInv
<1>1. RecallInit => Inv
  <2> SUFFICES ASSUME RecallInit PROVE Inv
    OBVIOUS
  <2>1. ZeroInv
    BY DEF RecallInit, ZeroInv, StillAhead, ToBeCounted, ProbeAhead, ZeroesSaid
  <2>2. EmptyPage
    BY DEF RecallInit, EmptyPage
  <2> QED BY <2>1, <2>2, SearchStart, HitsStart, FoundStart
<1>2. Inv /\ [RecallNext]_recallVars => Inv'
  <2> SUFFICES ASSUME Inv, [RecallNext]_recallVars PROVE Inv'
    OBVIOUS
  <2>1. ASSUME NEW s \in Slots, Edit(s) PROVE Inv'
    <3>1. TableOK(rows)' /\ HistoryOK' /\ ZeroInv' /\ UNCHANGED <<pc, searchVars>>
      BY <2>1, EditsKeepTables, EditsKeepHistory, EditsKeepZero
    <3>2. HitsOK' /\ HitsLoad' /\ FoundInv'
      BY <2>1, EditsKeepHits, EditsKeepFound
    <3>3. SearchOK' /\ EmptyPage'
      BY <3>1 DEF SearchOK, EmptyPage, searchVars, Asked
    <3> QED BY <3>1, <3>2, <3>3
  <2>2. CASE SearchStep
    <3>1. rows' = rows
      BY <2>2, StepsOnlyRead
    <3>2. HistoryOK' /\ SearchOK' /\ ZeroInv'
      BY <2>2, StepsKeepHistory, StepsKeepSearch, StepsKeepZero
    <3>3. HitsOK' /\ HitsLoad' /\ EmptyPage' /\ FoundInv'
      BY <2>2, StepsKeepHits, StepsKeepEmpty, StepsKeepFound
    <3> QED BY <3>1, <3>2, <3>3
  <2>3. CASE UNCHANGED recallVars
    <3>1. /\ UNCHANGED <<rows, pc, query, turn, at, named, head, full, corpus, df, cand, preps, page, verdict>>
          /\ UNCHANGED <<seen, steady, absent, wasEmpty, shrunk>>
      BY <2>3 DEF recallVars, searchVars, history
    <3>2. Mine' = Mine /\ Asked' = Asked /\ Token' = Token /\ (\A i : InTier(i)' = InTier(i))
      BY <3>1 DEF Mine, Asked, Token, InTier
    <3>3. HistoryOK' /\ SearchOK' /\ EmptyPage'
      BY <3>1, <3>2 DEF HistoryOK, SearchOK, Unsupported, EmptyPage
    <3>4. ZeroInv'
      BY <3>1, <3>2 DEF ZeroInv, StillAhead, ToBeCounted, ProbeAhead, ZeroesSaid, HereOn
    <3>5. HitsOK' /\ HitsLoad'
      BY <3>1, <3>2 DEF HitsOK, HitsLoad, Distinct, Known, SeenIdents, Loads, Loaded
    <3>6. FoundInv'
      <4>1. \A v : FoundFor(v)' = FoundFor(v)
        BY <3>1, <3>2 DEF FoundFor, WordsFound, StrictFound, NameFound, Stands, Behind, Barred, RoomFor, Small,
           SeenIdents, OnPage, Heavy, Scored, Dropped, Live, Function, Carries, ByName
      <4> QED BY <3>1, <4>1 DEF FoundInv, Shallow
    <3> QED BY <3>1, <3>3, <3>4, <3>5, <3>6
  <2> QED BY <2>1, <2>2, <2>3 DEF RecallNext, Edit
<1>3. Inv => SteadyFound
  <2> SUFFICES ASSUME Inv, Answered, Shallow, Roomy, NEW v \in steady,
                      (Carries(v) /\ ~Refused) \/ (ByName(v) /\ verdict # "ABSTAINED_ON")
               PROVE  OnPage(v)
    BY DEF SteadyFound, OnPage
  <2>1. FoundFor(v) /\ RoomFor /\ pc = "done"
    BY DEF FoundInv, Roomy, RoomFor, Small, SeenIdents, Answered
  <2>2. CASE ByName(v) /\ verdict # "ABSTAINED_ON"
    BY <2>1, <2>2 DEF FoundFor, NameFound
  <2>3. CASE Carries(v) /\ ~Refused
    <3>1. query.kind \in {"gated", "raw"}
      BY TablesAndQueries DEF SearchOK
    <3>2. CASE query.kind = "raw"
      BY <2>1, <2>3, <3>2 DEF FoundFor, StrictFound
    <3>3. CASE query.kind = "gated"
      <4>1. WordsFound(v)
        BY <2>1, <2>3, <3>3 DEF FoundFor
      <4>2. ~Barred
        BY <2>3, <3>3, <4>1 DEF WordsFound, Refused, Barred
      <4> QED BY <2>1, <4>1, <4>2 DEF WordsFound
    <3> QED BY <3>1, <3>2, <3>3
  <2> QED BY <2>2, <2>3
<1> QED BY <1>1, <1>2, <1>3, PTL DEF RecallSpec

-----------------------------------------------------------------------------
(* Walks through pages.                                                     *)

\* A finite set of numbered rows can be put in order.
Enumerates(s, R) ==
  /\ s \in [1..Cardinality(R) -> R] /\ IsInjective(s)
  /\ \A i, j \in DOMAIN s : i < j => s[i][1] <= s[j][1]

LEMMA TopRow ==
  ASSUME NEW R, IsFiniteSet(R), R # {}, \A r \in R : r[1] \in Nat
  PROVE  \E top \in R : \A r \in R : r[1] <= top[1]
<1> DEFINE N == {r[1] : r \in R}
           f == [r \in R |-> r[1]]
<1>1. f \in Surjection(R, N)
  BY DEF Surjection
<1>2. IsFiniteSet(N) /\ N # {} /\ N \subseteq Nat
  <2>1. IsFiniteSet(N)
    <3> HIDE DEF N, f
    <3> QED BY <1>1, FS_Surjection
  <2> QED BY <2>1
<1>3. Max(N) \in N /\ \A n \in N : n <= Max(N)
  <2> HIDE DEF N
  <2> QED BY <1>2, Largest
<1> QED BY <1>3

LEMMA OneMoreRow ==
  ASSUME NEW U, IsFiniteSet(U), NEW top \in U, \A r \in U : r[1] <= top[1],
         NEW s, Enumerates(s, U \ {top})
  PROVE  \E t : Enumerates(t, U)
<1> DEFINE n == Cardinality(U)
           t == [i \in 1..n |-> IF i = n THEN top ELSE s[i]]
<1>1. n \in Nat /\ n >= 1 /\ Cardinality(U \ {top}) = n - 1
  BY FS_RemoveElement, FS_CardinalityType, FS_EmptySet
<1>2. s \in [1..(n - 1) -> U \ {top}]
  BY <1>1 DEF Enumerates
<1>3. DOMAIN t = 1..n /\ t[n] = top /\ \A i \in 1..n : i # n => i \in 1..(n - 1) /\ t[i] = s[i]
  <2> HIDE DEF n
  <2> QED BY <1>1
<1> HIDE DEF t
<1>4. t \in [1..n -> U]
  <2>1. \A i \in 1..n : t[i] \in U
    <3> HIDE DEF n
    <3> QED BY <1>2, <1>3
  <2>2. t = [i \in 1..n |-> t[i]]
    BY DEF t
  <2> HIDE DEF n
  <2> QED BY <2>1, <2>2
<1>5. \A i, j \in 1..n : t[i] = t[j] => i = j
  <2> HIDE DEF n
  <2>1. \A i, j \in 1..(n - 1) : s[i] = s[j] => i = j
    BY <1>2 DEF Enumerates, IsInjective
  <2>2. \A i \in 1..(n - 1) : s[i] # top
    BY <1>2
  <2> QED BY <1>3, <2>1, <2>2
<1>6. \A i, j \in 1..n : i < j => t[i][1] <= t[j][1]
  <2> HIDE DEF n
  <2> SUFFICES ASSUME NEW i \in 1..n, NEW j \in 1..n, i < j PROVE t[i][1] <= t[j][1]
    OBVIOUS
  <2>1. i \in 1..(n - 1) /\ t[i] = s[i]
    BY <1>1, <1>3
  <2>2. CASE j = n
    BY <1>2, <1>3, <2>1, <2>2
  <2>3. CASE j # n
    <3>1. j \in 1..(n - 1) /\ t[j] = s[j]
      BY <1>3, <2>3
    <3> QED BY <1>2, <2>1, <3>1 DEF Enumerates
  <2> QED BY <2>2, <2>3
<1> QED
  <2>1. Enumerates(t, U)
    BY <1>3, <1>4, <1>5, <1>6 DEF Enumerates, IsInjective
  <2> QED BY <2>1

LEMMA OrderExists ==
  ASSUME NEW R, IsFiniteSet(R), \A r \in R : r[1] \in Nat
  PROVE  Enumerates(InOrder(R), R)
<1> DEFINE F == {U \in SUBSET R : ~\E s : Enumerates(s, U)}
<1>1. \E s : Enumerates(s, R)
  <2> SUFFICES ASSUME ~\E s : Enumerates(s, R) PROVE FALSE
    OBVIOUS
  <2>1. FiniteSubsetsOf(R) = SUBSET R
    BY FS_FiniteSubsetsOfFinite
  <2>2. F # {} /\ F \subseteq FiniteSubsetsOf(R)
    BY <2>1
  <2>3. PICK U \in F : \A V \in F : <<V, U>> \notin StrictSubsetOrdering(R)
    <3> HIDE DEF F
    <3> QED BY <2>2, FS_StrictSubsetOrderingWellFounded, WFMin
  <2>4. IsFiniteSet(U) /\ U \subseteq R
    BY FS_Subset
  <2>5. U # {}
    <3> DEFINE e == [i \in 1..0 |-> i]
    <3>1. 1..0 = {} /\ Cardinality({}) = 0
      BY FS_EmptySet
    <3>2. Enumerates(e, {})
      BY <3>1 DEF Enumerates, IsInjective
    <3> HIDE DEF e
    <3> QED BY <3>2
  <2>6. PICK top \in U : \A r \in U : r[1] <= top[1]
    BY <2>4, <2>5, TopRow
  <2>7. U \ {top} \in SUBSET R /\ <<U \ {top}, U>> \in StrictSubsetOrdering(R)
    BY <2>4 DEF StrictSubsetOrdering
  <2>8. PICK s : Enumerates(s, U \ {top})
    BY <2>3, <2>7
  <2>9. \E t : Enumerates(t, U)
    BY <2>4, <2>6, <2>8, OneMoreRow
  <2> QED BY <2>9
<1> HIDE DEF F
<1> QED BY <1>1 DEF Enumerates, InOrder

\* Every row has its place.
LEMMA InOrderHasAll ==
  ASSUME NEW R, IsFiniteSet(R), \A r \in R : r[1] \in Nat
  PROVE  /\ InOrder(R) \in Seq(R) /\ Len(InOrder(R)) = Cardinality(R) /\ Cardinality(R) \in Nat
         /\ DOMAIN InOrder(R) = 1..Cardinality(R)
         /\ \A i \in 1..Cardinality(R) : InOrder(R)[i] \in R
         /\ \A r \in R : \E i \in 1..Cardinality(R) : InOrder(R)[i] = r
         /\ \A i, j \in 1..Cardinality(R) : InOrder(R)[i] = InOrder(R)[j] => i = j
         /\ \A i, j \in 1..Cardinality(R) : i < j => InOrder(R)[i][1] <= InOrder(R)[j][1]
<1> DEFINE s == InOrder(R)
           n == Cardinality(R)
<1>1. Enumerates(s, R)
  BY OrderExists
<1>2. n \in Nat
  BY FS_CardinalityType
<1>3. IsFiniteSet(1..n) /\ Cardinality(1..n) = n
  <2> HIDE DEF n
  <2> QED BY <1>2, FS_Interval
<1> HIDE DEF s
<1>4. s \in Injection(1..n, R)
  BY <1>1 DEF Injection, Enumerates
<1>5. s \in Surjection(1..n, R)
  BY <1>3, <1>4, FS_Injection
<1> QED BY <1>1, <1>2, <1>5 DEF Enumerates, Surjection, IsInjective, s

LEMMA LesserOfTwo ==
  ASSUME NEW a \in Nat, NEW b \in Nat
  PROVE  /\ Min({a, b}) \in {a, b} /\ Min({a, b}) <= a /\ Min({a, b}) <= b
  BY DEF Min

PagesOK ==
  /\ docs \subseteq Keys /\ body \in Texts
  /\ DOMAIN edges \subseteq EdgeNumbers /\ \A e \in DOMAIN edges : edges[e] \in {"out", "in", "loop"}
  /\ kind \in {"docs", "edges", "text", Ended} /\ cursor \in Nat \union {Ended}
  /\ kind = Ended => cursor = 0 /\ listed = <<>>

\* A list is walked in the order of its numbers: the rows received lie up to
\* the cursor, and what has stayed so far and lies there is among them.
Rows == Nat \X {"key", "out", "in"}
ThereNow == IF kind = "docs" THEN docs ELSE DOMAIN edges
Ascending(s) == \A i, j \in 1..Len(s) : i < j => s[i][1] < s[j][1]
RowsWalked ==
  kind \in {"docs", "edges"} =>
    /\ stayed \subseteq ThereNow
    /\ listed \in Seq(Rows) /\ Ascending(listed)
    /\ cursor # Ended => \A i \in 1..Len(listed) : listed[i][1] <= cursor
    /\ \A n \in stayed : cursor = Ended \/ n <= cursor =>
                           \E i \in 1..Len(listed) : listed[i][1] = n

\* A text nobody rewrote has been received up to the cursor.
TextWalked ==
  kind = "text" /\ stayed # {} =>
    IF cursor = Ended THEN listed = Shown(body)
    ELSE cursor <= Len(Shown(body)) /\ listed = SubSeq(Shown(body), 1, cursor)

WalkInv == PagesOK /\ RowsWalked /\ TextWalked

\* What the statements of a list return, in order.
LEMMA RowsAhead ==
  ASSUME PagesOK, kind \in {"docs", "edges"}, cursor # Ended
  PROVE  /\ WalkRows \in Seq(Rows) /\ Ascending(WalkRows)
         /\ \A i \in 1..Len(WalkRows) : WalkRows[i][1] > cursor
         /\ \A n \in ThereNow : n > cursor => \E i \in 1..Len(WalkRows) : WalkRows[i][1] = n
<1> DEFINE W == IF kind = "docs" THEN DocRows ELSE EdgeRows
<1>1. ThereNow \subseteq Nat /\ IsFiniteSet(ThereNow)
  BY PageBounds, FS_Subset DEF PagesOK, ThereNow
<1>2. W \subseteq Rows
  BY <1>1 DEF PagesOK, ThereNow, DocRows, EdgeRows, OutRows, InRows, Rows
<1>3. \A r \in W : r[1] \in ThereNow /\ r[1] > cursor
  BY DEF ThereNow, DocRows, EdgeRows, OutRows, InRows
<1>4. \A r, o \in W : r[1] = o[1] => r = o
  <2>1. CASE kind = "docs"
    BY <2>1 DEF DocRows
  <2>2. CASE kind # "docs"
    <3>1. W = EdgeRows
      BY <2>2
    <3>2. \A r \in W : \/ r = <<r[1], "out">> /\ edges[r[1]] \in {"out", "loop"}
                       \/ r = <<r[1], "in">> /\ edges[r[1]] = "in"
      BY <3>1 DEF EdgeRows, OutRows, InRows, LoopOnce
    <3> HIDE DEF W
    <3> QED BY <3>2
  <2> QED BY <2>1, <2>2
<1>5. \A n \in ThereNow : n > cursor => \E r \in W : r[1] = n
  <2>1. CASE kind = "docs"
    <3> SUFFICES ASSUME NEW n \in docs, n > cursor PROVE \E r \in W : r[1] = n
      BY <2>1 DEF ThereNow
    <3>1. <<n, "key">> \in W
      BY <2>1 DEF DocRows
    <3> QED BY <3>1
  <2>2. CASE kind = "edges"
    <3> SUFFICES ASSUME NEW n \in DOMAIN edges, n > cursor PROVE \E r \in W : r[1] = n
      BY <2>2 DEF ThereNow
    <3>1. W = EdgeRows
      BY <2>2
    <3>2. edges[n] \in {"out", "loop"} => <<n, "out">> \in W
      BY <3>1 DEF EdgeRows, OutRows
    <3>3. edges[n] = "in" => <<n, "in">> \in W
      BY <3>1 DEF EdgeRows, InRows
    <3>4. edges[n] \in {"out", "in", "loop"}
      BY DEF PagesOK
    <3> HIDE DEF W
    <3> QED BY <3>2, <3>3, <3>4
  <2> QED BY <2>1, <2>2
<1>6. IsFiniteSet(W)
  <2> DEFINE f == [r \in W |-> r[1]]
  <2>1. f \in Injection(W, ThereNow)
    <3> HIDE DEF W
    <3> QED BY <1>3, <1>4 DEF Injection, IsInjective
  <2> HIDE DEF f, W
  <2> QED BY <1>1, <2>1, FS_Injection
<1>7. WalkRows = InOrder(W)
  BY DEF WalkRows
<1> HIDE DEF W
<1>8. \A r \in W : r[1] \in Nat
  BY <1>1, <1>3
<1> DEFINE s == InOrder(W)
           n == Cardinality(W)
<1>9. /\ s \in Seq(W) /\ Len(s) = n /\ n \in Nat
      /\ \A i \in 1..n : s[i] \in W
      /\ \A r \in W : \E i \in 1..n : s[i] = r
      /\ \A i, j \in 1..n : s[i] = s[j] => i = j
      /\ \A i, j \in 1..n : i < j => s[i][1] <= s[j][1]
  BY <1>6, <1>8, InOrderHasAll
<1> HIDE DEF s, n
<1>10. s \in Seq(Rows)
  BY <1>2, <1>9
<1>11. \A i, j \in 1..n : i < j => s[i][1] < s[j][1]
  <2> SUFFICES ASSUME NEW i \in 1..n, NEW j \in 1..n, i < j PROVE s[i][1] < s[j][1]
    OBVIOUS
  <2>1. s[i] \in W /\ s[j] \in W /\ s[i] # s[j] /\ s[i][1] <= s[j][1]
    BY <1>9
  <2>2. s[i][1] # s[j][1] /\ s[i][1] \in Nat /\ s[j][1] \in Nat
    BY <1>4, <1>8, <2>1
  <2> QED BY <2>1, <2>2
<1>12. \A i \in 1..n : s[i][1] > cursor
  BY <1>3, <1>9
<1>13. \A m \in ThereNow : m > cursor => \E i \in 1..n : s[i][1] = m
  BY <1>5, <1>9
<1> QED BY <1>7, <1>9, <1>10, <1>11, <1>12, <1>13 DEF s, Ascending

\* A text is shown as a sequence.
LEMMA ShownInOrder ==
  ASSUME NEW t \in Texts
  PROVE  \E S : Shown(t) \in Seq(S)
<1> DEFINE begin == {i \in DOMAIN t : ~(i > 1 /\ IsMarkerAt(t, i - 1))}
           W == {<<i, IF IsMarkerAt(t, i) THEN "#" ELSE t[i]>> : i \in begin}
           f == [i \in begin |-> <<i, IF IsMarkerAt(t, i) THEN "#" ELSE t[i]>>]
<1>1. t \in Seq({t[i] : i \in DOMAIN t})
  BY PageBounds
<1>2. Len(t) \in Nat /\ DOMAIN t = 1..Len(t)
  BY <1>1
<1>3. IsFiniteSet(begin) /\ begin \subseteq Nat
  <2>1. IsFiniteSet(1..Len(t))
    BY <1>2, FS_Interval
  <2>2. begin \in SUBSET (1..Len(t))
    BY <1>2
  <2> HIDE DEF begin
  <2>3. IsFiniteSet(begin)
    BY <2>1, <2>2, FS_Subset
  <2> QED BY <2>2, <2>3
<1>4. f \in Surjection(begin, W)
  BY DEF Surjection
<1>5. IsFiniteSet(W) /\ \A r \in W : r[1] \in Nat
  <2>1. \A r \in W : r[1] \in Nat
    BY <1>3
  <2> HIDE DEF W, f, begin
  <2> QED BY <1>3, <1>4, <2>1, FS_Surjection
<1> DEFINE parts == InOrder(W)
<1>6. Cardinality(W) \in Nat /\ DOMAIN parts = 1..Cardinality(W)
  <2> HIDE DEF W
  <2> QED BY <1>5, InOrderHasAll
<1>7. Shown(t) = [n \in DOMAIN parts |-> parts[n][2]]
  BY DEF Shown
<1> HIDE DEF parts
<1>8. [n \in DOMAIN parts |-> parts[n][2]] \in Seq({parts[n][2] : n \in DOMAIN parts})
  <2> HIDE DEF W
  <2> QED BY <1>6
<1> QED BY <1>7, <1>8

LEMMA WalkStart == PagesInit => WalkInv
<1> SUFFICES ASSUME PagesInit PROVE WalkInv
  OBVIOUS
<1>1. PagesOK
  BY DEF PagesInit, PagesOK
<1>2. kind \notin {"docs", "edges", "text"}
  BY PageBounds DEF PagesInit
<1> QED BY <1>1, <1>2 DEF WalkInv, RowsWalked, TextWalked

LEMMA FirstPage ==
  ASSUME WalkInv, NEW k \in {"docs", "edges", "text"}, StartWalk(k)
  PROVE  WalkInv'
<1>1. /\ kind = Ended /\ kind' = k /\ cursor' = 0 /\ listed' = <<>>
      /\ UNCHANGED <<docs, edges, body>>
  BY DEF StartWalk, WalkInv, PagesOK
<1>2. PagesOK'
  BY <1>1, PageBounds DEF WalkInv, PagesOK
<1>3. CASE k = "text"
  <2>1. \E S : Shown(body) \in Seq(S)
    BY ShownInOrder DEF WalkInv, PagesOK
  <2>2. Len(Shown(body)) \in Nat /\ SubSeq(Shown(body), 1, 0) = <<>>
    BY <2>1
  <2>3. Shown(body)' = Shown(body)
    BY <1>1
  <2> QED BY <1>1, <1>2, <1>3, <2>2, <2>3, PageBounds DEF WalkInv, RowsWalked, TextWalked
<1>4. CASE k # "text"
  <2>1. stayed' = ThereNow'
    BY <1>1, <1>4 DEF StartWalk, ThereNow
  <2>2. ThereNow' \subseteq Nat \ {0}
    BY <1>2, PageBounds DEF PagesOK, ThereNow
  <2>3. \A n \in stayed' : ~(n <= 0)
    BY <2>1, <2>2
  <2>4. listed' = <<>> /\ Len(listed') = 0 /\ listed' \in Seq(Rows) /\ 1..0 = {}
    BY <1>1
  <2>5. RowsWalked'
    BY <1>1, <2>1, <2>3, <2>4, PageBounds DEF RowsWalked, Ascending
  <2> QED BY <1>1, <1>2, <1>4, <2>5 DEF WalkInv, TextWalked
<1> QED BY <1>3, <1>4

\* Whatever other agents write, what stayed is there.
LEMMA OthersKeepWalk ==
  ASSUME WalkInv,
         \/ \E k \in Keys : SetReference(k) \/ DeleteReference(k)
         \/ \E e \in EdgeNumbers, dir \in {"out", "in", "loop"} : AddEdge(e, dir)
         \/ \E e \in EdgeNumbers : RemoveEdge(e)
         \/ \E t \in Texts : RewriteBody(t)
  PROVE  WalkInv'
<1>1. UNCHANGED <<kind, cursor, listed>>
  BY DEF SetReference, DeleteReference, AddEdge, RemoveEdge, RewriteBody, Change
<1>2. PagesOK /\ RowsWalked /\ TextWalked
  BY DEF WalkInv
<1> SUFFICES /\ docs' \subseteq Keys /\ body' \in Texts
             /\ DOMAIN edges' \subseteq EdgeNumbers /\ \A e \in DOMAIN edges' : edges'[e] \in {"out", "in", "loop"}
             /\ stayed' \subseteq stayed
             /\ kind \in {"docs", "edges"} /\ stayed \subseteq ThereNow => stayed' \subseteq ThereNow'
             /\ kind = "text" /\ stayed' # {} => body' = body
  <2>1. PagesOK'
    BY <1>1, <1>2 DEF PagesOK
  <2>2. RowsWalked'
    BY <1>1, <1>2 DEF RowsWalked, Ascending
  <2>3. kind = "text" /\ stayed' # {} => Shown(body') = Shown(body) /\ stayed # {}
    OBVIOUS
  <2>4. TextWalked'
    BY <1>1, <1>2, <2>3 DEF TextWalked
  <2> QED BY <2>1, <2>2, <2>4 DEF WalkInv
<1>3. ASSUME NEW k \in Keys, SetReference(k)
      PROVE  /\ docs' \subseteq Keys /\ docs \subseteq docs' /\ UNCHANGED <<edges, body, stayed>>
  BY <1>2, <1>3 DEF SetReference, PagesOK
<1>4. ASSUME NEW k \in Keys, DeleteReference(k)
      PROVE  /\ docs' \subseteq Keys /\ docs' = docs \ {k} /\ UNCHANGED <<edges, body>>
             /\ stayed' = IF kind = "docs" THEN stayed \ {k} ELSE stayed
  BY <1>2, <1>4 DEF DeleteReference, PagesOK
<1>5. ASSUME NEW e \in EdgeNumbers, NEW dir \in {"out", "in", "loop"}, AddEdge(e, dir)
      PROVE  /\ DOMAIN edges' = DOMAIN edges \union {e} /\ UNCHANGED <<docs, body, stayed>>
             /\ \A x \in DOMAIN edges' : edges'[x] \in {"out", "in", "loop"}
  BY <1>2, <1>5 DEF AddEdge, PagesOK
<1>6. ASSUME NEW e \in EdgeNumbers, RemoveEdge(e)
      PROVE  /\ DOMAIN edges' = DOMAIN edges \ {e} /\ UNCHANGED <<docs, body>>
             /\ \A x \in DOMAIN edges' : edges'[x] \in {"out", "in", "loop"}
             /\ stayed' = IF kind = "edges" THEN stayed \ {e} ELSE stayed
  BY <1>2, <1>6 DEF RemoveEdge, PagesOK
<1>7. ASSUME NEW t \in Texts, RewriteBody(t)
      PROVE  /\ body' \in Texts /\ UNCHANGED <<docs, edges>>
             /\ stayed' = IF kind = "text" THEN {} ELSE stayed
  BY <1>7 DEF RewriteBody
<1>8. CASE \E k \in Keys : SetReference(k)
  BY <1>1, <1>2, <1>3, <1>8 DEF PagesOK, ThereNow
<1>9. CASE \E k \in Keys : DeleteReference(k)
  BY <1>1, <1>2, <1>4, <1>9 DEF PagesOK, ThereNow
<1>10. CASE \E e \in EdgeNumbers, dir \in {"out", "in", "loop"} : AddEdge(e, dir)
  BY <1>1, <1>2, <1>5, <1>10 DEF PagesOK, ThereNow
<1>11. CASE \E e \in EdgeNumbers : RemoveEdge(e)
  BY <1>1, <1>2, <1>6, <1>11 DEF PagesOK, ThereNow
<1>12. CASE \E t \in Texts : RewriteBody(t)
  BY <1>1, <1>2, <1>7, <1>12 DEF PagesOK, ThereNow
<1> QED BY <1>8, <1>9, <1>10, <1>11, <1>12

\* A page brings the next rows, and the cursor stays behind what it brought.
LEMMA PageBrings ==
  ASSUME WalkInv, NEW limit \in Limits, ListPage(limit)
  PROVE  \E kept \in 0..Len(WalkRows) :
           /\ listed' = listed \o SubSeq(WalkRows, 1, kept)
           /\ \/ cursor' = Ended /\ kept = Len(WalkRows)
              \/ kept >= 1 /\ cursor' = WalkRows[kept][1]
<1> DEFINE s == WalkRows
           m == Min({limit, Len(s)})
           first == SubSeq(s, 1, m)
<1>1. s \in Seq(Rows)
  BY RowsAhead DEF ListPage, WalkInv
<1>2. Len(s) \in Nat /\ limit \in Nat /\ limit >= 1
  BY <1>1, PageBounds
<1> HIDE DEF s
<1>3. m \in 0..Len(s) /\ (m = Len(s) \/ m = limit) /\ m <= limit
  BY <1>2, LesserOfTwo
<1>4. FirstRows(limit) = first
  BY DEF FirstRows, s
<1> HIDE DEF m
<1>5. first \in Seq(Rows) /\ Len(first) = m /\ \A i \in 1..m : first[i] = s[i]
  BY <1>1, <1>3
<1>6. PICK kept \in Budgeted(first) :
        /\ listed' = listed \o SubSeq(first, 1, kept)
        /\ cursor' = AfterPage(first, kept, Len(s) > limit)
  BY <1>4 DEF ListPage, s
<1>7. kept \in 0..m /\ (kept = 0 => m = 0)
  <2>1. CASE first = <<>>
    <3>1. kept = 0
      BY <1>6, <2>1 DEF Budgeted
    <3>2. m = 0
      BY <1>5, <2>1
    <3> QED BY <3>1, <3>2
  <2>2. CASE first # <<>>
    BY <1>3, <1>5, <1>6, <2>2 DEF Budgeted
  <2> QED BY <2>1, <2>2
<1>8. SubSeq(first, 1, kept) = SubSeq(s, 1, kept)
  BY <1>1, <1>3, <1>5, <1>7
<1>9. kept \in 0..Len(s)
  BY <1>2, <1>3, <1>7
<1>10. \/ cursor' = Ended /\ kept = Len(s)
       \/ kept >= 1 /\ cursor' = s[kept][1]
  <2>1. CASE kept < m
    <3>1. cursor' = first[kept][1]
      BY <1>5, <1>6, <2>1 DEF AfterPage
    <3>2. kept >= 1
      BY <1>7, <2>1
    <3> QED BY <1>5, <1>7, <3>1, <3>2
  <2>2. CASE kept = m /\ Len(s) > limit
    <3>1. m = limit /\ kept >= 1
      BY <1>2, <1>3, <2>2
    <3>2. cursor' = Last(first)[1]
      BY <1>5, <1>6, <2>2 DEF AfterPage, AfterWholePage
    <3>3. Last(first) = first[m]
      BY <1>5 DEF Last
    <3> QED BY <1>5, <1>7, <2>2, <3>1, <3>2, <3>3
  <2>3. CASE kept = m /\ ~(Len(s) > limit)
    <3>1. cursor' = Ended
      BY <1>5, <1>6, <2>3 DEF AfterPage, AfterWholePage
    <3>2. m = Len(s)
      BY <1>2, <1>3, <2>3
    <3> QED BY <2>3, <3>1, <3>2
  <2> QED BY <1>3, <1>7, <2>1, <2>2, <2>3
<1> QED BY <1>6, <1>8, <1>9, <1>10 DEF s

LEMMA PageKeepsWalk ==
  ASSUME WalkInv, NEW limit \in Limits, ListPage(limit)
  PROVE  WalkInv'
<1>1. /\ kind \in {"docs", "edges"} /\ cursor # Ended /\ cursor \in Nat
      /\ UNCHANGED <<docs, edges, body, kind, stayed>>
  BY DEF ListPage, WalkInv, PagesOK
<1>2. PagesOK /\ RowsWalked
  BY DEF WalkInv
<1> DEFINE s == WalkRows
           n == Len(listed)
<1>3. /\ s \in Seq(Rows) /\ Ascending(s)
      /\ \A i \in 1..Len(s) : s[i][1] > cursor
      /\ \A m \in ThereNow : m > cursor => \E i \in 1..Len(s) : s[i][1] = m
  BY <1>1, <1>2, RowsAhead
<1>4. PICK kept \in 0..Len(s) :
        /\ listed' = listed \o SubSeq(s, 1, kept)
        /\ \/ cursor' = Ended /\ kept = Len(s)
           \/ kept >= 1 /\ cursor' = s[kept][1]
  BY PageBrings
<1>5. listed \in Seq(Rows) /\ Ascending(listed) /\ n \in Nat
      /\ \A i \in 1..n : listed[i][1] <= cursor /\ listed[i][1] \in Nat
  BY <1>1, <1>2 DEF RowsWalked, Rows
<1> HIDE DEF s
<1>6. \A i \in 1..Len(s) : s[i][1] \in Nat
  BY <1>3 DEF Rows
<1>7. /\ listed' \in Seq(Rows) /\ Len(listed') = n + kept
      /\ \A i \in 1..n : listed'[i] = listed[i]
      /\ \A i \in (n + 1)..(n + kept) : i - n \in 1..kept /\ listed'[i] = s[i - n]
      /\ \A i \in 1..kept : n + i \in 1..(n + kept) /\ listed'[n + i] = s[i]
  <2>1. SubSeq(s, 1, kept) \in Seq(Rows) /\ Len(SubSeq(s, 1, kept)) = kept
        /\ \A i \in 1..kept : SubSeq(s, 1, kept)[i] = s[i]
    BY <1>3, <1>4
  <2> DEFINE p == SubSeq(s, 1, kept)
  <2> HIDE DEF p
  <2>2. p \in Seq(Rows) /\ Len(p) = kept /\ \A i \in 1..kept : p[i] = s[i]
    BY <2>1 DEF p
  <2>3. listed' = listed \o p
    BY <1>4 DEF p
  <2> QED BY <1>4, <1>5, <2>2, <2>3
<1>8. kept \in Nat /\ kept <= Len(s)
  BY <1>4
<1> HIDE DEF n
<1>9. Ascending(listed')
  <2> SUFFICES ASSUME NEW i \in 1..(n + kept), NEW j \in 1..(n + kept), i < j
               PROVE  listed'[i][1] < listed'[j][1]
    BY <1>7 DEF Ascending
  <2>1. CASE j <= n
    <3>1. i \in 1..n /\ j \in 1..n
      BY <1>5, <2>1
    <3> QED BY <1>5, <1>7, <3>1 DEF Ascending, n
  <2>2. CASE i <= n /\ j > n
    <3>1. i \in 1..n /\ j \in (n + 1)..(n + kept)
      BY <1>5, <1>8, <2>2
    <3>2. j - n \in 1..kept /\ j - n \in 1..Len(s)
      BY <1>7, <1>8, <3>1
    <3>3. listed'[i][1] <= cursor /\ listed'[i][1] \in Nat /\ listed'[j] = s[j - n]
      BY <1>5, <1>7, <3>1
    <3> QED BY <1>1, <1>3, <1>6, <3>2, <3>3
  <2>3. CASE i > n
    <3>1. i \in (n + 1)..(n + kept) /\ j \in (n + 1)..(n + kept)
      BY <1>5, <1>8, <2>3
    <3>2. i - n \in 1..Len(s) /\ j - n \in 1..Len(s) /\ i - n < j - n
      BY <1>5, <1>7, <1>8, <3>1
    <3>3. listed'[i] = s[i - n] /\ listed'[j] = s[j - n]
      BY <1>7, <3>1
    <3> QED BY <1>3, <3>2, <3>3 DEF Ascending
  <2> QED BY <1>5, <1>8, <2>1, <2>2, <2>3
<1>10. cursor' # Ended => \A i \in 1..(n + kept) : listed'[i][1] <= cursor'
  <2> SUFFICES ASSUME cursor' # Ended, NEW i \in 1..(n + kept) PROVE listed'[i][1] <= cursor'
    OBVIOUS
  <2>1. kept \in 1..Len(s) /\ cursor' = s[kept][1]
    BY <1>4
  <2>2. CASE i <= n
    <3>1. i \in 1..n
      BY <2>2
    <3>2. listed'[i][1] <= cursor /\ listed'[i][1] \in Nat
      BY <1>5, <1>7, <3>1
    <3>3. s[kept][1] > cursor /\ s[kept][1] \in Nat
      BY <1>3, <1>6, <2>1
    <3> QED BY <1>1, <2>1, <3>2, <3>3
  <2>3. CASE i > n
    <3>1. i \in (n + 1)..(n + kept)
      BY <1>5, <1>8, <2>3
    <3>2. i - n \in 1..Len(s) /\ i - n <= kept /\ listed'[i] = s[i - n]
      BY <1>7, <1>8, <3>1
    <3>3. s[i - n][1] <= s[kept][1]
      <4>1. CASE i - n = kept
        BY <1>6, <2>1, <4>1
      <4>2. CASE i - n < kept
        BY <1>3, <1>6, <2>1, <3>2, <4>2 DEF Ascending
      <4> QED BY <1>5, <1>8, <3>2, <4>1, <4>2
    <3> QED BY <2>1, <3>2, <3>3
  <2> QED BY <1>5, <1>8, <2>2, <2>3
<1>11. \A m \in stayed : cursor' = Ended \/ m <= cursor' =>
                           \E i \in 1..(n + kept) : listed'[i][1] = m
  <2> SUFFICES ASSUME NEW m \in stayed, cursor' = Ended \/ m <= cursor'
               PROVE  \E i \in 1..(n + kept) : listed'[i][1] = m
    OBVIOUS
  <2>1. m \in ThereNow /\ m \in Nat
    BY <1>1, <1>2, PageBounds DEF RowsWalked, PagesOK, ThereNow
  <2>2. CASE m <= cursor
    <3>1. PICK i \in 1..n : listed[i][1] = m
      BY <1>1, <1>2, <2>2 DEF RowsWalked, n
    <3>2. i \in 1..(n + kept) /\ listed'[i] = listed[i]
      BY <1>5, <1>7, <1>8, <3>1
    <3> QED BY <3>1, <3>2
  <2>3. CASE m > cursor
    <3>1. PICK i \in 1..Len(s) : s[i][1] = m
      BY <1>3, <2>1, <2>3
    <3>2. i \in 1..kept
      <4>1. CASE cursor' = Ended
        <5>1. kept = Len(s)
          BY <1>4, <1>6, <4>1, PageBounds
        <5> QED BY <5>1
      <4>2. CASE cursor' # Ended
        <5>1. kept \in 1..Len(s) /\ cursor' = s[kept][1]
          BY <1>4, <4>2
        <5>2. m <= s[kept][1]
          BY <4>2, <5>1
        <5>3. ~(kept < i)
          BY <1>3, <1>6, <3>1, <5>1, <5>2 DEF Ascending
        <5> QED BY <5>1, <5>3
      <4> QED BY <4>1, <4>2
    <3> QED BY <1>7, <3>1, <3>2
  <2> QED BY <1>1, <2>1, <2>2, <2>3
<1>12. PagesOK'
  <2>1. cursor' \in Nat \union {Ended}
    BY <1>4, <1>6
  <2>2. kind # Ended
    BY <1>1, PageBounds
  <2> QED BY <1>1, <1>2, <2>1, <2>2 DEF PagesOK
<1>13. RowsWalked'
  <2>1. stayed' \subseteq ThereNow'
    BY <1>1, <1>2 DEF RowsWalked, ThereNow
  <2> QED BY <1>1, <1>7, <1>9, <1>10, <1>11, <2>1 DEF RowsWalked
<1>14. TextWalked'
  BY <1>1 DEF TextWalked
<1> QED BY <1>12, <1>13, <1>14 DEF WalkInv

LEMMA TextKeepsWalk ==
  ASSUME WalkInv, NEW size \in PageSizes, ReadPage(size)
  PROVE  WalkInv'
<1>1. /\ kind = "text" /\ cursor # Ended /\ cursor \in Nat
      /\ UNCHANGED <<docs, edges, body, kind, stayed>>
  BY DEF ReadPage, WalkInv, PagesOK
<1> DEFINE T == Shown(body)
<1>2. PICK S : T \in Seq(S)
  BY ShownInOrder DEF WalkInv, PagesOK
<1>3. Shown(body)' = T
  BY <1>1
<1>4. PICK fits \in 1..size :
        /\ listed' = listed \o SubSeq(T, cursor + 1, Min({cursor + fits, Len(T)}))
        /\ cursor' = IF cursor + fits < Len(T) THEN cursor + fits ELSE Ended
  BY DEF ReadPage, PageShown, PageText
<1>5. size \in Nat /\ fits \in Nat /\ Len(T) \in Nat /\ cursor + fits \in Nat
  BY <1>1, <1>2, PageBounds
<1> HIDE DEF T
<1>6. PagesOK'
  <2>1. cursor' \in Nat \union {Ended}
    BY <1>4, <1>5
  <2> QED BY <1>1, <2>1, PageBounds DEF WalkInv, PagesOK
<1>7. ASSUME stayed # {}
      PROVE  IF cursor' = Ended THEN listed' = T
             ELSE cursor' <= Len(T) /\ listed' = SubSeq(T, 1, cursor')
  <2>1. cursor <= Len(T) /\ listed = SubSeq(T, 1, cursor)
    BY <1>1, <1>7 DEF WalkInv, TextWalked, T
  <2> DEFINE e == Min({cursor + fits, Len(T)})
  <2>2. e \in Nat /\ cursor <= e /\ e <= Len(T) /\ (e = cursor + fits \/ e = Len(T)) /\ e <= cursor + fits
    BY <1>1, <1>5, <2>1, LesserOfTwo
  <2>3. listed' = SubSeq(T, 1, cursor) \o SubSeq(T, cursor + 1, e)
    BY <1>4, <2>1
  <2> HIDE DEF e
  <2>4. listed' = SubSeq(T, 1, e)
    BY <1>1, <1>2, <2>2, <2>3
  <2>5. CASE cursor + fits < Len(T)
    <3>1. cursor' = cursor + fits /\ cursor' # Ended /\ e = cursor + fits
      BY <1>4, <1>5, <2>2, <2>5, PageBounds
    <3> QED BY <2>2, <2>4, <3>1
  <2>6. CASE ~(cursor + fits < Len(T))
    <3>1. cursor' = Ended /\ e = Len(T)
      BY <1>4, <1>5, <2>2, <2>6
    <3>2. SubSeq(T, 1, Len(T)) = T
      BY <1>2
    <3> QED BY <2>4, <3>1, <3>2
  <2> QED BY <2>5, <2>6
<1>8. TextWalked'
  BY <1>1, <1>3, <1>7 DEF TextWalked
<1>9. RowsWalked'
  BY <1>1 DEF RowsWalked
<1> QED BY <1>6, <1>8, <1>9 DEF WalkInv

LEMMA WalkStep == WalkInv /\ [PagesNext]_pageVars => WalkInv'
<1> SUFFICES ASSUME WalkInv, [PagesNext]_pageVars PROVE WalkInv'
  OBVIOUS
<1>1. CASE \E k \in {"docs", "edges", "text"} : StartWalk(k)
  BY <1>1, FirstPage
<1>2. CASE \/ \E k \in Keys : SetReference(k) \/ DeleteReference(k)
           \/ \E e \in EdgeNumbers, dir \in {"out", "in", "loop"} : AddEdge(e, dir)
           \/ \E e \in EdgeNumbers : RemoveEdge(e)
           \/ \E t \in Texts : RewriteBody(t)
  BY <1>2, OthersKeepWalk
<1>3. CASE \E limit \in Limits : ListPage(limit)
  BY <1>3, PageKeepsWalk
<1>4. CASE \E size \in PageSizes : ReadPage(size)
  BY <1>4, TextKeepsWalk
<1>5. CASE RefuseCursor \/ UNCHANGED pageVars
  <2>1. UNCHANGED <<docs, edges, body, kind, cursor, listed, stayed>>
    BY <1>5 DEF RefuseCursor, pageVars
  <2>2. ThereNow' = ThereNow /\ Shown(body)' = Shown(body)
    BY <2>1 DEF ThereNow
  <2>3. PagesOK' /\ RowsWalked'
    BY <2>1, <2>2 DEF WalkInv, PagesOK, RowsWalked, Ascending
  <2>4. TextWalked'
    BY <2>1, <2>2 DEF WalkInv, TextWalked
  <2> QED BY <2>3, <2>4 DEF WalkInv
<1> QED BY <1>1, <1>2, <1>3, <1>4, <1>5 DEF PagesNext

\* Rows in ascending order are each there once.
LEMMA AscendingOnce ==
  ASSUME listed \in Seq(Rows), Ascending(listed), NEW i \in 1..Len(listed)
  PROVE  Times(listed[i][1]) = 1
<1>1. \A j, k \in 1..Len(listed) : listed[j][1] \in Nat /\ (j < k => listed[j][1] < listed[k][1])
  BY DEF Ascending, Rows
<1>2. DOMAIN listed = 1..Len(listed) /\ Len(listed) \in Nat
  OBVIOUS
<1>3. {j \in DOMAIN listed : listed[j][1] = listed[i][1]} = {i}
  <2> SUFFICES ASSUME NEW j \in 1..Len(listed), listed[j][1] = listed[i][1] PROVE j = i
    BY <1>2
  <2>1. ~(j < i) /\ ~(i < j)
    BY <1>1
  <2> QED BY <1>2, <2>1
<1> QED BY <1>3, FS_Singleton DEF Times

\* Pages miss nothing: for any lists, edges and texts, limits, cuts to the budget
\* and writes between the pages, what stays through a walk is listed once by its
\* end, and the pages of a text nobody rewrote are the text (WalksComplete;
\* memory_list_references, memory_neighbors, memory_get_reference).
THEOREM PagesMissNothing == PagesSpec => []WalksComplete
<1>1. WalkInv => WalksComplete
  <2> SUFFICES ASSUME WalkInv PROVE WalksComplete
    OBVIOUS
  <2>1. ASSUME kind \in {"docs", "edges"} PROVE ListedOnce
    <3>1. /\ listed \in Seq(Rows) /\ Ascending(listed)
          /\ cursor = Ended => \A n \in stayed : \E i \in 1..Len(listed) : listed[i][1] = n
      BY <2>1 DEF WalkInv, RowsWalked
    <3>2. \A i \in 1..Len(listed) : Times(listed[i][1]) = 1
      BY <3>1, AscendingOnce
    <3>3. cursor = Ended => \A n \in stayed : Times(n) = 1
      BY <3>1, <3>2
    <3>4. DOMAIN listed = 1..Len(listed)
      BY <3>1
    <3> QED BY <3>2, <3>3, <3>4 DEF ListedOnce
  <2>2. kind = "text" /\ cursor = Ended /\ stayed # {} => listed = Shown(body)
    BY DEF WalkInv, TextWalked
  <2> QED BY <2>1, <2>2 DEF WalksComplete
<1>2. QED
  BY WalkStart, WalkStep, <1>1, PTL DEF PagesSpec
-----------------------------------------------------------------------------
(* The LangGraph store implements the abstract one: an item is a row with   *)
(* its category split, a put takes effect at its COMMIT, a read at its      *)
(* SELECT.                                                                  *)

LEMMA LesserOf ==
  ASSUME NEW a \in Int, NEW b \in Int
  PROVE  Min({a, b}) = IF a <= b THEN a ELSE b
  BY DEF Min

LEMMA GreaterOf ==
  ASSUME NEW a \in Int, NEW b \in Int
  PROVE  Max({a, b}) = IF a >= b THEN a ELSE b
  BY DEF Max

LEMMA SequenceOf ==
  ASSUME NEW s, IsSequence(s)
  PROVE  /\ DOMAIN s = 1..Len(s) /\ Len(s) \in Nat
         /\ s = [i \in 1..Len(s) |-> s[i]]
  BY DEF IsSequence

\* A set of numbers has a smallest one above any bound it stays below.
LEMMA Smallest ==
  ASSUME NEW n \in Nat, NEW B, B \subseteq 1..n, B # {}
  PROVE  \E i \in B : \A j \in B : i <= j
<1> DEFINE C == {n - i : i \in B}
<1>1. C \in SUBSET (0..n) /\ C # {}
  <2>1. \A i \in B : i \in 1..n /\ n - i \in 0..n
    OBVIOUS
  <2> QED BY <2>1
<1>2. IsFiniteSet(0..n)
  BY FS_Interval
<1> HIDE DEF C
<1>3. IsFiniteSet(C) /\ C \subseteq Nat
  <2>1. IsFiniteSet(C)
    BY <1>1, <1>2, FS_Subset
  <2> QED BY <1>1, <2>1
<1>4. Max(C) \in C /\ \A x \in C : x <= Max(C)
  BY <1>1, <1>3, Largest
<1> USE DEF C
<1>5. PICK i \in B : n - i = Max(C)
  BY <1>4
<1>6. \A j \in B : n - j <= n - i
  BY <1>4, <1>5
<1> QED BY <1>5, <1>6

\* A namespace of elements without slashes, joined.
Joined(ns) == [i \in 1..Len(ns) |-> ns[i][1]]
Plainly(ns) == IsNamespace(ns) /\ \A i \in DOMAIN ns : ElementOK(ns[i])

LEMMA JoinsElements ==
  ASSUME NEW ns, Plainly(ns)
  PROVE  Encode(ns) = Joined(ns)
<1> DEFINE n == Len(ns)
           g == [i \in 1..n |-> [j \in 1..i |-> ns[j][1]]]
           f == CHOOSE h : h = [i \in 1..n |-> IF i = 1 THEN ns[i] ELSE h[i - 1] \o ns[i]]
<1>1. /\ DOMAIN ns = 1..n /\ n \in Nat
  BY SequenceOf DEF Plainly, IsNamespace
<1>2. \A i \in 1..n : Len(ns[i]) = 1 /\ ns[i] = <<ns[i][1]>>
  <2> SUFFICES ASSUME NEW i \in 1..n PROVE Len(ns[i]) = 1 /\ ns[i] = <<ns[i][1]>>
    OBVIOUS
  <2>1. Len(ns[i]) = 1 /\ IsSequence(ns[i])
    BY <1>1 DEF Plainly, IsNamespace, ElementOK
  <2>2. ns[i] \in Seq({ns[i][j] : j \in DOMAIN ns[i]})
    BY <2>1 DEF IsSequence
  <2> QED BY <2>1, <2>2
<1>3. g = [i \in 1..n |-> IF i = 1 THEN ns[i] ELSE g[i - 1] \o ns[i]]
  <2>1. \A i \in 1..n : g[i] = IF i = 1 THEN ns[i] ELSE g[i - 1] \o ns[i]
    <3> SUFFICES ASSUME NEW i \in 1..n PROVE g[i] = IF i = 1 THEN ns[i] ELSE g[i - 1] \o ns[i]
      OBVIOUS
    <3>1. CASE i = 1
      BY <1>2, <3>1
    <3>2. CASE i # 1
      <4>1. i - 1 \in 1..n /\ g[i - 1] = [j \in 1..(i - 1) |-> ns[j][1]] /\ g[i] = [j \in 1..i |-> ns[j][1]]
        BY <3>2
      <4>2. [j \in 1..(i - 1) |-> ns[j][1]] \o <<ns[i][1]>> = [j \in 1..i |-> ns[j][1]]
        <5> DEFINE p == [j \in 1..(i - 1) |-> ns[j][1]]
                   S == {ns[j][1] : j \in 1..n}
        <5>1. p \in Seq(S) /\ Len(p) = i - 1
          BY <4>1
        <5>2. <<ns[i][1]>> \in Seq(S) /\ Len(<<ns[i][1]>>) = 1
          OBVIOUS
        <5>3. \A j \in 1..(i - 1) : p[j] = ns[j][1]
          OBVIOUS
        <5> HIDE DEF p, S
        <5>4. DOMAIN (p \o <<ns[i][1]>>) = 1..i
          BY <5>1, <5>2, <4>1
        <5>5. \A j \in 1..i : (p \o <<ns[i][1]>>)[j] = ns[j][1]
          BY <5>1, <5>2, <5>3, <4>1
        <5>6. (p \o <<ns[i][1]>>) = [j \in 1..i |-> (p \o <<ns[i][1]>>)[j]]
          BY <5>1, <5>2, <4>1
        <5>7. (p \o <<ns[i][1]>>) = [j \in 1..i |-> ns[j][1]]
          BY <5>5, <5>6
        <5> QED BY <5>7 DEF p
      <4> QED BY <1>2, <3>2, <4>1, <4>2
    <3> QED BY <3>1, <3>2
  <2> HIDE DEF g
  <2>2. g = [i \in 1..n |-> g[i]]
    BY DEF g
  <2> QED BY <2>1, <2>2
<1>4. f = [i \in 1..n |-> IF i = 1 THEN ns[i] ELSE f[i - 1] \o ns[i]]
  <2> HIDE DEF n, g
  <2> QED BY <1>3
<1>5. \A i \in 1..n : f[i] = g[i]
  <2> DEFINE B == {i \in 1..n : f[i] # g[i]}
  <2> HIDE DEF f, g
  <2> SUFFICES ASSUME B # {} PROVE FALSE
    OBVIOUS
  <2>1. PICK i \in B : \A j \in B : i <= j
    <3>1. B \subseteq 1..n
      OBVIOUS
    <3> HIDE DEF B, n
    <3> QED BY <1>1, <3>1, Smallest
  <2>2. CASE i = 1
    BY <1>3, <1>4, <2>1, <2>2
  <2>3. CASE i # 1
    <3>1. i - 1 \in 1..n /\ i - 1 \notin B
      BY <1>1, <2>1, <2>3
    <3>2. f[i - 1] = g[i - 1]
      BY <3>1
    <3>3. i \in 1..n /\ f[i] # g[i]
      BY <2>1
    <3>4. f[i] = f[i - 1] \o ns[i]
      BY <1>4, <2>3, <3>3
    <3>5. g[i] = g[i - 1] \o ns[i]
      BY <1>3, <2>3, <3>3
    <3> QED BY <3>2, <3>3, <3>4, <3>5
  <2> QED BY <2>2, <2>3
<1>6. CASE n = 0
  <2>1. Encode(ns) = ns
    BY <1>6 DEF Encode, FlattenSeq
  <2>2. Joined(ns) = <<>> /\ ns = <<>>
    BY <1>1, <1>6, SequenceOf DEF Joined, Plainly, IsNamespace
  <2> QED BY <2>1, <2>2
<1>7. CASE n # 0
  <2>1. Encode(ns) = f[n]
    BY <1>7 DEF Encode, FlattenSeq
  <2>2. n \in 1..n
    BY <1>1, <1>7
  <2>3. g[n] = Joined(ns)
    BY <2>2 DEF Joined
  <2> HIDE DEF f, g, n
  <2> QED BY <1>5, <2>1, <2>2, <2>3
<1> QED BY <1>6, <1>7

LEMMA DecodesBack ==
  ASSUME NEW ns, Plainly(ns), NEW cat, IsSequence(cat)
  PROVE  Decode(cat) = ns <=> cat = Encode(ns)
<1>1. /\ DOMAIN ns = 1..Len(ns) /\ Len(ns) \in Nat /\ ns = [i \in 1..Len(ns) |-> ns[i]]
      /\ DOMAIN cat = 1..Len(cat) /\ Len(cat) \in Nat /\ cat = [i \in 1..Len(cat) |-> cat[i]]
  BY SequenceOf DEF Plainly, IsNamespace
<1>2. \A i \in 1..Len(ns) : ns[i] = <<ns[i][1]>>
  <2> SUFFICES ASSUME NEW i \in 1..Len(ns) PROVE ns[i] = <<ns[i][1]>>
    OBVIOUS
  <2>1. Len(ns[i]) = 1 /\ ns[i] \in Seq({ns[i][j] : j \in DOMAIN ns[i]})
    BY <1>1 DEF Plainly, IsNamespace, ElementOK, IsSequence
  <2> QED BY <2>1
<1>3. Encode(ns) = [i \in 1..Len(ns) |-> ns[i][1]]
  BY JoinsElements DEF Joined
<1>4. Decode(cat) = [i \in 1..Len(cat) |-> <<cat[i]>>]
  BY <1>1 DEF Decode
<1>5. ASSUME Decode(cat) = ns PROVE cat = Encode(ns)
  <2>1. 1..Len(cat) = 1..Len(ns)
    BY <1>1, <1>4, <1>5
  <2>2. \A i \in 1..Len(ns) : cat[i] = ns[i][1]
    BY <1>4, <1>5, <2>1
  <2> QED BY <1>1, <1>3, <2>1, <2>2
<1>6. ASSUME cat = Encode(ns) PROVE Decode(cat) = ns
  <2>1. 1..Len(cat) = 1..Len(ns)
    BY <1>1, <1>3, <1>6
  <2>2. \A i \in 1..Len(ns) : cat[i] = ns[i][1]
    BY <1>3, <1>6
  <2>3. \A i \in 1..Len(ns) : Decode(cat)[i] = ns[i]
    BY <1>2, <1>4, <2>1, <2>2
  <2> QED BY <1>1, <1>4, <2>1, <2>3
<1> QED BY <1>5, <1>6

LEMMA EncodesSequence ==
  ASSUME NEW ns, Plainly(ns)
  PROVE  IsSequence(Encode(ns))
<1>1. Len(ns) \in Nat
  BY SequenceOf DEF Plainly, IsNamespace
<1>2. Encode(ns) = [i \in 1..Len(ns) |-> ns[i][1]]
  BY JoinsElements DEF Joined
<1> QED BY <1>1, <1>2 DEF IsSequence

\* Rows and items correspond one to one.
ItemsOf(R) == {ItemOf(r) : r \in R}
Unique(R) == \A x, y \in R : x.cat = y.cat /\ x.key = y.key => x = y
TableOf(R) == IsFiniteSet(R) /\ Unique(R) /\ \A r \in R : IsRow(r)

LEMMA ItemsApart ==
  ASSUME NEW r, IsRow(r), NEW o, IsRow(o), ItemOf(r) = ItemOf(o)
  PROVE  r = o
<1>1. Decode(r.cat) = Decode(o.cat) /\ r.key = o.key /\ r.value = o.value
  BY DEF ItemOf
<1>2. /\ DOMAIN r.cat = 1..Len(r.cat) /\ r.cat = [i \in 1..Len(r.cat) |-> r.cat[i]]
      /\ DOMAIN o.cat = 1..Len(o.cat) /\ o.cat = [i \in 1..Len(o.cat) |-> o.cat[i]]
  BY SequenceOf DEF IsRow
<1>3. DOMAIN r.cat = DOMAIN o.cat
  BY <1>1 DEF Decode
<1>4. \A i \in DOMAIN r.cat : <<r.cat[i]>> = <<o.cat[i]>>
  <2> SUFFICES ASSUME NEW i \in DOMAIN r.cat PROVE <<r.cat[i]>> = <<o.cat[i]>>
    OBVIOUS
  <2>1. Decode(r.cat)[i] = <<r.cat[i]>> /\ Decode(o.cat)[i] = <<o.cat[i]>>
    BY <1>3 DEF Decode
  <2> QED BY <1>1, <2>1
<1>5. \A i \in DOMAIN r.cat : r.cat[i] = o.cat[i]
  BY <1>4
<1>6. r.cat = o.cat
  BY <1>2, <1>3, <1>5
<1> QED BY <1>1, <1>6 DEF IsRow

LEMMA AsManyItems ==
  ASSUME NEW R, IsFiniteSet(R), \A r \in R : IsRow(r)
  PROVE  /\ IsFiniteSet(ItemsOf(R)) /\ Cardinality(ItemsOf(R)) = Cardinality(R)
         /\ Cardinality(R) \in Nat
<1> DEFINE f == [r \in R |-> ItemOf(r)]
<1>1. f \in Surjection(R, ItemsOf(R))
  BY DEF Surjection, ItemsOf
<1>2. f \in Injection(R, ItemsOf(R))
  BY ItemsApart DEF Injection, IsInjective, ItemsOf
<1> HIDE DEF f
<1> QED BY <1>1, <1>2, FS_Surjection, FS_CardinalityType

LEMMA SameItems ==
  ASSUME NEW R, NEW S, \A r \in R \union S : IsRow(r), ItemsOf(R) = ItemsOf(S)
  PROVE  R = S
<1>1. \A r \in R : r \in S
  <2> SUFFICES ASSUME NEW r \in R PROVE r \in S
    OBVIOUS
  <2>1. PICK o \in S : ItemOf(r) = ItemOf(o)
    BY DEF ItemsOf
  <2> QED BY <2>1, ItemsApart
<1>2. \A r \in S : r \in R
  <2> SUFFICES ASSUME NEW r \in S PROVE r \in R
    OBVIOUS
  <2>1. PICK o \in R : ItemOf(r) = ItemOf(o)
    BY DEF ItemsOf
  <2> QED BY <2>1, ItemsApart
<1> QED BY <1>1, <1>2

RowsNamed(R, ns, key) == {r \in R : r.cat = Encode(ns) /\ r.key = key}
ItemsNamed(I, ns, key) == {x \in I : x.ns = ns /\ x.key = key}
AfterPut(R, op) ==
  Without(R, Encode(op.ns), op.key) \union
    (IF op.value = Nothing THEN {}
     ELSE {[cat |-> Encode(op.ns), key |-> op.key, value |-> op.value]})

LEMMA NamesItems ==
  ASSUME NEW R, \A r \in R : IsRow(r), NEW ns, Plainly(ns), NEW key
  PROVE  ItemsNamed(ItemsOf(R), ns, key) = ItemsOf(RowsNamed(R, ns, key))
<1>1. \A r \in R : ItemOf(r).ns = ns <=> r.cat = Encode(ns)
  BY DecodesBack DEF ItemOf, IsRow
<1>2. \A r \in R : ItemOf(r).key = r.key
  BY DEF ItemOf
<1> QED BY <1>1, <1>2 DEF ItemsNamed, ItemsOf, RowsNamed

LEMMA PutsItem ==
  ASSUME NEW R, TableOf(R), NEW op, Plainly(op.ns)
  PROVE  /\ TableOf(AfterPut(R, op))
         /\ ItemsOf(AfterPut(R, op)) =
              (ItemsOf(R) \ ItemsNamed(ItemsOf(R), op.ns, op.key)) \union
                (IF op.value = Nothing THEN {}
                 ELSE {[ns |-> op.ns, key |-> op.key, value |-> op.value]})
<1> DEFINE new == [cat |-> Encode(op.ns), key |-> op.key, value |-> op.value]
           rest == Without(R, Encode(op.ns), op.key)
<1>1. IsRow(new) /\ ItemOf(new) = [ns |-> op.ns, key |-> op.key, value |-> op.value]
  <2>1. IsSequence(Encode(op.ns))
    BY EncodesSequence
  <2>2. Decode(Encode(op.ns)) = op.ns
    BY <2>1, DecodesBack
  <2> QED BY <2>1, <2>2 DEF IsRow, ItemOf
<1>2. rest \subseteq R /\ \A r \in rest : ~(r.cat = new.cat /\ r.key = new.key)
  BY DEF Without
<1>3. TableOf(rest) /\ TableOf(rest \union {new})
  <2>1. IsFiniteSet(rest) /\ IsFiniteSet(rest \union {new})
    <3>1. IsFiniteSet(rest)
      BY <1>2, FS_Subset DEF TableOf
    <3> QED BY <3>1, FS_AddElement
  <2>2. Unique(rest) /\ Unique(rest \union {new})
    <3> HIDE DEF new, rest
    <3> QED BY <1>2 DEF TableOf, Unique
  <2>3. \A r \in rest \union {new} : IsRow(r)
    BY <1>1, <1>2 DEF TableOf
  <2> QED BY <2>1, <2>2, <2>3 DEF TableOf
<1>4. ItemsOf(rest) = ItemsOf(R) \ ItemsNamed(ItemsOf(R), op.ns, op.key)
  <2>1. \A r \in R : ItemOf(r).ns = op.ns <=> r.cat = Encode(op.ns)
    BY DecodesBack DEF ItemOf, IsRow, TableOf
  <2>2. \A r \in R : ItemOf(r).key = r.key
    BY DEF ItemOf
  <2>3. \A r \in R : r \in rest <=> ~(ItemOf(r).ns = op.ns /\ ItemOf(r).key = op.key)
    BY <2>1, <2>2 DEF Without
  <2> HIDE DEF rest
  <2> QED BY <1>2, <2>3 DEF ItemsOf, ItemsNamed
<1>5. ItemsOf(rest \union {new}) = ItemsOf(rest) \union {ItemOf(new)}
  BY DEF ItemsOf
<1>6. CASE op.value = Nothing
  <2>1. AfterPut(R, op) = rest
    BY <1>6 DEF AfterPut
  <2> QED BY <1>3, <1>4, <1>6, <2>1
<1>7. CASE op.value # Nothing
  <2>1. AfterPut(R, op) = rest \union {new}
    BY <1>7 DEF AfterPut
  <2> HIDE DEF rest, new
  <2> QED BY <1>1, <1>3, <1>4, <1>5, <1>7, <2>1
<1> QED BY <1>6, <1>7

-----------------------------------------------------------------------------
Validated(t) == \A i \in DOMAIN ops[t] : ops[t][i].kind = "put" => PutOK(ops[t][i])
CallsOK ==
  /\ thread \in [StoreThreads -> {"idle", "validate", "op", "write", "commit", "readback",
                                  "raised", "returned"}]
  /\ ops = [t \in StoreThreads |-> ops[t]] /\ results = [t \in StoreThreads |-> results[t]]
  /\ \A t \in StoreThreads :
       /\ IsSequence(results[t])
       /\ thread[t] # "idle" => ops[t] \in Batches
       /\ thread[t] \in {"op", "write", "commit", "readback"} => Validated(t)

\* The thread that writes has the lock, and its draft is the committed rows
\* with its put: nobody else writes meanwhile.
Writing(t) == thread[t] \in {"write", "commit"}
DraftOK ==
  \A t \in StoreThreads : Writing(t) =>
    /\ writeLock = t /\ Len(results[t]) < Len(ops[t]) /\ Op(t).kind = "put"
    /\ draft = IF thread[t] = "write" THEN entities ELSE AfterPut(entities, Op(t))

KvInv == TableOf(entities) /\ CallsOK /\ DraftOK

LEMMA KvStart == StoreInit => KvInv
<1> SUFFICES ASSUME StoreInit PROVE KvInv
  OBVIOUS
<1>1. TableOf(entities)
  <2>1. IsFiniteSet(entities)
    BY CallsAndRows, FS_Subset DEF StoreInit
  <2> QED BY <2>1, CallsAndRows DEF StoreInit, TableOf, Unique
<1>2. CallsOK
  <2>1. IsSequence(<<>>)
    BY DEF IsSequence
  <2> QED BY <2>1 DEF StoreInit, CallsOK
<1>3. DraftOK
  BY DEF StoreInit, DraftOK, Writing
<1> QED BY <1>1, <1>2, <1>3 DEF KvInv

\* A thread in a batch: its operations, and the one it works on.
LEMMA AtAnOp ==
  ASSUME CallsOK, NEW t \in StoreThreads, thread[t] # "idle"
  PROVE  /\ ops[t] \in Batches /\ DOMAIN ops[t] = 1..Len(ops[t]) /\ Len(ops[t]) \in Nat
         /\ Len(results[t]) \in Nat
         /\ Len(results[t]) < Len(ops[t]) =>
              /\ Len(results[t]) + 1 \in DOMAIN ops[t] /\ IsOp(Op(t))
              /\ thread[t] # "validate" /\ Validated(t) /\ Op(t).kind = "put" => Plainly(Op(t).ns)
<1>1. ops[t] \in Batches /\ IsSequence(ops[t]) /\ \A i \in DOMAIN ops[t] : IsOp(ops[t][i])
  BY CallsAndRows DEF CallsOK
<1>2. DOMAIN ops[t] = 1..Len(ops[t]) /\ Len(ops[t]) \in Nat /\ Len(results[t]) \in Nat
  BY <1>1, SequenceOf DEF CallsOK
<1>3. ASSUME Len(results[t]) < Len(ops[t])
      PROVE  /\ Len(results[t]) + 1 \in DOMAIN ops[t] /\ IsOp(Op(t))
             /\ Validated(t) /\ Op(t).kind = "put" => Plainly(Op(t).ns)
  <2>1. Len(results[t]) + 1 \in DOMAIN ops[t]
    BY <1>2, <1>3
  <2>2. IsOp(Op(t))
    BY <1>1, <2>1 DEF Op
  <2>3. ASSUME Validated(t), Op(t).kind = "put" PROVE Plainly(Op(t).ns)
    <3>1. PutOK(Op(t))
      BY <2>1, <2>3 DEF Validated, Op
    <3>2. IsNamespace(Op(t).ns)
      BY <2>2, <2>3 DEF IsOp
    <3> QED BY <3>1, <3>2 DEF PutOK, NamespaceOK, Plainly
  <2> QED BY <2>1, <2>2, <2>3
<1> QED BY <1>1, <1>2, <1>3

LEMMA Appends ==
  ASSUME NEW s, IsSequence(s), NEW a
  PROVE  IsSequence(Append(s, a)) /\ Len(Append(s, a)) = Len(s) + 1
<1> DEFINE S == {s[i] : i \in DOMAIN s}
<1>1. s \in Seq(S \union {a}) /\ a \in S \union {a}
  BY DEF IsSequence
<1>2. /\ Append(s, a) \in Seq(S \union {a}) /\ Len(Append(s, a)) = Len(s) + 1
      /\ Len(s) \in Nat /\ DOMAIN s = 1..Len(s)
      /\ DOMAIN Append(s, a) = 1..(Len(s) + 1)
      /\ \A i \in 1..(Len(s) + 1) : Append(s, a)[i] = IF i = Len(s) + 1 THEN a ELSE s[i]
  <2> HIDE DEF S
  <2> QED BY <1>1
<1>3. {Append(s, a)[i] : i \in DOMAIN Append(s, a)} = S \union {a}
  <2>1. \A i \in DOMAIN Append(s, a) : Append(s, a)[i] \in S \union {a}
    BY <1>2
  <2>2. Append(s, a)[Len(s) + 1] = a /\ Len(s) + 1 \in DOMAIN Append(s, a)
    BY <1>2
  <2>3. \A i \in DOMAIN s : i \in DOMAIN Append(s, a) /\ Append(s, a)[i] = s[i]
    BY <1>2
  <2> QED BY <2>1, <2>2, <2>3
<1> QED BY <1>2, <1>3 DEF IsSequence

\* A step that only moves thread t, outside its transaction.
LEMMA MovesOn ==
  ASSUME KvInv, NEW t \in StoreThreads, NEW to \in {"op", "raised", "returned"},
         Goto(t, to), Stays, UNCHANGED <<ops, results>>, ~Writing(t), thread[t] # "idle",
         to = "op" => Validated(t)
  PROVE  KvInv'
<1>1. /\ thread' = [thread EXCEPT ![t] = to] /\ ops' = ops /\ results' = results
      /\ entities' = entities /\ writeLock' = writeLock /\ draft' = draft
  BY DEF Goto, Stays
<1>2. TableOf(entities)'
  BY <1>1 DEF KvInv
<1>3. CallsOK'
  BY <1>1 DEF KvInv, CallsOK, Validated
<1>4. DraftOK'
  <2> SUFFICES ASSUME NEW u \in StoreThreads, Writing(u)'
               PROVE  /\ thread'[u] = thread[u] /\ Writing(u)
    BY <1>1 DEF KvInv, DraftOK, Op, Writing
  <2> QED BY <1>1 DEF Writing, KvInv, CallsOK
<1> QED BY <1>2, <1>3, <1>4 DEF KvInv

\* Nobody writes while the lock is free, and only its holder otherwise.
LEMMA OneWriter ==
  ASSUME KvInv, NEW t \in StoreThreads, writeLock \in {t, Nothing}, NEW u \in StoreThreads, u # t
  PROVE  ~Writing(u)
BY StoreBounds DEF KvInv, DraftOK

LEMMA KvStep == KvInv /\ [StoreNext]_lgVars => KvInv'
<1> SUFFICES ASSUME KvInv, [StoreNext]_lgVars PROVE KvInv'
  OBVIOUS
<1>1. ASSUME NEW t \in StoreThreads, Call(t) PROVE KvInv'
  <2>1. PICK b \in Batches : ops' = [ops EXCEPT ![t] = b]
    BY <1>1 DEF Call
  <2>2. /\ thread[t] = "idle" /\ thread' = [thread EXCEPT ![t] = "validate"]
        /\ results' = results /\ entities' = entities /\ writeLock' = writeLock /\ draft' = draft
    BY <1>1 DEF Call, Goto, Stays
  <2>3. CallsOK'
    BY <2>1, <2>2 DEF KvInv, CallsOK, Validated
  <2>4. DraftOK'
    <3> SUFFICES ASSUME NEW u \in StoreThreads, Writing(u)'
                 PROVE  /\ thread'[u] = thread[u] /\ Writing(u) /\ ops'[u] = ops[u]
      BY <2>2 DEF KvInv, DraftOK, Op, Writing
    <3> QED BY <2>1, <2>2 DEF Writing, KvInv, CallsOK
  <2> QED BY <2>2, <2>3, <2>4 DEF KvInv
<1>2. ASSUME NEW t \in StoreThreads,
             Validate(t) \/ Finish(t) \/ GateRefused(t) \/ BadRead(t) \/ BadPut(t) \/ ReadBack(t)
      PROVE  KvInv'
  <2>1. CASE Validate(t)
    BY <2>1, MovesOn DEF Validate, Validated, Writing
  <2>2. CASE Finish(t)
    BY <2>2, MovesOn DEF Finish, Writing
  <2>3. CASE GateRefused(t) \/ BadRead(t) \/ BadPut(t)
    BY <2>3, MovesOn DEF GateRefused, BadRead, BadPut, AtOp, Writing
  <2>4. CASE ReadBack(t)
    <3>1. Validated(t) /\ ~Writing(t)
      BY <2>4 DEF ReadBack, KvInv, CallsOK, Writing
    <3> QED BY <2>4, <3>1, MovesOn DEF ReadBack
  <2> QED BY <1>2, <2>1, <2>2, <2>3, <2>4
<1>3. ASSUME NEW t \in StoreThreads, Get(t) \/ Search(t) \/ ListNamespaces(t) PROVE KvInv'
  <2>1. PICK a : Give(t, a)
    BY <1>3 DEF Get, Search, ListNamespaces
  <2>2. /\ thread[t] = "op" /\ thread' = thread /\ ops' = ops
        /\ results' = [results EXCEPT ![t] = Append(@, a)]
        /\ entities' = entities /\ writeLock' = writeLock /\ draft' = draft
    BY <1>3, <2>1 DEF Get, Search, ListNamespaces, AtOp, Stays, Give
  <2>3. CallsOK'
    <3>1. IsSequence(Append(results[t], a))
      BY Appends DEF KvInv, CallsOK
    <3> QED BY <2>2, <3>1 DEF KvInv, CallsOK, Validated
  <2>4. DraftOK'
    <3> SUFFICES ASSUME NEW u \in StoreThreads, Writing(u)'
                 PROVE  Writing(u) /\ results'[u] = results[u]
      BY <2>2 DEF KvInv, DraftOK, Op, Writing
    <3> QED BY <2>2 DEF Writing, KvInv, CallsOK
  <2> QED BY <2>2, <2>3, <2>4 DEF KvInv
<1>4. ASSUME NEW t \in StoreThreads, BeginPut(t) PROVE KvInv'
  <2>1. /\ thread[t] = "op" /\ thread' = [thread EXCEPT ![t] = "write"] /\ ops' = ops
        /\ results' = results /\ entities' = entities
        /\ writeLock = Nothing /\ writeLock' = t /\ draft' = entities
        /\ Len(results[t]) < Len(ops[t]) /\ Op(t).kind = "put"
    BY <1>4 DEF BeginPut, AtOp, Goto
  <2>2. CallsOK'
    BY <2>1 DEF KvInv, CallsOK, Validated
  <2>3. DraftOK'
    <3> SUFFICES ASSUME NEW u \in StoreThreads, Writing(u)'
                 PROVE  u = t /\ thread'[u] = "write"
      BY <2>1 DEF DraftOK, Op, Writing
    <3> QED BY <2>1, OneWriter DEF Writing, KvInv, CallsOK
  <2> QED BY <2>1, <2>2, <2>3 DEF KvInv
<1>5. ASSUME NEW t \in StoreThreads, Write(t) PROVE KvInv'
  <2>1. /\ thread[t] = "write" /\ thread' = [thread EXCEPT ![t] = "commit"] /\ ops' = ops
        /\ results' = results /\ entities' = entities /\ writeLock' = writeLock
    BY <1>5 DEF Write, Goto
  <2>2. /\ writeLock = t /\ Len(results[t]) < Len(ops[t]) /\ Op(t).kind = "put"
        /\ draft = entities
    BY <2>1 DEF KvInv, DraftOK, Writing
  <2>3. draft' = AfterPut(entities, Op(t))
    BY <1>5, <2>2 DEF Write, AfterPut
  <2>4. CallsOK'
    BY <2>1 DEF KvInv, CallsOK, Validated
  <2>5. DraftOK'
    <3> SUFFICES ASSUME NEW u \in StoreThreads, Writing(u)'
                 PROVE  u = t /\ thread'[u] = "commit"
      BY <2>1, <2>2, <2>3 DEF DraftOK, Op, Writing
    <3> QED BY <2>1, <2>2, OneWriter DEF Writing, KvInv, CallsOK
  <2> QED BY <2>1, <2>4, <2>5 DEF KvInv
<1>6. ASSUME NEW t \in StoreThreads, RollbackPut(t) PROVE KvInv'
  <2>1. /\ thread[t] = "commit" /\ thread' = [thread EXCEPT ![t] = "raised"] /\ ops' = ops
        /\ results' = results /\ entities' = entities
    BY <1>6 DEF RollbackPut, Goto
  <2>2. writeLock = t
    BY <2>1 DEF KvInv, DraftOK, Writing
  <2>3. CallsOK'
    BY <2>1 DEF KvInv, CallsOK, Validated
  <2>4. \A u \in StoreThreads : ~Writing(u)'
    BY <2>1, <2>2, OneWriter DEF Writing, KvInv, CallsOK
  <2> QED BY <2>1, <2>3, <2>4 DEF KvInv, DraftOK
<1>7. ASSUME NEW t \in StoreThreads, CommitPut(t) PROVE KvInv'
  <2>1. /\ thread[t] = "commit" /\ ops' = ops /\ entities' = draft
        /\ results' = [results EXCEPT ![t] = Append(@, Nothing)]
    BY <1>7 DEF CommitPut, Give
  <2>2. PICK to \in {"op", "readback"} : thread' = [thread EXCEPT ![t] = to]
    BY <1>7 DEF CommitPut, Goto
  <2>3. /\ writeLock = t /\ Len(results[t]) < Len(ops[t]) /\ Op(t).kind = "put"
        /\ draft = AfterPut(entities, Op(t)) /\ Validated(t)
    BY <2>1 DEF KvInv, DraftOK, Writing, CallsOK
  <2>4. Plainly(Op(t).ns)
    BY <2>1, <2>3, AtAnOp DEF KvInv
  <2>5. TableOf(entities)'
    BY <2>1, <2>3, <2>4, PutsItem DEF KvInv
  <2>6. CallsOK'
    <3>1. IsSequence(Append(results[t], Nothing))
      BY Appends DEF KvInv, CallsOK
    <3> QED BY <2>1, <2>2, <3>1 DEF KvInv, CallsOK, Validated
  <2>7. \A u \in StoreThreads : ~Writing(u)'
    BY <2>1, <2>2, <2>3, OneWriter DEF Writing, KvInv, CallsOK
  <2> QED BY <2>5, <2>6, <2>7 DEF KvInv, DraftOK
<1>8. ASSUME NEW x \in OtherRows, OtherProgram(x) PROVE KvInv'
  <2> DEFINE rest == {r \in entities : ~(r.cat = x.cat /\ r.key = x.key)}
  <2>1. /\ entities' \in {rest, rest \union {x}} /\ writeLock = Nothing
        /\ thread' = thread /\ ops' = ops /\ results' = results
    BY <1>8 DEF OtherProgram, agentVars
  <2>2. TableOf(rest) /\ TableOf(rest \union {x})
    <3>1. IsFiniteSet(rest)
      BY FS_Subset DEF KvInv, TableOf
    <3>2. IsFiniteSet(rest \union {x})
      BY <3>1, FS_AddElement
    <3>3. Unique(rest) /\ Unique(rest \union {x})
      BY DEF KvInv, TableOf, Unique
    <3>4. \A r \in rest \union {x} : IsRow(r)
      BY CallsAndRows DEF KvInv, TableOf
    <3> QED BY <3>1, <3>2, <3>3, <3>4 DEF TableOf
  <2>3. TableOf(entities)'
    <3> HIDE DEF rest
    <3> QED BY <2>1, <2>2
  <2>4. CallsOK'
    BY <2>1 DEF KvInv, CallsOK, Validated
  <2>5. \A u \in StoreThreads : ~Writing(u)'
    BY <2>1, StoreBounds DEF Writing, KvInv, DraftOK
  <2> QED BY <2>3, <2>4, <2>5 DEF KvInv, DraftOK
<1>9. CASE Die
  <2>1. /\ thread' = [t \in StoreThreads |-> IF AtWork(t) THEN "raised" ELSE thread[t]]
        /\ ops' = ops /\ results' = results /\ entities' = entities
    BY <1>9 DEF Die
  <2>2. CallsOK'
    BY <2>1 DEF KvInv, CallsOK, Validated, AtWork
  <2>3. \A u \in StoreThreads : ~Writing(u)'
    BY <2>1 DEF Writing, AtWork
  <2> QED BY <2>1, <2>2, <2>3 DEF KvInv, DraftOK
<1>10. CASE UNCHANGED lgVars
  BY <1>10 DEF lgVars, agentVars, KvInv, TableOf, CallsOK, DraftOK, Validated, Writing, Op, AfterPut
<1> QED BY <1>1, <1>2, <1>3, <1>4, <1>5, <1>6, <1>7, <1>8, <1>9, <1>10 DEF StoreNext, Step

-----------------------------------------------------------------------------
(* Every step of batch() is one of the abstract store's, or none.           *)

LEMMA DecodesApart ==
  ASSUME NEW a, IsSequence(a), NEW b, IsSequence(b), Decode(a) = Decode(b)
  PROVE  a = b
<1> DEFINE r == [cat |-> a, key |-> 0, value |-> 0]
           o == [cat |-> b, key |-> 0, value |-> 0]
<1>1. IsRow(r) /\ IsRow(o) /\ ItemOf(r) = ItemOf(o)
  BY DEF IsRow, ItemOf
<1>2. r = o /\ r.cat = a /\ o.cat = b
  <2> HIDE DEF r, o
  <2> QED BY <1>1, ItemsApart DEF r, o
<1> HIDE DEF r, o
<1> QED BY <1>2

LEMMA NamedPlainly ==
  ASSUME NEW ns, IsNamespace(ns), NamespaceOK(ns, FALSE)
  PROVE  Plainly(ns) /\ ns # <<>> /\ Store!Nameable(ns)
<1>1. Plainly(ns) /\ ns # <<>>
  BY DEF NamespaceOK, Plainly
<1>2. \A i \in DOMAIN ns : Len(ns[i]) = 1 /\ ns[i][1] \notin {"", ".."}
  <2> SUFFICES ASSUME NEW i \in DOMAIN ns PROVE Len(ns[i]) = 1 /\ ns[i][1] \notin {"", ".."}
    OBVIOUS
  <2>1. Len(ns[i]) = 1 /\ ns[i] # <<"">> /\ ns[i][1] # ".." /\ IsSequence(ns[i])
    BY DEF NamespaceOK, ElementOK, IsNamespace
  <2>2. ns[i] = <<ns[i][1]>>
    <3>1. ns[i] \in Seq({ns[i][j] : j \in DOMAIN ns[i]})
      BY <2>1 DEF IsSequence
    <3>2. Len(ns[i]) = 1
      BY <2>1
    <3> QED BY <3>1, <3>2
  <2>3. ns[i][1] # ""
    BY <2>1, <2>2
  <2> QED BY <2>1, <2>3
<1> QED BY <1>1, <1>2
      DEF Store!Nameable, Store!NameableElement, Store!Unnameable

LEMMA StartsAlike == StoreInit => Store!Init
<1> SUFFICES ASSUME StoreInit PROVE Store!Init
  OBVIOUS
<1>1. KvInv
  BY KvStart
<1>2. \A x, y \in {ItemOf(r) : r \in entities} : x.ns = y.ns /\ x.key = y.key => x = y
  <2> SUFFICES ASSUME NEW r \in entities, NEW o \in entities,
                      ItemOf(r).ns = ItemOf(o).ns, ItemOf(r).key = ItemOf(o).key
               PROVE  r = o
    OBVIOUS
  <2>1. IsSequence(r.cat) /\ IsSequence(o.cat)
    BY <1>1 DEF KvInv, TableOf, IsRow
  <2>2. Decode(r.cat) = Decode(o.cat) /\ r.key = o.key
    BY DEF ItemOf
  <2>3. r.cat = o.cat
    BY <2>1, <2>2, DecodesApart
  <2> QED BY <1>1, <2>2, <2>3 DEF KvInv, TableOf, Unique
<1>3. {ItemOf(r) : r \in entities} \in SUBSET {ItemOf(r) : r \in OtherRows}
  BY DEF StoreInit
<1>4. [t \in StoreThreads |-> IF AtWork(t) THEN "running" ELSE thread[t]]
        = [t \in StoreThreads |-> "idle"]
  BY DEF StoreInit, AtWork
<1> QED BY <1>2, <1>3, <1>4 DEF Store!Init, StoreInit

\* What a search or a listing enumerates.
AskedFor(lim, default) == IF lim = Nothing THEN default ELSE IF lim >= 0 THEN lim ELSE 0
LEMMA ClampsTo ==
  ASSUME NEW lim \in Int \union {Nothing}, NEW default \in Nat
  PROVE  /\ AskedFor(lim, default) \in Nat
         /\ Clamp(lim, default) = IF AskedFor(lim, default) <= Pool THEN AskedFor(lim, default) ELSE Pool
<1> DEFINE n == IF lim = Nothing THEN default ELSE lim
<1>1. n \in Int /\ 0 \in Int
  OBVIOUS
<1>2. Max({0, n}) = AskedFor(lim, default) /\ AskedFor(lim, default) \in Nat
  <2> HIDE DEF n
  <2>1. Max({0, n}) = IF 0 >= n THEN 0 ELSE n
    BY <1>1, GreaterOf
  <2> QED BY <1>1, <2>1 DEF n, AskedFor
<1>3. Clamp(lim, default) = Min({Max({0, n}), Pool})
  BY DEF Clamp
<1>4. Pool \in Nat
  BY StoreBounds
<1> HIDE DEF n
<1>5. AskedFor(lim, default) \in Int /\ Pool \in Int
  BY <1>2, <1>4
<1>6. Clamp(lim, default) = Min({AskedFor(lim, default), Pool})
  BY <1>2, <1>3
<1> HIDE DEF AskedFor
<1>7. Min({AskedFor(lim, default), Pool}) =
        IF AskedFor(lim, default) <= Pool THEN AskedFor(lim, default) ELSE Pool
  BY <1>5, LesserOf
<1> QED BY <1>2, <1>6, <1>7

LEMMA PagesOf ==
  ASSUME NEW S, IsFiniteSet(S), NEW off \in Nat, NEW lim \in Nat, NEW shown \in Page(S, off, lim)
  PROVE  /\ shown \subseteq S /\ Cardinality(S) \in Nat /\ IsFiniteSet(shown)
         /\ Cardinality(shown) = IF Cardinality(S) <= off THEN 0
                                ELSE IF lim <= Cardinality(S) - off THEN lim
                                ELSE Cardinality(S) - off
<1> DEFINE n == Cardinality(S)
           left == Max({0, n - off})
           m == Min({lim, left})
<1>1. n \in Nat
  BY FS_CardinalityType
<1>2. left = IF 0 >= n - off THEN 0 ELSE n - off
  <2> HIDE DEF n
  <2>1. 0 \in Int /\ n - off \in Int
    BY <1>1
  <2> QED BY <2>1, GreaterOf
<1>3. left \in Nat /\ left <= n
  <2> HIDE DEF n, left
  <2> QED BY <1>1, <1>2
<1>4. m = IF lim <= left THEN lim ELSE left
  <2> HIDE DEF n, left
  <2> QED BY <1>3, LesserOf
<1>5. m \in Nat /\ m <= n
  <2> HIDE DEF n, left, m
  <2> QED BY <1>1, <1>3, <1>4
<1>6. Min({m, n}) = m
  <2> HIDE DEF n, left, m
  <2> QED BY <1>1, <1>5, LesserOf
<1>7. shown \in SUBSET S /\ Cardinality(shown) = m
  BY <1>6 DEF Page, NewestRows, kSubset
<1>8. IsFiniteSet(shown)
  BY <1>7, FS_Subset
<1> HIDE DEF n, left, m
<1>9. m = IF n <= off THEN 0 ELSE IF lim <= n - off THEN lim ELSE n - off
  BY <1>1, <1>2, <1>4
<1> QED BY <1>1, <1>7, <1>8, <1>9 DEF n

LEMMA RowsRead ==
  ASSUME NEW S, IsFiniteSet(S), NEW depth \in Nat, NEW read \in NewestRows(depth, S)
  PROVE  /\ read \subseteq S /\ IsFiniteSet(read) /\ Cardinality(S) \in Nat
         /\ Cardinality(read) = IF depth <= Cardinality(S) THEN depth ELSE Cardinality(S)
         /\ Cardinality(S) <= depth => read = S
<1>1. Cardinality(S) \in Nat
  BY FS_CardinalityType
<1>2. Min({depth, Cardinality(S)}) = IF depth <= Cardinality(S) THEN depth ELSE Cardinality(S)
  BY <1>1, LesserOf
<1>3. read \in SUBSET S /\ Cardinality(read) = Min({depth, Cardinality(S)})
  BY DEF NewestRows, kSubset
<1>4. IsFiniteSet(read)
  BY <1>3, FS_Subset
<1>5. Cardinality(S) <= depth => read = S
  <2> SUFFICES ASSUME Cardinality(S) <= depth PROVE read = S
    OBVIOUS
  <2>1. Cardinality(read) = Cardinality(S)
    BY <1>1, <1>2, <1>3
  <2> QED BY <1>3, <2>1, FS_Subset
<1> QED BY <1>1, <1>2, <1>3, <1>4, <1>5

\* The abstract store's own copies of the library's operators.
LEMMA SameWords ==
  /\ \A S : Store!Max(S) = Max(S) /\ Store!Min(S) = Min(S)
  /\ \A S : Store!Cardinality(S) = Cardinality(S)
  /\ \A s, q : Store!IsPrefix(s, q) = IsPrefix(s, q)
  /\ \A s : Store!Reverse(s) = Reverse(s)
<1>1. \A S : Store!Max(S) = Max(S) /\ Store!Min(S) = Min(S)
  BY DEF Store!Max, Store!Min, Max, Min
<1>2. \A S : Store!Cardinality(S) = Cardinality(S)
  BY Zenon DEF Store!Cardinality, Cardinality
<1>3. \A s, q : Store!IsPrefix(s, q) = IsPrefix(s, q)
  BY DEF Store!IsPrefix, IsPrefix
<1>4. \A s : Store!Reverse(s) = Reverse(s)
  BY DEF Store!Reverse, Reverse
<1> QED BY <1>1, <1>2, <1>3, <1>4

LEMMA WholePage ==
  ASSUME NEW asked \in Nat, NEW off \in Nat, NEW n \in Nat
  PROVE  Min({asked, Max({0, n - off})}) =
           IF n <= off THEN 0 ELSE IF asked <= n - off THEN asked ELSE n - off
<1>1. n - off \in Int /\ 0 \in Int
  OBVIOUS
<1>2. Max({0, n - off}) = IF 0 >= n - off THEN 0 ELSE n - off
  BY <1>1, GreaterOf
<1>3. Max({0, n - off}) \in Nat
  BY <1>2
<1> DEFINE left == Max({0, n - off})
<1>4. Min({asked, left}) = IF asked <= left THEN asked ELSE left
  <2>1. asked \in Int /\ left \in Int
    BY <1>3
  <2> HIDE DEF left
  <2> QED BY <2>1, LesserOf
<1> QED BY <1>2, <1>4

LEMMA AskedIs ==
  ASSUME NEW op, op.lim \in Int \union {Nothing}, NEW default \in Nat,
         default = IF op.kind = "list" THEN 100 ELSE 10
  PROVE  Store!MostAsked(op) = AskedFor(op.lim, default)
<1>1. op.lim # Nothing => op.lim \in Int /\ 0 \in Int
  OBVIOUS
<1>2. op.lim # Nothing => Max({0, op.lim}) = IF 0 >= op.lim THEN 0 ELSE op.lim
  BY <1>1, GreaterOf
<1> QED BY <1>1, <1>2, SameWords DEF Store!MostAsked, AskedFor

Enumeration(op) ==
  IF op.query = Nothing THEN entities
  ELSE {r \in entities : op.query # Nothing /\ r.value \in Matching[op.query]}

LEMMA FindsItems ==
  ASSUME NEW op
  PROVE  /\ Store!Enumerated(op) = ItemsOf(Enumeration(op))
         /\ Store!Found(op) = ItemsOf(PassesFilter(Enumeration(op), op))
<1>1. \A r \in entities : ItemOf(r).value = r.value /\ ItemOf(r).ns = Decode(r.cat)
  BY DEF ItemOf
<1>2. Store!Enumerated(op) = ItemsOf(Enumeration(op))
  BY <1>1 DEF Store!Enumerated, ItemsOf, Enumeration
<1>3. Enumeration(op) \subseteq entities
  BY DEF Enumeration
<1>4. Store!Found(op) = ItemsOf(PassesFilter(Enumeration(op), op))
  BY <1>1, <1>2, <1>3, SameWords DEF Store!Found, Store!Under, ItemsOf, PassesFilter
<1> QED BY <1>2, <1>4

LEMMA SearchFits ==
  ASSUME TableOf(entities), NEW op, IsOp(op), op.kind = "search",
         NEW lim, lim = Clamp(op.lim, 10), lim # 0,
         NEW read \in NewestRows(IF op.query = Nothing THEN Pool ELSE CountDepth(op, lim),
                                 Enumeration(op)),
         NEW shown \in Page(PassesFilter(read, op), op.off, lim)
  PROVE  /\ ItemsOf(shown) \subseteq Store!Found(op)
         /\ Store!Fits(ItemsOf(shown), Store!Found(op), Store!Enumerated(op), op)
<1> DEFINE all == Enumeration(op)
           found == PassesFilter(all, op)
           asked == AskedFor(op.lim, 10)
           depth == IF op.query = Nothing THEN Pool ELSE CountDepth(op, lim)
<1>1. /\ op.off \in Nat /\ op.lim \in Int \union {Nothing} /\ IsNamespace(op.prefix)
      /\ Pool \in Nat
  BY StoreBounds DEF IsOp
<1>2. asked \in Nat /\ lim = IF asked <= Pool THEN asked ELSE Pool
  BY <1>1, ClampsTo
<1>3. lim \in Nat
  <2> HIDE DEF asked
  <2> QED BY <1>1, <1>2
<1>4. Want(op, lim) = IF op.off + lim <= Pool THEN op.off + lim ELSE Pool
  BY <1>1, <1>3, LesserOf DEF Want
<1>5. depth \in Nat /\ (depth = Pool \/ (depth = Want(op, lim) /\ op.prefix = <<>> /\ op.filter = Nothing))
  BY <1>1, <1>3, <1>4 DEF CountDepth
<1>6. IsFiniteSet(all) /\ all \subseteq entities
  <2>1. all \subseteq entities
    BY DEF Enumeration
  <2>2. IsFiniteSet(all)
    BY <2>1, FS_Subset DEF TableOf
  <2> QED BY <2>1, <2>2
<1>7. /\ read \subseteq all /\ IsFiniteSet(read) /\ Cardinality(all) \in Nat
      /\ Cardinality(read) = IF depth <= Cardinality(all) THEN depth ELSE Cardinality(all)
      /\ Cardinality(all) <= depth => read = all
  <2> HIDE DEF all, depth
  <2>1. read \in NewestRows(depth, all)
    BY DEF all, depth
  <2> QED BY <1>5, <1>6, <2>1, RowsRead
<1>8. /\ PassesFilter(read, op) \subseteq found /\ found \subseteq all
      /\ PassesFilter(read, op) \subseteq read
  BY <1>7 DEF PassesFilter
<1>9. IsFiniteSet(PassesFilter(read, op)) /\ IsFiniteSet(found)
  <2>1. IsFiniteSet(PassesFilter(read, op))
    BY <1>7, <1>8, FS_Subset
  <2>2. IsFiniteSet(found)
    BY <1>6, <1>8, FS_Subset
  <2> QED BY <2>1, <2>2
<1> DEFINE n == Cardinality(PassesFilter(read, op))
<1>10. /\ shown \subseteq PassesFilter(read, op) /\ n \in Nat /\ IsFiniteSet(shown)
       /\ Cardinality(shown) = IF n <= op.off THEN 0 ELSE IF lim <= n - op.off THEN lim ELSE n - op.off
  BY <1>1, <1>3, <1>9, PagesOf
<1>11. shown \subseteq entities /\ found \subseteq entities /\ \A r \in entities : IsRow(r)
  BY <1>6, <1>7, <1>8, <1>10 DEF TableOf
<1>12. /\ Cardinality(ItemsOf(shown)) = Cardinality(shown)
       /\ Cardinality(ItemsOf(found)) = Cardinality(found) /\ Cardinality(found) \in Nat
       /\ Cardinality(ItemsOf(all)) = Cardinality(all)
  <2>1. Cardinality(ItemsOf(shown)) = Cardinality(shown)
    BY <1>10, <1>11, AsManyItems
  <2>2. Cardinality(ItemsOf(found)) = Cardinality(found) /\ Cardinality(found) \in Nat
    BY <1>9, <1>11, AsManyItems
  <2>3. Cardinality(ItemsOf(all)) = Cardinality(all)
    BY <1>6, <1>11, AsManyItems
  <2> QED BY <2>1, <2>2, <2>3
<1>13. Store!MostAsked(op) = asked
  BY <1>1, AskedIs
<1>14. /\ ItemsOf(shown) \subseteq ItemsOf(found) /\ Store!Found(op) = ItemsOf(found)
       /\ Store!Enumerated(op) = ItemsOf(all)
  BY <1>8, <1>10, FindsItems DEF ItemsOf
<1>15. Cardinality(shown) <= asked
  <2> HIDE DEF asked, n
  <2> QED BY <1>1, <1>2, <1>3, <1>10
<1>16. ASSUME Cardinality(all) <= Pool
       PROVE  Cardinality(shown) = IF Cardinality(found) <= op.off THEN 0
                                  ELSE IF asked <= Cardinality(found) - op.off THEN asked
                                  ELSE Cardinality(found) - op.off
  <2>1. Cardinality(found) <= Cardinality(all)
    BY <1>6, <1>8, FS_Subset
  <2>2. CASE depth = Pool
    <3>1. read = all
      BY <1>7, <1>16, <2>2
    <3>2. n = Cardinality(found)
      BY <3>1
    <3> HIDE DEF n, found, all, asked
    <3> QED BY <1>1, <1>2, <1>3, <1>7, <1>10, <1>12, <1>16, <2>1, <3>2
  <2>3. CASE depth = Want(op, lim) /\ op.prefix = <<>> /\ op.filter = Nothing
    <3>1. \A R : R \subseteq entities => PassesFilter(R, op) = R
      <4> SUFFICES ASSUME NEW R, R \subseteq entities, NEW r \in R
                   PROVE  IsPrefix(<<>>, Decode(r.cat))
        BY <2>3 DEF PassesFilter
      <4>1. IsSequence(r.cat)
        BY DEF TableOf, IsRow
      <4>2. DOMAIN r.cat = 1..Len(r.cat) /\ Len(r.cat) \in Nat
        BY <4>1, SequenceOf
      <4>3. Decode(r.cat) \in Seq({<<r.cat[i]>> : i \in DOMAIN r.cat})
        BY <4>2 DEF Decode
      <4> DEFINE s == Decode(r.cat)
      <4> HIDE DEF s
      <4>4. Len(s) \in Nat /\ SubSeq(s, 1, 0) = <<>>
        BY <4>3 DEF s
      <4>5. Len(<<>>) = 0 /\ SubSeq(<<>>, 1, 0) = <<>>
        OBVIOUS
      <4> QED BY <4>4, <4>5 DEF IsPrefix, s
    <3>2. n = Cardinality(read) /\ found = all
      BY <1>6, <1>7, <3>1
    <3> HIDE DEF n, found, all, asked, depth
    <3> QED BY <1>1, <1>2, <1>3, <1>4, <1>7, <1>10, <1>16, <2>3, <3>2
  <2> QED BY <1>5, <2>2, <2>3
<1>17. Store!PageSize(Cardinality(found), op) =
         IF Cardinality(found) <= op.off THEN 0
         ELSE IF asked <= Cardinality(found) - op.off THEN asked
         ELSE Cardinality(found) - op.off
  <2> HIDE DEF asked, found
  <2>1. Min({asked, Max({0, Cardinality(found) - op.off})}) =
         IF Cardinality(found) <= op.off THEN 0
         ELSE IF asked <= Cardinality(found) - op.off THEN asked
         ELSE Cardinality(found) - op.off
    BY <1>1, <1>2, <1>12, WholePage
  <2> QED BY <1>13, <2>1, SameWords DEF Store!PageSize
<1> HIDE DEF all, found, asked, depth, n
<1> QED BY <1>12, <1>13, <1>14, <1>15, <1>16, <1>17, SameWords DEF Store!Fits

LEMMA MeetsAlike ==
  ASSUME NEW ns, IsSequence(ns),
         NEW cond, cond.type \in {"prefix", "suffix"}, IsNamespace(cond.path)
  PROVE  NsMatches(ns, cond) <=> Store!Meets(ns, cond)
<1> DEFINE p == cond.path
           k == Len(p)
           len == Len(ns)
<1>1. /\ DOMAIN p = 1..k /\ k \in Nat /\ p = [i \in 1..k |-> p[i]]
      /\ DOMAIN ns = 1..len /\ len \in Nat /\ ns = [i \in 1..len |-> ns[i]]
  BY SequenceOf DEF IsNamespace
<1>2. ASSUME len >= k
      PROVE  /\ Len(SubSeq(ns, 1, k)) = k /\ \A i \in 1..k : SubSeq(ns, 1, k)[i] = ns[i]
             /\ Len(SubSeq(ns, len - k + 1, len)) = k
             /\ \A i \in 1..k : SubSeq(ns, len - k + 1, len)[i] = ns[len - k + i]
  <2>1. ns \in Seq({ns[i] : i \in DOMAIN ns})
    BY DEF IsSequence
  <2> HIDE DEF p, k, len
  <2>2. Len(SubSeq(ns, 1, k)) = k /\ \A i \in 1..k : SubSeq(ns, 1, k)[i] = ns[i]
    BY <1>1, <1>2, <2>1 DEF len
  <2>3. Len(SubSeq(ns, len - k + 1, len)) = k
    BY <1>1, <1>2, <2>1 DEF len
  <2>4. ASSUME NEW i \in 1..k PROVE SubSeq(ns, len - k + 1, len)[i] = ns[len - k + i]
    <3> DEFINE m == len - k + 1
    <3>0. k \in Nat /\ len \in Nat /\ len >= k /\ i \in Nat
      BY <1>1, <1>2
    <3>1. m \in 1..(len + 1) /\ len \in Nat /\ len - m + 1 = k /\ m + i - 1 = len - k + i
      BY <3>0
    <3> HIDE DEF m
    <3>2. SubSeq(ns, m, len)[i] = ns[m + i - 1]
      BY <2>1, <3>1 DEF len
    <3>3. SubSeq(ns, m, len)[i] = ns[len - k + i]
      BY <3>1, <3>2
    <3> QED BY <3>3 DEF m
  <2> QED BY <2>2, <2>3, <2>4
<1>3. CASE cond.type = "prefix"
  <2>1. Store!Meets(ns, cond) <=> len >= k /\ \A i \in 1..k : p[i] \in {<<"*">>, ns[i]}
    BY <1>1, <1>3 DEF Store!Meets, Store!Wild
  <2>2. len >= k => (NsMatches(ns, cond) <=> \A i \in 1..k : p[i] = <<"*">> \/ p[i] = ns[i])
    BY <1>1, <1>2, <1>3 DEF NsMatches, WildMatch
  <2>3. NsMatches(ns, cond) => len >= k
    BY DEF NsMatches
  <2> QED BY <2>1, <2>2, <2>3
<1>4. CASE cond.type = "suffix"
  <2> DEFINE rp == Reverse(p)
             rn == Reverse(ns)
  <2>1. /\ rp = [i \in 1..k |-> p[k - i + 1]] /\ DOMAIN rp = 1..k /\ Len(rp) = k
        /\ rn = [i \in 1..len |-> ns[len - i + 1]] /\ Len(rn) = len
    BY <1>1 DEF Reverse
  <2>2. Store!Meets(ns, cond) <=> len >= k /\ \A i \in 1..k : rp[i] \in {<<"*">>, rn[i]}
    <3> HIDE DEF k, len, rp, rn
    <3> QED BY <1>4, <2>1, SameWords DEF Store!Meets, Store!Wild, rp, rn
  <2>3. len >= k => (NsMatches(ns, cond) <=>
                      \A j \in 1..k : p[j] = <<"*">> \/ p[j] = ns[len - k + j])
    BY <1>1, <1>2, <1>4 DEF NsMatches, WildMatch
  <2>4. NsMatches(ns, cond) => len >= k
    BY DEF NsMatches
  <2>5. ASSUME len >= k
        PROVE  (\A i \in 1..k : rp[i] \in {<<"*">>, rn[i]})
                <=> \A j \in 1..k : p[j] = <<"*">> \/ p[j] = ns[len - k + j]
    <3>1. \A i \in 1..k : rp[i] = p[k - i + 1] /\ rn[i] = ns[len - i + 1]
      <4> HIDE DEF k, len, rp, rn
      <4> QED BY <1>1, <2>1, <2>5
    <3>2. \A i \in 1..k : k - i + 1 \in 1..k /\ k - (k - i + 1) + 1 = i
                          /\ len - k + (k - i + 1) = len - i + 1
                          /\ len - (k - i + 1) + 1 = len - k + i
      <4> HIDE DEF k, len
      <4> QED BY <1>1
    <3>3. ASSUME \A i \in 1..k : rp[i] \in {<<"*">>, rn[i]}, NEW j \in 1..k
          PROVE  p[j] = <<"*">> \/ p[j] = ns[len - k + j]
      <4>1. rp[k - j + 1] \in {<<"*">>, rn[k - j + 1]} /\ k - j + 1 \in 1..k
        BY <3>2, <3>3
      <4>2. rp[k - j + 1] = p[k - (k - j + 1) + 1] /\ rn[k - j + 1] = ns[len - (k - j + 1) + 1]
        BY <3>1, <4>1
      <4> HIDE DEF k, len, rp, rn, p
      <4> QED BY <3>2, <4>1, <4>2
    <3>4. ASSUME \A j \in 1..k : p[j] = <<"*">> \/ p[j] = ns[len - k + j], NEW i \in 1..k
          PROVE  rp[i] \in {<<"*">>, rn[i]}
      <4>1. p[k - i + 1] = <<"*">> \/ p[k - i + 1] = ns[len - k + (k - i + 1)]
        BY <3>2, <3>4
      <4> HIDE DEF k, len, rp, rn, p
      <4> QED BY <3>1, <3>2, <4>1
    <3> QED BY <3>3, <3>4
  <2> QED BY <2>2, <2>3, <2>4, <2>5
<1> QED BY <1>3, <1>4

\* A namespace as a listing shows it.
Shortened(ns, depth) == IF depth < Len(ns) THEN SubSeq(ns, 1, depth) ELSE ns
MetBy(r, op) == \A cond \in op.conds : NsMatches(Decode(r.cat), cond)

LEMMA ListsNamespaces ==
  ASSUME NEW op, IsOp(op), op.kind = "list", NEW R, \A r \in R : IsRow(r)
  PROVE  Namespaces({Decode(r.cat) : r \in R}, op) =
           {Shortened(Decode(r.cat), op.depth) : r \in {o \in R : MetBy(o, op)}}
<1>1. op.depth \in Nat
  BY DEF IsOp
<1>2. \A r \in R : SubSeq(Decode(r.cat), 1, Min({op.depth, Len(Decode(r.cat))})) =
                     Shortened(Decode(r.cat), op.depth)
  <2> SUFFICES ASSUME NEW r \in R
               PROVE  SubSeq(Decode(r.cat), 1, Min({op.depth, Len(Decode(r.cat))})) =
                        Shortened(Decode(r.cat), op.depth)
    OBVIOUS
  <2> DEFINE ns == Decode(r.cat)
  <2>1. DOMAIN r.cat = 1..Len(r.cat) /\ Len(r.cat) \in Nat
    BY SequenceOf DEF IsRow
  <2>2. ns \in Seq({<<r.cat[i]>> : i \in DOMAIN r.cat})
    BY <2>1 DEF Decode
  <2> HIDE DEF ns
  <2>3. Len(ns) \in Nat /\ SubSeq(ns, 1, Len(ns)) = ns
    BY <2>2
  <2>4. Min({op.depth, Len(ns)}) = IF op.depth <= Len(ns) THEN op.depth ELSE Len(ns)
    <3> DEFINE len == Len(ns)
    <3>1. len \in Int /\ op.depth \in Int
      BY <1>1, <2>3
    <3> HIDE DEF len
    <3>2. Min({op.depth, len}) = IF op.depth <= len THEN op.depth ELSE len
      BY <3>1, LesserOf
    <3> QED BY <3>2 DEF len
  <2>5. SubSeq(ns, 1, Min({op.depth, Len(ns)})) = Shortened(ns, op.depth)
    <3>1. CASE op.depth < Len(ns)
      <4>1. Min({op.depth, Len(ns)}) = op.depth
        BY <1>1, <2>3, <2>4, <3>1
      <4> QED BY <3>1, <4>1 DEF Shortened
    <3>2. CASE ~(op.depth < Len(ns))
      <4>1. Min({op.depth, Len(ns)}) = Len(ns)
        BY <1>1, <2>3, <2>4, <3>2
      <4> QED BY <2>3, <3>2, <4>1 DEF Shortened
    <3> QED BY <3>1, <3>2
  <2> QED BY <2>5 DEF ns
<1> QED BY <1>2 DEF Namespaces, Truncated, MetBy

LEMMA ListedAlike ==
  ASSUME TableOf(entities), NEW op, IsOp(op), op.kind = "list"
  PROVE  Store!Listed(op) = Namespaces({Decode(r.cat) : r \in entities}, op)
<1>1. \A r \in entities : ItemOf(r).ns = Decode(r.cat) /\ IsSequence(Decode(r.cat))
  <2> SUFFICES ASSUME NEW r \in entities PROVE IsSequence(Decode(r.cat))
    BY DEF ItemOf
  <2>1. DOMAIN r.cat = 1..Len(r.cat) /\ Len(r.cat) \in Nat
    BY SequenceOf DEF IsRow, TableOf
  <2> QED BY <2>1 DEF Decode, IsSequence
<1>2. \A cond \in op.conds : cond.type \in {"prefix", "suffix"} /\ IsNamespace(cond.path)
  BY DEF IsOp
<1>3. \A r \in entities : MetBy(r, op) <=> \A cond \in op.conds : Store!Meets(ItemOf(r).ns, cond)
  BY <1>1, <1>2, MeetsAlike DEF MetBy
<1>4. Store!Listed(op) = {Shortened(Decode(r.cat), op.depth) : r \in {o \in entities : MetBy(o, op)}}
  BY <1>1, <1>3 DEF Store!Listed, Shortened
<1>5. \A r \in entities : IsRow(r)
  BY DEF TableOf
<1> QED BY <1>4, <1>5, ListsNamespaces

LEMMA ListFits ==
  ASSUME TableOf(entities), NEW op, IsOp(op), op.kind = "list",
         NEW read \in NewestRows(Pool, entities),
         NEW shown \in Page(Namespaces({Decode(r.cat) : r \in read}, op), op.off, Clamp(op.lim, 100))
  PROVE  /\ shown \subseteq Store!Listed(op)
         /\ Store!Fits(shown, Store!Listed(op), {ItemOf(r) : r \in entities}, op)
<1> DEFINE lim == Clamp(op.lim, 100)
           asked == AskedFor(op.lim, 100)
           nss == Namespaces({Decode(r.cat) : r \in entities}, op)
           some == Namespaces({Decode(r.cat) : r \in read}, op)
<1>1. /\ op.off \in Nat /\ op.lim \in Int \union {Nothing} /\ Pool \in Nat
  BY StoreBounds DEF IsOp
<1>2. asked \in Nat /\ lim = IF asked <= Pool THEN asked ELSE Pool
  BY <1>1, ClampsTo
<1>3. lim \in Nat
  <2> HIDE DEF asked, lim
  <2> QED BY <1>1, <1>2
<1>4. IsFiniteSet(entities) /\ \A r \in entities : IsRow(r)
  BY DEF TableOf
<1>5. /\ read \subseteq entities /\ IsFiniteSet(read) /\ Cardinality(entities) \in Nat
      /\ Cardinality(entities) <= Pool => read = entities
  BY <1>1, <1>4, RowsRead
<1>6. \A R : R \subseteq entities =>
        /\ IsFiniteSet(Namespaces({Decode(r.cat) : r \in R}, op))
        /\ Cardinality(Namespaces({Decode(r.cat) : r \in R}, op)) <= Cardinality(entities)
  <2> SUFFICES ASSUME NEW R, R \subseteq entities
               PROVE  /\ IsFiniteSet(Namespaces({Decode(r.cat) : r \in R}, op))
                      /\ Cardinality(Namespaces({Decode(r.cat) : r \in R}, op))
                           <= Cardinality(entities)
    OBVIOUS
  <2> DEFINE M == {r \in R : MetBy(r, op)}
             T == {Shortened(Decode(r.cat), op.depth) : r \in M}
             f == [r \in M |-> Shortened(Decode(r.cat), op.depth)]
  <2>1. f \in Surjection(M, T)
    BY DEF Surjection
  <2>2. M \in SUBSET entities
    OBVIOUS
  <2>3. Namespaces({Decode(r.cat) : r \in R}, op) = T
    BY <1>4, ListsNamespaces
  <2> HIDE DEF M, T, f
  <2>4. IsFiniteSet(M) /\ Cardinality(M) <= Cardinality(entities)
    BY <1>4, <2>2, FS_Subset
  <2>5. IsFiniteSet(T) /\ Cardinality(T) <= Cardinality(M)
    BY <2>1, <2>4, FS_Surjection
  <2>6. Cardinality(T) \in Nat /\ Cardinality(M) \in Nat
    BY <2>4, <2>5, FS_CardinalityType
  <2> QED BY <1>5, <2>3, <2>4, <2>5, <2>6
<1>7. some \subseteq nss
  <2>1. /\ some = {Shortened(Decode(r.cat), op.depth) : r \in {o \in read : MetBy(o, op)}}
        /\ nss = {Shortened(Decode(r.cat), op.depth) : r \in {o \in entities : MetBy(o, op)}}
    <3>1. \A r \in read : IsRow(r)
      BY <1>4, <1>5
    <3> QED BY <1>4, <3>1, ListsNamespaces
  <2> HIDE DEF some, nss
  <2> QED BY <1>5, <2>1
<1>8. /\ shown \subseteq some /\ Cardinality(some) \in Nat
      /\ Cardinality(shown) = IF Cardinality(some) <= op.off THEN 0
                             ELSE IF lim <= Cardinality(some) - op.off THEN lim
                             ELSE Cardinality(some) - op.off
  <2>1. IsFiniteSet(some) /\ shown \in Page(some, op.off, lim)
    BY <1>5, <1>6
  <2> HIDE DEF some, lim
  <2> QED BY <1>1, <1>3, <2>1, PagesOf
<1>9. Cardinality(shown) <= asked
  <2> HIDE DEF asked, lim, some
  <2> QED BY <1>1, <1>2, <1>3, <1>8
<1>10. IsFiniteSet(nss) /\ Cardinality(nss) <= Cardinality(entities)
       /\ Cardinality(nss) \in Nat
  <2>1. IsFiniteSet(nss) /\ Cardinality(nss) <= Cardinality(entities)
    BY <1>6
  <2> HIDE DEF nss
  <2> QED BY <2>1, FS_CardinalityType
<1>11. ASSUME Cardinality(entities) <= Pool
       PROVE  Cardinality(shown) = IF Cardinality(nss) <= op.off THEN 0
                                  ELSE IF asked <= Cardinality(nss) - op.off THEN asked
                                  ELSE Cardinality(nss) - op.off
  <2>1. some = nss
    BY <1>5, <1>11
  <2> HIDE DEF some, nss, asked, lim
  <2> QED BY <1>1, <1>2, <1>3, <1>5, <1>8, <1>10, <1>11, <2>1
<1>12. Store!PageSize(Cardinality(nss), op) =
         IF Cardinality(nss) <= op.off THEN 0
         ELSE IF asked <= Cardinality(nss) - op.off THEN asked
         ELSE Cardinality(nss) - op.off
  <2>1. Store!MostAsked(op) = asked
    BY <1>1, AskedIs
  <2> HIDE DEF asked, nss
  <2>2. Min({asked, Max({0, Cardinality(nss) - op.off})}) =
         IF Cardinality(nss) <= op.off THEN 0
         ELSE IF asked <= Cardinality(nss) - op.off THEN asked
         ELSE Cardinality(nss) - op.off
    BY <1>1, <1>2, <1>10, WholePage
  <2> QED BY <2>1, <2>2, SameWords DEF Store!PageSize
<1>13. Store!MostAsked(op) = asked /\ Store!Listed(op) = nss
  BY <1>1, AskedIs, ListedAlike
<1>14. Cardinality({ItemOf(r) : r \in entities}) = Cardinality(entities)
  BY <1>4, AsManyItems DEF ItemsOf
<1> HIDE DEF asked, nss, some, lim
<1> QED BY <1>7, <1>8, <1>9, <1>11, <1>12, <1>13, <1>14, SameWords DEF Store!Fits

RunState == [t \in StoreThreads |-> IF AtWork(t) THEN "running" ELSE thread[t]]

LEMMA RunsOn ==
  ASSUME CallsOK, NEW t \in StoreThreads, NEW to, thread' = [thread EXCEPT ![t] = to]
  PROVE  /\ RunState' = [RunState EXCEPT ![t] =
                           IF to \in {"idle", "raised", "returned"} THEN to ELSE "running"]
         /\ (AtWork(t) /\ to \notin {"idle", "raised", "returned"}) => RunState' = RunState
<1>1. \A u \in StoreThreads : thread'[u] = IF u = t THEN to ELSE thread[u]
  BY DEF CallsOK
<1>2. RunState' = [u \in StoreThreads |->
                     IF u = t THEN IF to \in {"idle", "raised", "returned"} THEN to ELSE "running"
                     ELSE RunState[u]]
  BY <1>1 DEF RunState, AtWork
<1>3. RunState = [u \in StoreThreads |-> RunState[u]] /\ (AtWork(t) => RunState[t] = "running")
  BY DEF RunState
<1> HIDE DEF RunState
<1>4. RunState' = [RunState EXCEPT ![t] =
                           IF to \in {"idle", "raised", "returned"} THEN to ELSE "running"]
  BY <1>2, <1>3
<1>5. (AtWork(t) /\ to \notin {"idle", "raised", "returned"}) => RunState' = RunState
  BY <1>2, <1>3
<1> QED BY <1>4, <1>5

LEMMA Fails ==
  ASSUME CallsOK, NEW t \in StoreThreads, AtWork(t), thread' = [thread EXCEPT ![t] = "raised"],
         entities' = entities, ops' = ops, results' = results
  PROVE  Store!Fail({t})
<1>1. RunState' = [RunState EXCEPT ![t] = "raised"]
  BY RunsOn
<1>2. RunState = [u \in StoreThreads |-> RunState[u]] /\ RunState[t] = "running"
  BY DEF RunState
<1>3. RunState' = [u \in StoreThreads |-> IF u \in {t} THEN "raised" ELSE RunState[u]]
  <2> HIDE DEF RunState
  <2> QED BY <1>1, <1>2
<1> QED BY <1>2, <1>3 DEF Store!Fail, RunState

LEMMA EffectOf ==
  ASSUME KvInv, NEW t \in StoreThreads, AtWork(t), Validated(t), thread[t] # "validate",
         Len(results[t]) < Len(ops[t]), NEW a,
         ops' = ops, results' = [results EXCEPT ![t] = Append(@, a)], RunState' = RunState,
         ItemsOf(entities') = (IF Op(t).kind = "put" THEN Store!Put(Op(t)) ELSE ItemsOf(entities)),
         a \in Store!Answers(Op(t)), Store!Answer(Op(t), a)
  PROVE  Store!Effect(t)
<1>1. \A i \in DOMAIN ops[t] : ops[t][i].kind = "put" => Store!PutNameable(ops[t][i])
  <2> SUFFICES ASSUME NEW i \in DOMAIN ops[t], ops[t][i].kind = "put"
               PROVE  Store!PutNameable(ops[t][i])
    OBVIOUS
  <2>1. ops[t] \in Batches
    BY AtAnOp DEF KvInv, AtWork
  <2>2. IsNamespace(ops[t][i].ns) /\ NamespaceOK(ops[t][i].ns, FALSE)
    BY <2>1, CallsAndRows DEF IsOp, Validated, PutOK
  <2> QED BY <2>2, NamedPlainly DEF Store!PutNameable
<1>2. Store!Current(t) = Op(t)
  BY DEF Store!Current, Op
<1>3. RunState[t] = "running"
  BY DEF RunState
<1> QED BY <1>1, <1>2, <1>3 DEF Store!Effect, RunState, ItemsOf

LEMMA GetEffect ==
  ASSUME KvInv, NEW t \in StoreThreads, Get(t)
  PROVE  Store!Effect(t)
<1> DEFINE op == Op(t)
           found == {r \in entities : r.cat = Encode(op.ns) /\ r.key = op.key}
           a == IF found = {} THEN Nothing ELSE (CHOOSE r \in found : TRUE).value
           held == ItemsNamed(ItemsOf(entities), op.ns, op.key)
<1>1. /\ thread[t] = "op" /\ Len(results[t]) < Len(ops[t]) /\ op.kind = "get"
      /\ NamespaceOK(op.ns, FALSE)
      /\ results' = [results EXCEPT ![t] = Append(@, a)]
      /\ thread' = thread /\ ops' = ops /\ entities' = entities
  BY DEF Get, AtOp, Give, Stays
<1>2. Plainly(op.ns)
  <2>1. IsOp(op)
    BY <1>1, AtAnOp DEF KvInv
  <2>2. IsNamespace(op.ns)
    BY <1>1, <2>1 DEF IsOp
  <2> QED BY <1>1, <2>2, NamedPlainly
<1>3. \A r \in entities : IsRow(r)
  BY DEF KvInv, TableOf
<1>4. held = ItemsOf(found)
  <2>1. found = RowsNamed(entities, op.ns, op.key)
    BY DEF RowsNamed
  <2> QED BY <1>2, <1>3, <2>1, NamesItems
<1>5. \A r, o \in found : r = o
  BY DEF KvInv, TableOf, Unique
<1>6. a = IF held = {} THEN Nothing ELSE (CHOOSE x \in held : TRUE).value
  <2>1. CASE found = {}
    BY <1>4, <2>1 DEF ItemsOf
  <2>2. CASE found # {}
    <3> HIDE DEF found, held
    <3>1. (CHOOSE r \in found : TRUE) \in found
      BY <2>2
    <3>2. held # {}
      BY <1>4, <2>2 DEF ItemsOf
    <3>3. (CHOOSE x \in held : TRUE) \in held
      BY <3>2
    <3>4. PICK r \in found : ItemOf(r) = (CHOOSE x \in held : TRUE)
      BY <1>4, <3>3 DEF ItemsOf
    <3>5. r = CHOOSE o \in found : TRUE
      BY <1>5, <3>1
    <3>6. (CHOOSE x \in held : TRUE).value = r.value
      <4>1. ItemOf(r).value = r.value
        BY DEF ItemOf
      <4> QED BY <3>4, <4>1
    <3> QED BY <2>2, <3>2, <3>5, <3>6
  <2> QED BY <2>1, <2>2
<1>7. Store!At(op.ns, op.key) = held
  BY DEF Store!At, ItemsNamed, ItemsOf
<1>8. Store!Answer(op, a)
  <2> HIDE DEF op, found, held
  <2> QED BY <1>1, <1>6, <1>7 DEF Store!Answer
<1>9. a \in Store!Answers(op)
  <2>1. held = {} \/ (CHOOSE x \in held : TRUE) \in held
    <3> HIDE DEF held
    <3> QED OBVIOUS
  <2>2. held \subseteq ItemsOf(entities)
    BY DEF ItemsNamed
  <2> HIDE DEF op, found, held, a
  <2>3. a = Nothing \/ \E x \in ItemsOf(entities) : a = x.value
    BY <1>6, <2>1, <2>2
  <2>4. Store!Answers(op) = {Nothing} \union {x.value : x \in ItemsOf(entities)}
    BY <1>1 DEF Store!Answers, ItemsOf
  <2> QED BY <2>3, <2>4
<1>10. RunState' = RunState
  BY <1>1 DEF RunState, AtWork
<1>11. AtWork(t) /\ Validated(t)
  BY <1>1 DEF KvInv, CallsOK, AtWork
<1>12. ItemsOf(entities') = (IF op.kind = "put" THEN Store!Put(op) ELSE ItemsOf(entities))
  BY <1>1
<1> HIDE DEF a, op
<1> QED BY <1>1, <1>8, <1>9, <1>10, <1>11, <1>12, EffectOf DEF op

LEMMA SearchEffect ==
  ASSUME KvInv, NEW t \in StoreThreads, Search(t)
  PROVE  Store!Effect(t)
<1> DEFINE op == Op(t)
           lim == Clamp(op.lim, 10)
<1>1. /\ thread[t] = "op" /\ Len(results[t]) < Len(ops[t]) /\ op.kind = "search"
      /\ thread' = thread /\ ops' = ops /\ entities' = entities
  BY DEF Search, AtOp, Stays
<1>2. IsOp(op)
  BY <1>1, AtAnOp DEF KvInv
<1>3. \E a : /\ results' = [results EXCEPT ![t] = Append(@, a)]
             /\ a \subseteq Store!Found(op)
             /\ Store!Fits(a, Store!Found(op), Store!Enumerated(op), op)
  <2>1. CASE lim = 0
    <3>1. results' = [results EXCEPT ![t] = Append(@, {})]
      BY <2>1 DEF Search, Give
    <3>2. op.lim \in Int \union {Nothing} /\ op.off \in Nat
      BY <1>1, <1>2 DEF IsOp
    <3>3. Store!MostAsked(op) = AskedFor(op.lim, 10)
      BY <1>1, <3>2, AskedIs
    <3>4. AskedFor(op.lim, 10) = 0
      BY <2>1, <3>2, ClampsTo, StoreBounds
    <3>5. Cardinality({}) = 0
      BY FS_EmptySet
    <3>6. Cardinality(Store!Found(op)) \in Nat
      <4> DEFINE found == PassesFilter(Enumeration(op), op)
      <4>1. found \subseteq entities
        BY DEF PassesFilter, Enumeration
      <4> HIDE DEF found
      <4>2. IsFiniteSet(found) /\ \A r \in found : IsRow(r)
        <5>1. IsFiniteSet(found)
          BY <4>1, FS_Subset DEF KvInv, TableOf
        <5> QED BY <4>1, <5>1 DEF KvInv, TableOf
      <4>3. Cardinality(ItemsOf(found)) \in Nat
        BY <4>2, AsManyItems
      <4> QED BY <4>3, FindsItems DEF found
    <3>7. Store!PageSize(Cardinality(Store!Found(op)), op) = 0
      <4> DEFINE n == Cardinality(Store!Found(op))
      <4> HIDE DEF n, op
      <4>1. Min({0, Max({0, n - op.off})}) = 0
        <5>1. n \in Nat /\ 0 \in Nat
          BY <3>6 DEF n
        <5> QED BY <3>2, <5>1, WholePage
      <4>2. Store!PageSize(n, op) = 0
        BY <3>3, <3>4, <4>1, SameWords DEF Store!PageSize
      <4> QED BY <4>2 DEF n
    <3>8. Store!Fits({}, Store!Found(op), Store!Enumerated(op), op)
      <4> HIDE DEF op
      <4> QED BY <3>3, <3>4, <3>5, <3>7, SameWords DEF Store!Fits
    <3> QED BY <3>1, <3>8
  <2>2. CASE lim # 0
    <3> DEFINE hits == {r \in entities : op.query # Nothing /\ r.value \in Matching[op.query]}
    <3>0. PICK read \in IF op.query = Nothing THEN NewestRows(Pool, entities)
                        ELSE NewestRows(CountDepth(op, lim), hits) :
                 \E shown \in Page(PassesFilter(read, op), op.off, lim) :
                    results' = [results EXCEPT ![t] = Append(@, {ItemOf(r) : r \in shown})]
      BY <2>2 DEF Search, Give
    <3>1. PICK shown \in Page(PassesFilter(read, op), op.off, lim) :
                 results' = [results EXCEPT ![t] = Append(@, {ItemOf(r) : r \in shown})]
      BY <3>0
    <3>2. read \in NewestRows(IF op.query = Nothing THEN Pool ELSE CountDepth(op, lim),
                              Enumeration(op))
      <4> HIDE DEF op, lim
      <4> QED BY <3>0 DEF Enumeration
    <3>3. TableOf(entities)
      BY DEF KvInv
    <3> HIDE DEF op, lim
    <3>4. /\ ItemsOf(shown) \subseteq Store!Found(op)
          /\ Store!Fits(ItemsOf(shown), Store!Found(op), Store!Enumerated(op), op)
      <4>1. lim = Clamp(op.lim, 10) /\ shown \in Page(PassesFilter(read, op), op.off, lim)
        BY <3>1 DEF lim
      <4> QED BY <1>1, <1>2, <2>2, <3>2, <3>3, <4>1, SearchFits
    <3> QED BY <3>1, <3>4 DEF ItemsOf
  <2> QED BY <2>1, <2>2
<1>4. PICK a : /\ results' = [results EXCEPT ![t] = Append(@, a)]
               /\ a \subseteq Store!Found(op)
               /\ Store!Fits(a, Store!Found(op), Store!Enumerated(op), op)
  BY <1>3
<1>5. a \in Store!Answers(op) /\ Store!Answer(op, a)
  <2> HIDE DEF op
  <2> QED BY <1>1, <1>4 DEF Store!Answers, Store!Answer
<1>6. RunState' = RunState
  BY <1>1 DEF RunState, AtWork
<1>7. AtWork(t) /\ Validated(t)
  BY <1>1 DEF KvInv, CallsOK, AtWork
<1>8. ItemsOf(entities') = (IF op.kind = "put" THEN Store!Put(op) ELSE ItemsOf(entities))
  BY <1>1
<1> HIDE DEF op
<1> QED BY <1>1, <1>4, <1>5, <1>6, <1>7, <1>8, EffectOf DEF op

LEMMA ListEffect ==
  ASSUME KvInv, NEW t \in StoreThreads, ListNamespaces(t)
  PROVE  Store!Effect(t)
<1> DEFINE op == Op(t)
<1>1. /\ thread[t] = "op" /\ Len(results[t]) < Len(ops[t]) /\ op.kind = "list"
      /\ thread' = thread /\ ops' = ops /\ entities' = entities
  BY DEF ListNamespaces, AtOp, Stays
<1>1a. PICK read \in NewestRows(Pool, entities) :
        \E shown \in Page(Namespaces({Decode(r.cat) : r \in read}, op), op.off, Clamp(op.lim, 100)) :
             results' = [results EXCEPT ![t] = Append(@, shown)]
  BY DEF ListNamespaces, Give
<1>2. PICK shown \in Page(Namespaces({Decode(r.cat) : r \in read}, op), op.off, Clamp(op.lim, 100)) :
             results' = [results EXCEPT ![t] = Append(@, shown)]
  BY <1>1a
<1>3. IsOp(op) /\ TableOf(entities)
  BY <1>1, AtAnOp DEF KvInv
<1> HIDE DEF op
<1>4. /\ shown \subseteq Store!Listed(op)
      /\ Store!Fits(shown, Store!Listed(op), {ItemOf(r) : r \in entities}, op)
  BY <1>1, <1>2, <1>3, ListFits
<1>5. shown \in Store!Answers(op) /\ Store!Answer(op, shown)
  BY <1>1, <1>4 DEF Store!Answers, Store!Answer
<1>6. RunState' = RunState
  BY <1>1 DEF RunState, AtWork
<1>7. AtWork(t) /\ Validated(t)
  BY <1>1 DEF KvInv, CallsOK, AtWork
<1>8. ItemsOf(entities') = (IF op.kind = "put" THEN Store!Put(op) ELSE ItemsOf(entities))
  BY <1>1
<1> QED BY <1>1, <1>2, <1>5, <1>6, <1>7, <1>8, EffectOf DEF op

LEMMA CommitEffect ==
  ASSUME KvInv, NEW t \in StoreThreads, CommitPut(t)
  PROVE  Store!Effect(t)
<1> DEFINE op == Op(t)
<1>1. /\ thread[t] = "commit" /\ ops' = ops /\ entities' = draft
      /\ results' = [results EXCEPT ![t] = Append(@, Nothing)]
  BY DEF CommitPut, Give
<1>2. PICK to \in {"op", "readback"} : thread' = [thread EXCEPT ![t] = to]
  BY DEF CommitPut, Goto
<1>3. /\ Len(results[t]) < Len(ops[t]) /\ op.kind = "put"
      /\ draft = AfterPut(entities, op) /\ Validated(t) /\ AtWork(t)
  BY <1>1 DEF KvInv, DraftOK, Writing, CallsOK, AtWork
<1>4. Plainly(op.ns)
  BY <1>1, <1>3, AtAnOp DEF KvInv
<1>5. ItemsOf(entities') =
        (ItemsOf(entities) \ ItemsNamed(ItemsOf(entities), op.ns, op.key)) \union
          (IF op.value = Nothing THEN {}
           ELSE {[ns |-> op.ns, key |-> op.key, value |-> op.value]})
  BY <1>1, <1>3, <1>4, PutsItem DEF KvInv
<1>6. Store!Put(op) =
        (ItemsOf(entities) \ ItemsNamed(ItemsOf(entities), op.ns, op.key)) \union
          (IF op.value = Nothing THEN {}
           ELSE {[ns |-> op.ns, key |-> op.key, value |-> op.value]})
  <2>1. Store!At(op.ns, op.key) = ItemsNamed(ItemsOf(entities), op.ns, op.key)
    BY DEF Store!At, ItemsNamed, ItemsOf
  <2> HIDE DEF op
  <2> QED BY <2>1 DEF Store!Put, ItemsOf
<1>7. RunState' = RunState
  BY <1>2, <1>3, RunsOn DEF KvInv
<1>8. Nothing \in Store!Answers(op) /\ Store!Answer(op, Nothing)
  <2> HIDE DEF op
  <2> QED BY <1>3 DEF Store!Answers, Store!Answer
<1>9. ItemsOf(entities') = (IF op.kind = "put" THEN Store!Put(op) ELSE ItemsOf(entities))
  <2> HIDE DEF op
  <2> QED BY <1>3, <1>5, <1>6
<1> HIDE DEF op
<1> QED BY <1>1, <1>3, <1>7, <1>8, <1>9, EffectOf DEF op

\* No step of the abstract store.
Unseen == UNCHANGED <<{ItemOf(r) : r \in entities}, ops, results, RunState>>

LEMMA OthersAlike ==
  ASSUME KvInv, NEW x \in OtherRows, OtherProgram(x)
  PROVE  Store!OtherProgram(ItemOf(x))
<1> DEFINE rest == {r \in entities : ~(r.cat = x.cat /\ r.key = x.key)}
           item == ItemOf(x)
           held == ItemsNamed(ItemsOf(entities), item.ns, item.key)
<1>1. /\ entities' \in {rest, rest \union {x}}
      /\ thread' = thread /\ ops' = ops /\ results' = results
  BY DEF OtherProgram, agentVars
<1>2. \A r \in entities : (r.cat = x.cat /\ r.key = x.key)
                            <=> (ItemOf(r).ns = item.ns /\ ItemOf(r).key = item.key)
  <2> SUFFICES ASSUME NEW r \in entities
               PROVE  r.cat = x.cat /\ r.key = x.key
                        <=> (ItemOf(r).ns = item.ns /\ ItemOf(r).key = item.key)
    OBVIOUS
  <2>1. IsSequence(r.cat) /\ IsSequence(x.cat)
    BY CallsAndRows DEF KvInv, TableOf, IsRow
  <2>2. /\ ItemOf(r).ns = Decode(r.cat) /\ ItemOf(r).key = r.key
        /\ item.ns = Decode(x.cat) /\ item.key = x.key
    BY DEF ItemOf
  <2>3. Decode(r.cat) = Decode(x.cat) => r.cat = x.cat
    BY <2>1, DecodesApart
  <2> HIDE DEF item
  <2> QED BY <2>2, <2>3
<1>3. ItemsOf(rest) = ItemsOf(entities) \ held
  BY <1>2 DEF ItemsOf, ItemsNamed
<1>4. ItemsOf(rest \union {x}) = (ItemsOf(entities) \ held) \union {item}
  BY <1>3 DEF ItemsOf
<1>5. Store!At(item.ns, item.key) = held
  BY DEF Store!At, ItemsNamed, ItemsOf
<1>6. ItemsOf(entities') \in {(ItemsOf(entities) \ held) \union {item}, ItemsOf(entities) \ held}
  <2> HIDE DEF rest, held, item
  <2> QED BY <1>1, <1>3, <1>4
<1>7. RunState' = RunState
  BY <1>1 DEF RunState, AtWork
<1> HIDE DEF held, item
<1> QED BY <1>1, <1>5, <1>6, <1>7 DEF Store!OtherProgram, RunState, ItemsOf, item

LEMMA StepsAlike ==
  ASSUME KvInv, [StoreNext]_lgVars
  PROVE  Store!Next \/ Unseen
<1>1. ASSUME NEW t \in StoreThreads, Call(t) PROVE Store!Next
  <2>1. PICK b \in Batches : ops' = [ops EXCEPT ![t] = b]
    BY <1>1 DEF Call
  <2>2. /\ thread[t] = "idle" /\ thread' = [thread EXCEPT ![t] = "validate"]
        /\ results' = results /\ entities' = entities
    BY <1>1 DEF Call, Goto, Stays
  <2>3. RunState' = [RunState EXCEPT ![t] = "running"]
    BY <2>2, RunsOn DEF KvInv
  <2>4. RunState[t] = "idle"
    BY <2>2 DEF RunState, AtWork
  <2>5. Store!HandOver(t)
    BY <2>1, <2>2, <2>3, <2>4 DEF Store!HandOver, RunState
  <2> QED BY <2>5 DEF Store!Next
<1>2. ASSUME NEW t \in StoreThreads, Validate(t) PROVE Store!Next \/ Unseen
  <2>1. /\ thread[t] = "validate" /\ ops' = ops /\ results' = results /\ entities' = entities
        /\ AtWork(t)
    BY <1>2 DEF Validate, Stays, AtWork
  <2>2. CASE thread' = [thread EXCEPT ![t] = "op"]
    <3>1. RunState' = RunState
      BY <2>1, <2>2, RunsOn DEF KvInv
    <3> QED BY <2>1, <3>1 DEF Unseen
  <2>3. CASE thread' = [thread EXCEPT ![t] = "raised"]
    <3>1. Store!Fail({t})
      BY <2>1, <2>3, Fails DEF KvInv
    <3> QED BY <3>1 DEF Store!Next
  <2> QED BY <1>2, <2>2, <2>3 DEF Validate, Goto
<1>3. ASSUME NEW t \in StoreThreads, Finish(t) PROVE Store!Next
  <2>1. /\ thread[t] = "op" /\ Len(results[t]) = Len(ops[t])
        /\ thread' = [thread EXCEPT ![t] = "returned"]
        /\ ops' = ops /\ results' = results /\ entities' = entities
    BY <1>3 DEF Finish, Stays, Goto
  <2>2. RunState' = [RunState EXCEPT ![t] = "returned"]
    BY <2>1, RunsOn DEF KvInv
  <2>3. RunState[t] = "running"
    BY <2>1 DEF RunState, AtWork
  <2>4. Store!Return(t)
    BY <2>1, <2>2, <2>3 DEF Store!Return, RunState
  <2> QED BY <2>4 DEF Store!Next
<1>4. ASSUME NEW t \in StoreThreads,
             GateRefused(t) \/ BadRead(t) \/ BadPut(t) \/ RollbackPut(t)
      PROVE  Store!Next
  <2>1. /\ AtWork(t) /\ thread' = [thread EXCEPT ![t] = "raised"]
        /\ ops' = ops /\ results' = results /\ entities' = entities
    BY <1>4 DEF GateRefused, BadRead, BadPut, RollbackPut, AtOp, Goto, Stays, AtWork
  <2>2. Store!Fail({t})
    BY <2>1, Fails DEF KvInv
  <2> QED BY <2>2 DEF Store!Next
<1>5. ASSUME NEW t \in StoreThreads, ReadBack(t) PROVE Store!Next \/ Unseen
  <2>1. AtWork(t) /\ ops' = ops /\ results' = results /\ entities' = entities
    BY <1>5 DEF ReadBack, Stays, AtWork
  <2>2. CASE thread' = [thread EXCEPT ![t] = "op"]
    <3>1. RunState' = RunState
      BY <2>1, <2>2, RunsOn DEF KvInv
    <3> QED BY <2>1, <3>1 DEF Unseen
  <2>3. CASE thread' = [thread EXCEPT ![t] = "raised"]
    <3>1. Store!Fail({t})
      BY <2>1, <2>3, Fails DEF KvInv
    <3> QED BY <3>1 DEF Store!Next
  <2> QED BY <1>5, <2>2, <2>3 DEF ReadBack, Goto
<1>6. ASSUME NEW t \in StoreThreads, BeginPut(t) \/ Write(t) PROVE Unseen
  <2>1. AtWork(t) /\ ops' = ops /\ results' = results /\ entities' = entities
    BY <1>6 DEF BeginPut, Write, AtOp, AtWork
  <2>2. PICK to \in {"write", "commit"} : thread' = [thread EXCEPT ![t] = to]
    BY <1>6 DEF BeginPut, Write, Goto
  <2>3. RunState' = RunState
    BY <2>1, <2>2, RunsOn DEF KvInv
  <2> QED BY <2>1, <2>3 DEF Unseen
<1>7. ASSUME NEW t \in StoreThreads, Get(t) \/ Search(t) \/ ListNamespaces(t) \/ CommitPut(t)
      PROVE  Store!Next
  BY <1>7, GetEffect, SearchEffect, ListEffect, CommitEffect DEF Store!Next
<1>8. ASSUME NEW x \in OtherRows, OtherProgram(x) PROVE Store!Next
  BY <1>8, OthersAlike DEF Store!Next
<1>9. ASSUME Die PROVE Store!Next
  <2>1. PICK C \in SUBSET StoreThreads : \A t \in StoreThreads : t \in C <=> AtWork(t)
    <3>1. {t \in StoreThreads : AtWork(t)} \in SUBSET StoreThreads
      OBVIOUS
    <3> QED BY <3>1
  <2>2. /\ C # {} /\ ops' = ops /\ results' = results /\ entities' = entities
        /\ thread' = [t \in StoreThreads |-> IF AtWork(t) THEN "raised" ELSE thread[t]]
    BY <1>9, <2>1 DEF Die
  <2>3. \A t \in C : RunState[t] = "running"
    BY <2>1 DEF RunState
  <2>4. RunState' = [t \in StoreThreads |-> IF t \in C THEN "raised" ELSE RunState[t]]
    BY <2>1, <2>2 DEF RunState, AtWork
  <2>5. Store!Fail(C)
    BY <2>2, <2>3, <2>4 DEF Store!Fail, RunState
  <2> QED BY <2>5 DEF Store!Next
<1>10. ASSUME UNCHANGED lgVars PROVE Unseen
  BY <1>10 DEF lgVars, agentVars, Unseen, RunState, AtWork
<1> QED BY <1>1, <1>2, <1>3, <1>4, <1>5, <1>6, <1>7, <1>8, <1>9, <1>10 DEF StoreNext, Step

\* What batch() does, in every thread and beside every other program, is what
\* the abstract store allows: each operation takes effect at one moment.
THEOREM BatchesAreAtomic == StoreSpec => IsKeyValueStore
<1>1. StoreInit => KvInv /\ Store!Init
  BY KvStart, StartsAlike
<1>2. KvInv /\ [StoreNext]_lgVars => KvInv'
  BY KvStep
<1>3. KvInv /\ [StoreNext]_lgVars => [Store!Next]_(Store!storeVars)
  <2>1. Unseen => UNCHANGED Store!storeVars
    BY DEF Unseen, Store!storeVars, RunState
  <2> QED BY <2>1, StepsAlike
<1> QED BY <1>1, <1>2, <1>3, PTL DEF StoreSpec, IsKeyValueStore, Store!Spec
=============================================================================
