----------------------------- MODULE McpClient -----------------------------
(***************************************************************************)
(* The MCP server's memory client.  One client is cached for the process;  *)
(* every tool call looks at credentials.json and entitlement.json first    *)
(* and builds a new one when either has changed, while sign-ins, sign-outs *)
(* and renewals of the pass rewrite the files from other programs.  The    *)
(* account gate reads both files again inside the operation; the tenant    *)
(* the operation touches is the client's.                                  *)
(*                                                                         *)
(* A file's modification time is the number of the write that made it; the *)
(* fingerprint of entitlement.json is the pass's serial number.            *)
(***************************************************************************)
EXTENDS Integers, FiniteSets

CONSTANTS
  Workers,     \* the threads that run tools
  Accounts,
  Absent,      \* no file, no client
  MaxWrites,   \* bound: rewrites of the two files
  MaxCalls     \* bound: tool calls of a worker

ASSUME ServerBounds == MaxWrites \in Nat /\ MaxCalls \in Nat /\ Absent \notin Accounts \union Workers

VARIABLES
  creds,        \* credentials.json: [account, mtime], or Absent
  pass,         \* entitlement.json: [account, serial], or Absent
  writes,       \* files written or removed so far
  cache,        \* _client_cache: [tenant, mtime, serial], or Absent
  clients,      \* clients whose storage is open
  clientLock,   \* _client_lock: its holder, or Absent
  stage,        \* worker -> its step
  saw,          \* worker -> what it has read of the files: [mtime, serial]
  mine,         \* worker -> the tenant of the client it works with
  calls,
  meant         \* history: worker -> tenants the credentials have meant since its call began

fileVars == <<creds, pass, writes>>
serverVars == <<cache, clients, clientLock, stage, saw, mine, calls>>
mcpVars == <<fileVars, serverVars, meant>>

\* The tenant ladder: a server-issued tenant or the account is one value
\* here, and no credentials mean DEFAULT_TENANT.
TenantOf(c) == IF c = Absent THEN "default" ELSE c.account
MtimeOf(c) == IF c = Absent THEN 0 ELSE c.mtime
SerialOf(p) == IF p = Absent THEN 0 ELSE p.serial

McpInit ==
  /\ creds \in {Absent} \union {[account |-> a, mtime |-> 1] : a \in Accounts}
  /\ pass = IF creds = Absent THEN Absent ELSE [account |-> creds.account, serial |-> 1]
  /\ writes = 1
  /\ cache = Absent /\ clients = 0 /\ clientLock = Absent
  /\ stage = [w \in Workers |-> "idle"]
  /\ saw = [w \in Workers |-> [mtime |-> 0, serial |-> 0]]
  /\ mine = [w \in Workers |-> "default"]
  /\ calls = [w \in Workers |-> 0]
  /\ meant = [w \in Workers |-> {}]

Goes(w, to) == stage' = [stage EXCEPT ![w] = to]
Inside(w) == stage[w] \notin {"idle", "served", "refused"}
Files == UNCHANGED <<fileVars, meant>>

\* A terminal: sign-in, sign-out, renewal; one atomic replace of one file.
Rewrite ==
  /\ writes < MaxWrites
  /\ writes' = writes + 1
  /\ \/ /\ creds' \in {Absent} \union {[account |-> a, mtime |-> writes + 1] : a \in Accounts}
        /\ creds' # creds /\ UNCHANGED pass
     \/ /\ pass' \in {Absent} \union {[account |-> a, serial |-> writes + 1] : a \in Accounts}
        /\ pass' # pass /\ UNCHANGED creds
  /\ meant' = [w \in Workers |->
                 IF Inside(w) THEN meant[w] \union {TenantOf(creds')} ELSE meant[w]]
  /\ UNCHANGED serverVars

BeginCall(w) ==
  /\ ~Inside(w) /\ calls[w] < MaxCalls
  /\ calls' = [calls EXCEPT ![w] = @ + 1]
  /\ meant' = [meant EXCEPT ![w] = {TenantOf(creds)}]
  /\ Goes(w, "open")
  /\ UNCHANGED <<fileVars, cache, clients, clientLock, saw, mine>>

\* _credentials_mtime and whether the file is there, under the lock.
StatCreds(w) ==
  /\ stage[w] = "open" /\ clientLock = Absent
  /\ clientLock' = w
  /\ saw' = [saw EXCEPT ![w].mtime = MtimeOf(creds)]
  /\ Goes(w, "pass")
  /\ Files /\ UNCHANGED <<cache, clients, mine, calls>>

ReadPass(w) ==
  /\ stage[w] = "pass"
  /\ saw' = [saw EXCEPT ![w].serial = SerialOf(pass)]
  /\ Goes(w, "compare")
  /\ Files /\ UNCHANGED <<cache, clients, clientLock, mine, calls>>

AppearsOrVanishes(w) ==
  IF cache = Absent THEN TRUE ELSE (cache.mtime = 0) # (saw[w].mtime = 0)
Outdated(w) ==
  IF cache = Absent THEN TRUE
  ELSE cache.mtime # saw[w].mtime \/ cache.serial # saw[w].serial

Reuse(w) ==
  /\ stage[w] = "compare" /\ ~Outdated(w)
  /\ mine' = [mine EXCEPT ![w] = cache.tenant]
  /\ clientLock' = Absent
  /\ Goes(w, "gate")
  /\ Files /\ UNCHANGED <<cache, clients, saw, calls>>

\* _build_client reads credentials.json once more.
Build(w) ==
  /\ stage[w] = "compare" /\ Outdated(w)
  /\ mine' = [mine EXCEPT ![w] = TenantOf(creds)]
  /\ clients' = clients + 1
  /\ Goes(w, "swap")
  /\ Files /\ UNCHANGED <<cache, clientLock, saw, calls>>

CloseOld == IF cache = Absent THEN clients ELSE clients - 1

\* The old storage is closed, the new client kept under what was read before
\* it was built.
Swap(w) ==
  /\ stage[w] = "swap"
  /\ clients' = CloseOld
  /\ cache' = [tenant |-> mine[w], mtime |-> saw[w].mtime, serial |-> saw[w].serial]
  /\ clientLock' = Absent
  /\ Goes(w, "gate")
  /\ Files /\ UNCHANGED <<saw, mine, calls>>

Entitled == creds # Absent /\ pass # Absent /\ pass.account = creds.account
Gate(w) ==
  /\ stage[w] = "gate"
  /\ Goes(w, IF Entitled THEN "operate" ELSE "refused")
  /\ Files /\ UNCHANGED <<cache, clients, clientLock, saw, mine, calls>>

Operate(w) ==
  /\ stage[w] = "operate"
  /\ Goes(w, "served")
  /\ Files /\ UNCHANGED <<cache, clients, clientLock, saw, mine, calls>>

McpNext ==
  \/ Rewrite
  \/ \E w \in Workers :
       BeginCall(w) \/ StatCreds(w) \/ ReadPass(w) \/ Reuse(w) \/ Build(w) \/ Swap(w)
         \/ Gate(w) \/ Operate(w)

McpSpec == McpInit /\ [][McpNext]_mcpVars

-----------------------------------------------------------------------------
\* A tool that found somebody signed in works on the memory of an account the
\* credentials named while it ran: after a sign-in the next call is the new
\* account's, also when the files changed while a client was being built from
\* them.  (One that found nobody is refused by the gate, unless somebody signs
\* in before it looks; what client it then has may be older.)
ServesTheSignedIn ==
  \A w \in Workers :
    stage[w] \in {"operate", "served"} /\ saw[w].mtime # 0 => mine[w] \in meant[w]
=============================================================================
