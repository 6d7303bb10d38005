-------------------------------- MODULE SignIn --------------------------------
(***************************************************************************)
(* The commands of cli.py that change which sign-in a computer holds:      *)
(* sibyl init, logout, devices revoke, email verify, upgrade and claim,    *)
(* against the account service (external, as the CLI calls it).  One       *)
(* account, one command at a time on a computer; commands of several       *)
(* computers, the person in the browser and the service interleave, and a  *)
(* command may be killed between any two of its calls.                     *)
(*                                                                         *)
(* A sign-in is the bearer row the service makes when a pairing request is *)
(* bound; both have the number the terminal gave the request.  0 is none.  *)
(***************************************************************************)
EXTENDS Integers, FiniteSets

CONSTANTS
  Computers,
  MaxSession,   \* bound: pairing requests of a behaviour
  FreeLimit,    \* computers an account may sign in on the free plan
  PaidLimit     \* and on a paid one

ASSUME Limits ==
  MaxSession \in Nat /\ FreeLimit \in Nat \ {0} /\ PaidLimit \in Nat \ {0}

Sessions == 1..MaxSession
Plans == {"free", "paid"}

VARIABLES
  plan,       \* the account's plan at the service
  email,      \* "open", "confirmed"
  active,     \* sign-ins the service honours
  request,    \* session -> "none", "open", "bound", "declined"
  replaces,   \* session -> the sign-in session-init named, 0 when none reached the service
  from,       \* session -> the computer of the terminal
  file,       \* computer -> [token, tier]: credentials.json
  pass,       \* computer -> the sign-in its entitlement.json is bound to
  cmd,        \* computer -> [at, session, creds, tier]: the running command
  given       \* sessions a terminal or a logout left behind, and said so

vars == <<plan, email, active, request, replaces, from, file, pass, cmd, given>>
service == <<plan, email, active, request, replaces, from>>

NoFile == [token |-> 0, tier |-> "free"]
Idle == [at |-> "idle", session |-> 0, creds |-> NoFile, tier |-> "free"]
Limit == IF plan = "free" THEN FreeLimit ELSE PaidLimit

Init ==
  /\ plan = "free" /\ email = "open" /\ active = {}
  /\ request = [s \in Sessions |-> "none"] /\ replaces = [s \in Sessions |-> 0]
  /\ from \in [Sessions -> Computers]
  /\ file = [c \in Computers |-> NoFile] /\ pass = [c \in Computers |-> 0]
  /\ cmd = [c \in Computers |-> Idle] /\ given = {}

Runs(c, at) == cmd[c].at = at
Ends(c) == cmd' = [cmd EXCEPT ![c] = Idle]
Goes(c, at) == cmd' = [cmd EXCEPT ![c].at = at]
Starts(c, at, s) ==
  /\ Runs(c, "idle")
  /\ cmd' = [cmd EXCEPT ![c] = [at |-> at, session |-> s, creds |-> file[c], tier |-> file[c].tier]]
Honoured(c) == cmd[c].creds.token \in active

-------------------------------------------------------------------------------
(* sibyl init *)

\* The sign-in a new bind gives up: the one session-init named.
Kept(s) == active \ {replaces[s]}

\* The request is not bound then, and /check says so.
AtLimit(s) == Cardinality(Kept(s)) >= Limit

\* The credentials this computer holds, named so that the service revokes them
\* in the transaction of the new bind.
NoPriorToken(c) == 0
PriorToken(c) == file[c].token

\* session-init reaches the service or fails: a failure is a warning, the
\* wallet path works without it, and the prior sign-in is then not named.
\* What is left of it is the next sign-in's loss.
InitStart(c, s, reached) ==
  /\ request[s] = "none" /\ \A r \in Sessions : r < s => request[r] # "none"
  /\ from[s] = c
  /\ Starts(c, "poll", s)
  /\ request' = [request EXCEPT ![s] = "open"]
  /\ replaces' = [replaces EXCEPT ![s] = IF reached THEN PriorToken(c) ELSE 0]
  /\ given' = IF reached THEN given ELSE given \union ({file[c].token} \ {0})
  /\ UNCHANGED <<plan, email, active, from, file, pass>>

\* credentials.json, then the entitlement of the answer or none; then the email
\* step, which asks for a code while the address is not confirmed.
Deliver(c) ==
  LET s == cmd[c].session  new == [token |-> s, tier |-> plan] IN
  /\ Runs(c, "poll") /\ request[s] = "bound"
  /\ file' = [file EXCEPT ![c] = new]
  /\ \E p \in {0, s} : pass' = [pass EXCEPT ![c] = p]
  /\ IF email = "open"
       THEN cmd' = [cmd EXCEPT ![c] = [at |-> "code", session |-> 0, creds |-> new, tier |-> plan]]
       ELSE Ends(c)
  /\ UNCHANGED <<service, given>>

Abandons(c) ==
  /\ given' = given \union {cmd[c].session}
  /\ Ends(c)
  /\ UNCHANGED <<service, file, pass>>

\* The deadline, Ctrl-C, or an answer that is an error.  The request is the
\* service's to forget: until then it can still be bound.
InitStops(c) == Runs(c, "poll") /\ Abandons(c)

\* The limit is shown once; the person stops, or the terminal goes on waiting.
StopsAtLimit(c) ==
  /\ Runs(c, "poll") /\ request[cmd[c].session] = "open" /\ AtLimit(cmd[c].session)
  /\ Abandons(c)

Declined(c) ==
  /\ Runs(c, "poll") /\ request[cmd[c].session] = "declined"
  /\ Abandons(c)

-------------------------------------------------------------------------------
(* sibyl email add, verify, confirm *)

EmailStart(c) ==
  /\ file[c].token # 0
  /\ Starts(c, "code", 0)
  /\ UNCHANGED <<service, file, pass, given>>

\* The service confirms the address for the sign-in that asks, keeps that one
\* and signs the others out.
Confirm(c) ==
  /\ Runs(c, "code") /\ Honoured(c) /\ email = "open"
  /\ email' = "confirmed" /\ active' = {cmd[c].creds.token}
  /\ cmd' = [cmd EXCEPT ![c] = [@ EXCEPT !.at = "confirmed", !.tier = plan]]
  /\ UNCHANGED <<plan, request, replaces, from, file, pass, given>>

\* The re-issued credentials with this computer's own token, or, from a service
\* that sends none, nothing; and the re-issued entitlement.
ConfirmWrites(c, sent) ==
  LET own == cmd[c].creds.token IN
  /\ Runs(c, "confirmed")
  /\ file' = IF sent THEN [file EXCEPT ![c] = [token |-> own, tier |-> cmd[c].tier]] ELSE file
  /\ pass' = IF sent THEN [pass EXCEPT ![c] = own] ELSE pass
  /\ Ends(c)
  /\ UNCHANGED <<service, given>>

\* 401, a wrong code, an empty answer, a failed call.
CommandFails(c) ==
  /\ cmd[c].at \in {"code", "watch", "claim", "list"}
  /\ Ends(c)
  /\ UNCHANGED <<service, file, pass, given>>

-------------------------------------------------------------------------------
(* sibyl upgrade, sibyl claim *)

UpgradeStart(c) ==
  /\ file[c].token \in active
  /\ Starts(c, "watch", 0)
  /\ UNCHANGED <<service, file, pass, given>>

UpgradeSeen(c) ==
  /\ Runs(c, "watch") /\ Honoured(c) /\ plan # cmd[c].creds.tier
  /\ cmd' = [cmd EXCEPT ![c] = [@ EXCEPT !.at = "hint", !.tier = plan]]
  /\ UNCHANGED <<service, file, pass, given>>

Claim(c) ==
  /\ file[c].token \in active
  /\ Runs(c, "idle")
  /\ plan' = "paid"
  /\ cmd' = [cmd EXCEPT ![c] = [at |-> "hint", session |-> 0, creds |-> file[c], tier |-> "paid"]]
  /\ UNCHANGED <<email, active, request, replaces, from, file, pass, given>>

\* The credentials read at the start, without their signature, with the new tier.
HintWrites(c) ==
  /\ Runs(c, "hint")
  /\ file' = [file EXCEPT ![c] = [cmd[c].creds EXCEPT !.tier = cmd[c].tier]]
  /\ Ends(c)
  /\ UNCHANGED <<service, pass, given>>

-------------------------------------------------------------------------------
(* sibyl logout, sibyl devices revoke *)

\* The devices are listed, this one is found and revoked; whatever fails, the
\* command goes on and prints that the sign-in may still be active.
LogoutRevokes(c, confirmed) ==
  /\ file[c].token # 0
  /\ confirmed => file[c].token \in active
  /\ Starts(c, "leave", 0)
  /\ active' = IF confirmed THEN active \ {file[c].token} ELSE active
  /\ given' = IF confirmed THEN given ELSE given \union {file[c].token}
  /\ UNCHANGED <<plan, email, request, replaces, from, file, pass>>

LogoutRemoves(c) ==
  /\ Runs(c, "leave")
  /\ file' = [file EXCEPT ![c] = NoFile]
  /\ pass' = [pass EXCEPT ![c] = 0]
  /\ Ends(c)
  /\ UNCHANGED <<service, given>>

\* The rows the index may name: not this device.
Revocable(c) == active \ {file[c].token}

RevokeLists(c) ==
  /\ file[c].token \in active
  /\ \E s \in Revocable(c) : Starts(c, "list", s)
  /\ UNCHANGED <<service, file, pass, given>>

RevokePosts(c) ==
  /\ Runs(c, "list") /\ Honoured(c)
  /\ active' = active \ {cmd[c].session}
  /\ Ends(c)
  /\ UNCHANGED <<plan, email, request, replaces, from, file, pass, given>>

\* A kill between the service's answer and the files.
Killed(c) ==
  /\ cmd[c].at \in {"confirmed", "hint", "leave"}
  /\ Ends(c)
  /\ UNCHANGED <<service, file, pass, given>>

-------------------------------------------------------------------------------
(* The person in the browser, and the service *)

Bind(s) ==
  /\ request[s] = "open" /\ ~ AtLimit(s)
  /\ request' = [request EXCEPT ![s] = "bound"]
  /\ active' = Kept(s) \union {s}
  /\ UNCHANGED <<plan, email, replaces, from, file, pass, cmd, given>>

Decline(s) ==
  /\ request[s] = "open"
  /\ request' = [request EXCEPT ![s] = "declined"]
  /\ UNCHANGED <<plan, email, active, replaces, from, file, pass, cmd, given>>

\* Security page: one computer is signed out.
PageSignsOut(s) ==
  /\ s \in active /\ active' = active \ {s}
  /\ UNCHANGED <<plan, email, request, replaces, from, file, pass, cmd, given>>

\* The first sign-in on the account page with the address proves the mailbox and
\* signs out every computer set up before.
PageConfirms ==
  /\ email = "open" /\ email' = "confirmed" /\ active' = {}
  /\ UNCHANGED <<plan, request, replaces, from, file, pass, cmd, given>>

Buys ==
  /\ plan = "free" /\ plan' = "paid"
  /\ UNCHANGED <<email, active, request, replaces, from, file, pass, cmd, given>>

Command(c) ==
  \/ \E s \in Sessions, reached \in BOOLEAN : InitStart(c, s, reached)
  \/ Deliver(c) \/ InitStops(c) \/ StopsAtLimit(c) \/ Declined(c)
  \/ EmailStart(c) \/ Confirm(c) \/ (\E sent \in BOOLEAN : ConfirmWrites(c, sent))
  \/ CommandFails(c) \/ Killed(c)
  \/ UpgradeStart(c) \/ UpgradeSeen(c) \/ Claim(c) \/ HintWrites(c)
  \/ (\E confirmed \in BOOLEAN : LogoutRevokes(c, confirmed)) \/ LogoutRemoves(c)
  \/ RevokeLists(c) \/ RevokePosts(c)

Next ==
  \/ \E c \in Computers : Command(c)
  \/ \E s \in Sessions : Bind(s) \/ Decline(s) \/ PageSignsOut(s)
  \/ PageConfirms \/ Buys

Spec == Init /\ [][Next]_vars

-------------------------------------------------------------------------------
Creds == [token : 0..MaxSession, tier : Plans]

\* Types, of every variable of the module.
TypeOK ==
  /\ plan \in Plans /\ email \in {"open", "confirmed"}
  /\ active \subseteq Sessions /\ given \subseteq Sessions
  /\ request \in [Sessions -> {"none", "open", "bound", "declined"}]
  /\ replaces \in [Sessions -> 0..MaxSession] /\ from \in [Sessions -> Computers]
  /\ file \in [Computers -> Creds] /\ pass \in [Computers -> 0..MaxSession]
  /\ cmd \in [Computers -> [at : {"idle", "poll", "code", "confirmed", "watch", "hint", "list", "leave"},
                            session : 0..MaxSession, creds : Creds, tier : Plans]]

\* Every sign-in the service honours is the one its computer's credentials name,
\* or its terminal is still waiting for it, or a command left it behind and said
\* so (a timeout, a stop, a logout that could not be confirmed, a session-init
\* that failed): cli.py's re-activation (R1), logout and revoke leave no other
\* sign-in that holds one of the account's computer slots.
SlotsAccounted ==
  \A s \in active \ given :
    \/ file[from[s]].token = s
    \/ cmd[from[s]].at = "poll" /\ cmd[from[s]].session = s

=============================================================================
