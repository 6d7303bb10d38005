---------------------------- MODULE SignIn_proofs ----------------------------
(***************************************************************************)
(* Proofs about SignIn, for any computers, pairing requests and limits of  *)
(* the two plans, and about the Adoption that follows a sign-in, for any   *)
(* accounts, names, rows and edges.                                        *)
(***************************************************************************)
EXTENDS SignIn, Adoption, FiniteFolds

USE Limits

Polls(c) == cmd[c].at = "poll"

\* What is honoured was bound, and so was what a credentials file names; the
\* request a terminal waits for was made on its computer.
Bound ==
  /\ \A s \in active : request[s] = "bound"
  /\ \A c \in Computers : file[c].token # 0 =>
       from[file[c].token] = c /\ request[file[c].token] = "bound"
  /\ \A c \in Computers : Polls(c) =>
       cmd[c].session \in Sessions /\ from[cmd[c].session] = c

\* A request that may still be bound is waited for, or was left behind.
OpenIsAwaited ==
  \A s \in Sessions : request[s] = "open" =>
    s \in given \/ (Polls(from[s]) /\ cmd[from[s]].session = s)

\* The sign-in a poll is about to overwrite is the one its bind gives up.
OldGivenUp ==
  \A c \in Computers : Polls(c) /\ file[c].token # 0 /\ file[c].token \notin given =>
    /\ request[cmd[c].session] = "open" => replaces[cmd[c].session] = file[c].token
    /\ request[cmd[c].session] = "bound" => file[c].token \notin active

\* A command that writes credentials back read the ones that are still there.
ReadsStand ==
  \A c \in Computers : cmd[c].at \notin {"idle", "poll"} =>
    cmd[c].creds.token = file[c].token

\* A logout removes the files of a sign-in that is revoked or was named.
LeavesNothing ==
  \A c \in Computers : cmd[c].at = "leave" => file[c].token \notin active \ given

SlotsInv ==
  /\ TypeOK /\ Bound /\ OpenIsAwaited /\ OldGivenUp /\ ReadsStand /\ LeavesNothing
  /\ SlotsAccounted

-----------------------------------------------------------------------------

LEMMA SlotsStart == Init => SlotsInv
<1> SUFFICES ASSUME Init PROVE SlotsInv
  OBVIOUS
<1>1. TypeOK
  BY DEF Init, TypeOK, Creds, Plans, NoFile, Idle
<1>2. QED
  BY <1>1 DEF Init, SlotsInv, Bound, OpenIsAwaited, OldGivenUp, ReadsStand, LeavesNothing,
              SlotsAccounted, Polls, NoFile, Idle

-----------------------------------------------------------------------------
(* Types.                                                                   *)

Commands == [at : {"idle", "poll", "code", "confirmed", "watch", "hint", "list", "leave"},
             session : 0..MaxSession, creds : Creds, tier : Plans]

\* A token is a sign-in, or 0.
LEMMA TokensOf ==
  ASSUME TypeOK
  PROVE  \A c \in Computers : file[c].token # 0 => file[c].token \in Sessions
<1>1. \A c \in Computers : file[c] \in Creds
  BY DEF TypeOK
<1>2. \A k \in Creds : k.token # 0 => k.token \in Sessions
  BY DEF Creds, Sessions
<1>3. QED
  BY <1>1, <1>2

LEMMA CommandTyped ==
  ASSUME TypeOK, Bound, NEW c \in Computers, Command(c)
  PROVE  TypeOK'
<1> USE DEF service, Runs
<1>0. /\ cmd \in [Computers -> Commands] /\ cmd[c] \in Commands
      /\ file \in [Computers -> Creds] /\ file[c] \in Creds /\ plan \in Plans
      /\ pass \in [Computers -> 0..MaxSession] /\ active \subseteq Sessions /\ given \subseteq Sessions
      /\ NoFile \in Creds /\ 0 \in 0..MaxSession /\ "paid" \in Plans
  BY DEF TypeOK, Commands, Creds, NoFile, Plans
<1>i. Idle \in Commands
  BY <1>0 DEF Idle, Commands, Plans
<1>s. \A s \in Sessions : s \in 0..MaxSession
  BY DEF Sessions
<1>t. file[c].token \in 0..MaxSession /\ (file[c].token # 0 => file[c].token \in Sessions)
  BY <1>0 DEF Creds, Sessions
<1>e. Ends(c) => cmd' \in [Computers -> Commands]
  BY <1>0, <1>i DEF Ends
<1>b. ASSUME NEW at \in {"poll", "code", "watch", "leave", "list"}, NEW s \in 0..MaxSession, Starts(c, at, s)
      PROVE  cmd' \in [Computers -> Commands]
  <2>1. [at |-> at, session |-> s, creds |-> file[c], tier |-> file[c].tier] \in Commands
    BY <1>0 DEF Commands, Creds
  <2>2. QED
    BY <1>0, <1>b, <2>1 DEF Starts
<1>1. ASSUME NEW s \in Sessions, NEW reached \in BOOLEAN, InitStart(c, s, reached) PROVE TypeOK'
  <2>1. cmd' \in [Computers -> Commands]
    BY <1>1, <1>b, <1>s DEF InitStart
  <2>2. replaces' \in [Sessions -> 0..MaxSession]
    BY <1>0, <1>1, <1>t DEF InitStart, PriorToken, TypeOK
  <2>3. given' \subseteq Sessions
    BY <1>0, <1>1, <1>t DEF InitStart
  <2>4. request' \in [Sessions -> {"none", "open", "bound", "declined"}]
    BY <1>1 DEF InitStart, TypeOK
  <2>5. QED
    BY <1>1, <2>1, <2>2, <2>3, <2>4 DEF InitStart, TypeOK, Commands
<1>2. CASE Deliver(c)
  <2> DEFINE s == cmd[c].session  new == [token |-> s, tier |-> plan]
  <2>1. s \in 0..MaxSession
    BY <1>0 DEF Commands
  <2>2. new \in Creds
    BY <1>0, <2>1 DEF Creds
  <2>3. [at |-> "code", session |-> 0, creds |-> new, tier |-> plan] \in Commands
    BY <1>0, <2>2 DEF Commands
  <2>4. /\ file' = [file EXCEPT ![c] = new] /\ \E p \in {0, s} : pass' = [pass EXCEPT ![c] = p]
        /\ \/ cmd' = [cmd EXCEPT ![c] = [at |-> "code", session |-> 0, creds |-> new, tier |-> plan]]
           \/ Ends(c)
    BY <1>2 DEF Deliver
  <2> HIDE DEF s, new
  <2>5. file' \in [Computers -> Creds] /\ pass' \in [Computers -> 0..MaxSession]
        /\ cmd' \in [Computers -> Commands]
    BY <1>0, <1>e, <2>1, <2>2, <2>3, <2>4
  <2>6. QED
    BY <1>2, <2>5 DEF Deliver, TypeOK, Commands
<1>3. CASE InitStops(c) \/ StopsAtLimit(c) \/ Declined(c)
  <2>1. Abandons(c) /\ cmd[c].at = "poll"
    BY <1>3 DEF InitStops, StopsAtLimit, Declined
  <2>2. cmd[c].session \in Sessions
    BY <2>1 DEF Bound, Polls
  <2>3. QED
    BY <1>0, <1>e, <2>1, <2>2 DEF Abandons, TypeOK, Commands
<1>4. CASE EmailStart(c) \/ UpgradeStart(c)
  <2>1. cmd' \in [Computers -> Commands]
    BY <1>0, <1>4, <1>b DEF EmailStart, UpgradeStart
  <2>2. QED
    BY <1>4, <2>1 DEF EmailStart, UpgradeStart, TypeOK, Commands
<1>5. CASE Confirm(c)
  <2>1. [cmd[c] EXCEPT !.at = "confirmed", !.tier = plan] \in Commands
    BY <1>0 DEF Commands
  <2>2. cmd' \in [Computers -> Commands] /\ active' \subseteq Sessions
    BY <1>0, <1>5, <2>1 DEF Confirm, Honoured
  <2>3. QED
    BY <1>5, <2>2 DEF Confirm, TypeOK, Commands
<1>6. ASSUME NEW sent \in BOOLEAN, ConfirmWrites(c, sent) PROVE TypeOK'
  <2> DEFINE own == cmd[c].creds.token
  <2>1. own \in 0..MaxSession /\ cmd[c].tier \in Plans
    BY <1>0 DEF Commands, Creds
  <2>2. [token |-> own, tier |-> cmd[c].tier] \in Creds
    BY <2>1 DEF Creds
  <2>3. file' \in [Computers -> Creds] /\ pass' \in [Computers -> 0..MaxSession]
    BY <1>0, <1>6, <2>1, <2>2 DEF ConfirmWrites
  <2>4. QED
    BY <1>e, <1>6, <2>3 DEF ConfirmWrites, TypeOK, Commands
<1>7. CASE CommandFails(c) \/ Killed(c)
  BY <1>e, <1>7 DEF CommandFails, Killed, TypeOK, Commands
<1>8. CASE UpgradeSeen(c)
  <2>1. [cmd[c] EXCEPT !.at = "hint", !.tier = plan] \in Commands
    BY <1>0 DEF Commands
  <2>2. cmd' \in [Computers -> Commands]
    BY <1>0, <1>8, <2>1 DEF UpgradeSeen
  <2>3. QED
    BY <1>8, <2>2 DEF UpgradeSeen, TypeOK, Commands
<1>9. CASE Claim(c)
  <2>1. [at |-> "hint", session |-> 0, creds |-> file[c], tier |-> "paid"] \in Commands
    BY <1>0 DEF Commands
  <2>2. cmd' \in [Computers -> Commands]
    BY <1>0, <1>9, <2>1 DEF Claim
  <2>3. QED
    BY <1>0, <1>9, <2>2 DEF Claim, TypeOK, Commands
<1>10. CASE HintWrites(c)
  <2>1. [cmd[c].creds EXCEPT !.tier = cmd[c].tier] \in Creds
    BY <1>0 DEF Commands, Creds
  <2>2. file' \in [Computers -> Creds]
    BY <1>0, <1>10, <2>1 DEF HintWrites
  <2>3. QED
    BY <1>e, <1>10, <2>2 DEF HintWrites, TypeOK, Commands
<1>11. ASSUME NEW confirmed \in BOOLEAN, LogoutRevokes(c, confirmed) PROVE TypeOK'
  <2>1. cmd' \in [Computers -> Commands]
    BY <1>0, <1>11, <1>b DEF LogoutRevokes
  <2>2. active' \subseteq Sessions /\ given' \subseteq Sessions
    BY <1>0, <1>11, <1>t DEF LogoutRevokes
  <2>3. QED
    BY <1>11, <2>1, <2>2 DEF LogoutRevokes, TypeOK, Commands
<1>12. CASE LogoutRemoves(c)
  BY <1>0, <1>e, <1>12 DEF LogoutRemoves, TypeOK, Commands
<1>13. CASE RevokeLists(c)
  <2>1. cmd' \in [Computers -> Commands]
    BY <1>0, <1>13, <1>b, <1>s DEF RevokeLists, Revocable
  <2>2. QED
    BY <1>13, <2>1 DEF RevokeLists, TypeOK, Commands
<1>14. CASE RevokePosts(c)
  BY <1>0, <1>e, <1>14 DEF RevokePosts, TypeOK, Commands
<1>15. QED
  BY <1>1, <1>2, <1>3, <1>4, <1>5, <1>6, <1>7, <1>8, <1>9, <1>10, <1>11, <1>12, <1>13, <1>14
     DEF Command

LEMMA SurroundingsTyped ==
  ASSUME TypeOK,
         (\E s \in Sessions : Bind(s) \/ Decline(s) \/ PageSignsOut(s)) \/ PageConfirms \/ Buys
  PROVE  TypeOK'
<1>1. ASSUME NEW s \in Sessions, Bind(s) PROVE TypeOK'
  <2>1. active' \subseteq Sessions
    BY <1>1 DEF Bind, Kept, TypeOK
  <2>2. QED
    BY <1>1, <2>1 DEF Bind, TypeOK
<1>2. ASSUME NEW s \in Sessions, Decline(s) \/ PageSignsOut(s) PROVE TypeOK'
  BY <1>2 DEF Decline, PageSignsOut, TypeOK
<1>3. CASE PageConfirms \/ Buys
  BY <1>3 DEF PageConfirms, Buys, TypeOK, Plans
<1>4. QED
  BY <1>1, <1>2, <1>3

-----------------------------------------------------------------------------
(* Steps.                                                                   *)

\* Whatever makes no request and delivers none: sign-ins are given up, commands
\* end, start and move on, and every credentials file names the sign-in it did.
LEMMA NothingSignedIn ==
  ASSUME SlotsInv, TypeOK', UNCHANGED <<request, replaces, from>>,
         active' \subseteq active, given \subseteq given',
         \A d \in Computers : file'[d].token = file[d].token,
         \A d \in Computers :
           \/ cmd'[d] = cmd[d]
           \/ /\ Polls(d) => cmd[d].session \in given'
              /\ cmd'[d].at # "poll"
              /\ cmd'[d].at # "idle" => cmd'[d].creds.token = file[d].token
              /\ cmd'[d].at = "leave" => file[d].token \notin active' \ given'
  PROVE  SlotsInv'
<1>0. \A s \in Sessions : from[s] \in Computers
  BY DEF SlotsInv, TypeOK
<1>1. Bound'
  BY DEF SlotsInv, Bound, Polls
<1>2. OpenIsAwaited'
  BY <1>0 DEF SlotsInv, OpenIsAwaited, Polls
<1>3. OldGivenUp'
  BY DEF SlotsInv, OldGivenUp, Polls
<1>4. ReadsStand' /\ LeavesNothing'
  BY DEF SlotsInv, ReadsStand, LeavesNothing
<1>5. SlotsAccounted'
  BY <1>0 DEF SlotsInv, SlotsAccounted, Polls, TypeOK
<1>6. QED
  BY <1>1, <1>2, <1>3, <1>4, <1>5 DEF SlotsInv

LEMMA InitKeeps ==
  ASSUME SlotsInv, TypeOK', NEW c \in Computers, NEW s \in Sessions, NEW reached \in BOOLEAN,
         InitStart(c, s, reached)
  PROVE  SlotsInv'
<1>t. TypeOK /\ \A d \in Computers : file[d].token # 0 => file[d].token \in Sessions
  BY TokensOf DEF SlotsInv
<1>c. cmd' = [cmd EXCEPT ![c] = [at |-> "poll", session |-> s, creds |-> file[c], tier |-> file[c].tier]]
  BY DEF InitStart, Starts
<1>0. /\ from[s] = c /\ request[s] = "none" /\ cmd[c].at = "idle"
      /\ \A r \in Sessions : request'[r] = IF r = s THEN "open" ELSE request[r]
      /\ replaces'[s] = IF reached THEN file[c].token ELSE 0
      /\ \A r \in Sessions : r # s => replaces'[r] = replaces[r]
      /\ given' = IF reached THEN given ELSE given \union ({file[c].token} \ {0})
      /\ cmd'[c].at = "poll" /\ cmd'[c].session = s
      /\ \A d \in Computers : d # c => cmd'[d] = cmd[d]
      /\ UNCHANGED <<active, from, file>>
      /\ \A r \in Sessions : from[r] \in Computers
      /\ active \subseteq Sessions /\ 0 \notin Sessions
      /\ \A d \in Computers : file[d].token # 0 => file[d].token \in Sessions
  <2>1. /\ request \in [Sessions -> {"none", "open", "bound", "declined"}] /\ s \in DOMAIN replaces
        /\ cmd \in [Computers -> Commands]
    BY <1>t DEF TypeOK, Commands
  <2>0. 0 \notin Sessions
    BY DEF Sessions
  <2>2. from[s] = c /\ request[s] = "none" /\ cmd[c].at = "idle" /\ UNCHANGED <<active, from, file>>
    BY DEF InitStart, Starts, Runs
  <2>3. \A r \in Sessions : request'[r] = IF r = s THEN "open" ELSE request[r]
    BY <2>1 DEF InitStart
  <2>4. /\ replaces'[s] = IF reached THEN file[c].token ELSE 0
        /\ \A r \in Sessions : r # s => replaces'[r] = replaces[r]
    BY <2>1 DEF InitStart, PriorToken
  <2>5. given' = IF reached THEN given ELSE given \union ({file[c].token} \ {0})
    BY DEF InitStart
  <2>6. /\ cmd'[c].at = "poll" /\ cmd'[c].session = s
        /\ \A d \in Computers : d # c => cmd'[d] = cmd[d]
    BY <1>c, <2>1
  <2>7. active \subseteq Sessions /\ \A r \in Sessions : from[r] \in Computers
    BY <1>t DEF TypeOK
  <2> QED BY <1>t, <2>0, <2>1, <2>2, <2>3, <2>4, <2>5, <2>6, <2>7
<1>1. Bound'
  BY <1>0 DEF SlotsInv, Bound, Polls
<1>2. OpenIsAwaited'
  BY <1>0 DEF SlotsInv, OpenIsAwaited, Polls
<1>3. OldGivenUp'
  BY <1>0 DEF SlotsInv, OldGivenUp, Polls, Bound
<1>4. ReadsStand' /\ LeavesNothing'
  BY <1>0 DEF SlotsInv, ReadsStand, LeavesNothing
<1>5. SlotsAccounted'
  BY <1>0 DEF SlotsInv, SlotsAccounted
<1>6. QED
  BY <1>1, <1>2, <1>3, <1>4, <1>5 DEF SlotsInv

LEMMA DeliverKeeps ==
  ASSUME SlotsInv, TypeOK', NEW c \in Computers, Deliver(c)
  PROVE  SlotsInv'
<1> DEFINE s == cmd[c].session
<1>p. Polls(c) /\ request[s] = "bound" /\ s \in Sessions /\ from[s] = c /\ s # 0
  BY DEF Deliver, Runs, SlotsInv, Bound, Polls, Sessions
<1>n. /\ file' = [file EXCEPT ![c] = [token |-> s, tier |-> plan]]
      /\ \/ cmd' = [cmd EXCEPT ![c] = [at |-> "code", session |-> 0,
                                       creds |-> [token |-> s, tier |-> plan], tier |-> plan]]
         \/ cmd' = [cmd EXCEPT ![c] = Idle]
  BY DEF Deliver, Ends
<1>0. /\ Polls(c) /\ request[s] = "bound" /\ s \in Sessions /\ from[s] = c /\ s # 0
      /\ file'[c].token = s /\ cmd'[c].at \in {"idle", "code"}
      /\ cmd'[c].at = "code" => cmd'[c].creds.token = s
      /\ \A d \in Computers : d # c => cmd'[d] = cmd[d] /\ file'[d] = file[d]
      /\ UNCHANGED <<active, from, given, request, replaces>>
      /\ \A r \in Sessions : from[r] \in Computers
      /\ active \subseteq Sessions /\ 0 \notin Sessions
  <2>1. /\ UNCHANGED <<active, from, given, request, replaces>>
        /\ \A r \in Sessions : from[r] \in Computers
        /\ active \subseteq Sessions /\ 0 \notin Sessions
        /\ DOMAIN cmd = Computers /\ DOMAIN file = Computers /\ Idle.at = "idle"
    BY SMTT(30) DEF Deliver, SlotsInv, TypeOK, Idle, service, Sessions
  <2> HIDE DEF s
  <2>2. QED
    BY <1>p, <1>n, <2>1
<1> HIDE DEF s
<1>1. Bound'
  BY <1>0 DEF SlotsInv, Bound, Polls
<1>2. OpenIsAwaited'
  BY <1>0 DEF SlotsInv, OpenIsAwaited, Polls, s
<1>3. OldGivenUp'
  BY <1>0 DEF SlotsInv, OldGivenUp, Polls
<1>4. ReadsStand' /\ LeavesNothing'
  BY <1>0 DEF SlotsInv, ReadsStand, LeavesNothing
<1>5. ASSUME NEW x \in active \ given, from[x] = c PROVE x = s
  <2>1. file[c].token = x \/ (Polls(c) /\ s = x)
    BY <1>5 DEF SlotsInv, SlotsAccounted, Polls, s
  <2>2. file[c].token # x
    BY <1>0, <1>5 DEF SlotsInv, OldGivenUp, s
  <2>3. QED
    BY <2>1, <2>2
<1>6. SlotsAccounted'
  BY <1>0, <1>5 DEF SlotsInv, SlotsAccounted
<1>7. QED
  BY <1>1, <1>2, <1>3, <1>4, <1>6 DEF SlotsInv

LEMMA RemovesKeeps ==
  ASSUME SlotsInv, TypeOK', NEW c \in Computers, LogoutRemoves(c)
  PROVE  SlotsInv'
<1>0. /\ cmd[c].at = "leave" /\ cmd'[c].at = "idle" /\ file'[c].token = 0
      /\ \A d \in Computers : d # c => cmd'[d] = cmd[d] /\ file'[d] = file[d]
      /\ UNCHANGED <<active, from, given, request, replaces>>
      /\ \A r \in Sessions : from[r] \in Computers
      /\ active \subseteq Sessions /\ 0 \notin Sessions
  BY DEF LogoutRemoves, Ends, Runs, SlotsInv, TypeOK, Idle, NoFile, service, Sessions
<1>1. Bound' /\ OpenIsAwaited' /\ OldGivenUp'
  BY <1>0 DEF SlotsInv, Bound, OpenIsAwaited, OldGivenUp, Polls
<1>2. ReadsStand' /\ LeavesNothing'
  BY <1>0 DEF SlotsInv, ReadsStand, LeavesNothing
<1>3. SlotsAccounted'
  BY <1>0 DEF SlotsInv, SlotsAccounted, LeavesNothing
<1>4. QED
  BY <1>1, <1>2, <1>3 DEF SlotsInv

LEMMA BindKeeps ==
  ASSUME SlotsInv, TypeOK', NEW s \in Sessions, Bind(s)
  PROVE  SlotsInv'
<1>t. TypeOK /\ \A d \in Computers : file[d].token # 0 => file[d].token \in Sessions
  BY TokensOf DEF SlotsInv
<1>0. /\ request[s] = "open" /\ request'[s] = "bound"
      /\ \A r \in Sessions : r # s => request'[r] = request[r]
      /\ active' = (active \ {replaces[s]}) \union {s}
      /\ UNCHANGED <<from, given, replaces, file, cmd>>
      /\ active \subseteq Sessions /\ 0 \notin Sessions
      /\ \A r \in Sessions : from[r] \in Computers
      /\ \A d \in Computers : file[d].token # 0 => file[d].token \in Sessions
  BY <1>t DEF Bind, Kept, TypeOK, Sessions
<1>f. \A d \in Computers : file[d].token # s
  BY <1>0 DEF SlotsInv, Bound
<1>1. Bound'
  BY <1>0 DEF SlotsInv, Bound, Polls
<1>2. OpenIsAwaited'
  BY <1>0 DEF SlotsInv, OpenIsAwaited, Polls
<1>3. OldGivenUp'
  BY <1>0, <1>f DEF SlotsInv, OldGivenUp, Polls, Bound
<1>4. ReadsStand' /\ LeavesNothing'
  BY <1>0, <1>f DEF SlotsInv, ReadsStand, LeavesNothing
<1>5. SlotsAccounted'
  BY <1>0 DEF SlotsInv, SlotsAccounted, OpenIsAwaited, Polls
<1>6. QED
  BY <1>1, <1>2, <1>3, <1>4, <1>5 DEF SlotsInv

LEMMA DeclineKeeps ==
  ASSUME SlotsInv, TypeOK', NEW s \in Sessions, Decline(s)
  PROVE  SlotsInv'
<1>0. /\ request[s] = "open" /\ request'[s] = "declined"
      /\ \A r \in Sessions : r # s => request'[r] = request[r]
      /\ UNCHANGED <<active, from, given, replaces, file, cmd>>
      /\ active \subseteq Sessions
      /\ \A d \in Computers : file[d].token # 0 => file[d].token \in Sessions
  BY TokensOf DEF Decline, SlotsInv, TypeOK, Sessions
<1>1. QED
  BY <1>0 DEF SlotsInv, Bound, OpenIsAwaited, OldGivenUp, ReadsStand, LeavesNothing,
              SlotsAccounted, Polls

LEMMA CommandKeeps ==
  ASSUME SlotsInv, TypeOK', NEW c \in Computers, Command(c)
  PROVE  SlotsInv'
<1> USE DEF service, Runs
<1>0. /\ \A d \in Computers : file[d] \in Creds
      /\ DOMAIN cmd = Computers /\ DOMAIN file = Computers /\ Idle.at = "idle"
      /\ cmd \in [Computers -> Commands] /\ cmd[c] \in Commands
  BY DEF SlotsInv, TypeOK, Idle, Commands
<1>e. Ends(c) => cmd'[c] = Idle /\ \A d \in Computers : d # c => cmd'[d] = cmd[d]
  BY <1>0 DEF Ends
<1>r. cmd[c].at \notin {"idle", "poll"} => cmd[c].creds.token = file[c].token
  BY DEF SlotsInv, ReadsStand
<1>1. CASE \E s \in Sessions, reached \in BOOLEAN : InitStart(c, s, reached)
  BY <1>1, InitKeeps
<1>2. CASE Deliver(c)
  BY <1>2, DeliverKeeps
<1>3. CASE InitStops(c) \/ StopsAtLimit(c) \/ Declined(c)
  <2>1. Abandons(c)
    BY <1>3 DEF InitStops, StopsAtLimit, Declined
  <2>2. QED
    BY <1>0, <1>e, <2>1, NothingSignedIn DEF Abandons
<1>4. CASE EmailStart(c) \/ UpgradeStart(c) \/ RevokeLists(c)
  <2>1. /\ UNCHANGED <<service, file, given>> /\ cmd[c].at = "idle"
        /\ \E at \in {"code", "watch", "list"}, s \in Sessions \union {0} : Starts(c, at, s)
    BY <1>4 DEF EmailStart, UpgradeStart, RevokeLists, Starts, Revocable, SlotsInv, TypeOK
  <2>2. /\ cmd'[c].at \in {"code", "watch", "list"} /\ cmd'[c].creds = file[c]
        /\ \A d \in Computers : d # c => cmd'[d] = cmd[d]
    BY <1>0, <2>1 DEF Starts
  <2>3. QED
    BY <2>1, <2>2, NothingSignedIn DEF Polls
<1>5. CASE Confirm(c)
  <2>1. /\ cmd[c].at = "code" /\ active' \subseteq active
        /\ UNCHANGED <<request, replaces, from, file, given>>
        /\ cmd' = [cmd EXCEPT ![c] = [@ EXCEPT !.at = "confirmed", !.tier = plan]]
    BY <1>5 DEF Confirm, Honoured
  <2>2. /\ cmd'[c].at = "confirmed" /\ cmd'[c].creds = cmd[c].creds
        /\ \A d \in Computers : d # c => cmd'[d] = cmd[d]
    BY <1>0, <2>1 DEF Commands
  <2>3. QED
    BY <1>r, <2>1, <2>2, NothingSignedIn DEF Polls
<1>6. ASSUME NEW sent \in BOOLEAN, ConfirmWrites(c, sent) PROVE SlotsInv'
  <2>1. /\ cmd[c].at = "confirmed" /\ Ends(c) /\ UNCHANGED <<service, given>>
        /\ \A d \in Computers : file'[d].token = file[d].token
    BY <1>0, <1>r, <1>6 DEF ConfirmWrites
  <2>2. QED
    BY <1>0, <1>e, <2>1, NothingSignedIn DEF Polls
<1>7. CASE CommandFails(c) \/ Killed(c)
  <2>1. cmd[c].at # "poll" /\ Ends(c) /\ UNCHANGED <<service, file, given>>
    BY <1>7 DEF CommandFails, Killed
  <2>2. QED
    BY <1>0, <1>e, <2>1, NothingSignedIn DEF Polls
<1>8. CASE UpgradeSeen(c)
  <2>1. /\ cmd[c].at = "watch" /\ UNCHANGED <<service, file, given>>
        /\ cmd' = [cmd EXCEPT ![c] = [@ EXCEPT !.at = "hint", !.tier = plan]]
    BY <1>8 DEF UpgradeSeen
  <2>2. /\ cmd'[c].at = "hint" /\ cmd'[c].creds = cmd[c].creds
        /\ \A d \in Computers : d # c => cmd'[d] = cmd[d]
    BY <1>0, <2>1 DEF Commands
  <2>3. QED
    BY <1>r, <2>1, <2>2, NothingSignedIn DEF Polls
<1>9. CASE Claim(c)
  <2>1. /\ cmd[c].at = "idle" /\ UNCHANGED <<active, request, replaces, from, file, given>>
        /\ cmd'[c].at = "hint" /\ cmd'[c].creds = file[c]
        /\ \A d \in Computers : d # c => cmd'[d] = cmd[d]
    BY <1>0, <1>9 DEF Claim
  <2>2. QED
    BY <2>1, NothingSignedIn DEF Polls
<1>10. CASE HintWrites(c)
  <2>1. cmd[c].creds \in Creds
    BY <1>0 DEF Commands
  <2>2. [cmd[c].creds EXCEPT !.tier = cmd[c].tier].token = cmd[c].creds.token
    BY <2>1 DEF Creds
  <2>3. /\ cmd[c].at = "hint" /\ Ends(c) /\ UNCHANGED <<service, given>>
        /\ \A d \in Computers : file'[d].token = file[d].token
    BY <1>0, <1>r, <1>10, <2>2 DEF HintWrites
  <2>4. QED
    BY <1>0, <1>e, <2>3, NothingSignedIn DEF Polls
<1>11. ASSUME NEW confirmed \in BOOLEAN, LogoutRevokes(c, confirmed) PROVE SlotsInv'
  <2>1. /\ cmd[c].at = "idle" /\ UNCHANGED <<request, replaces, from, file>>
        /\ active' \subseteq active /\ given \subseteq given'
        /\ file[c].token \notin active' \ given'
        /\ cmd'[c].at = "leave" /\ cmd'[c].creds = file[c]
        /\ \A d \in Computers : d # c => cmd'[d] = cmd[d]
    BY <1>0, <1>11 DEF LogoutRevokes, Starts
  <2>2. QED
    BY <2>1, NothingSignedIn DEF Polls
<1>12. CASE LogoutRemoves(c)
  BY <1>12, RemovesKeeps
<1>13. CASE RevokePosts(c)
  <2>1. /\ cmd[c].at = "list" /\ Ends(c) /\ UNCHANGED <<request, replaces, from, file, given>>
        /\ active' \subseteq active
    BY <1>13 DEF RevokePosts
  <2>2. QED
    BY <1>0, <1>e, <2>1, NothingSignedIn DEF Polls
<1>14. QED
  BY <1>1, <1>2, <1>3, <1>4, <1>5, <1>6, <1>7, <1>8, <1>9, <1>10, <1>11, <1>12, <1>13
     DEF Command

LEMMA SlotsStep == SlotsInv /\ [Next]_vars => SlotsInv'
<1> SUFFICES ASSUME SlotsInv, [Next]_vars PROVE SlotsInv'
  OBVIOUS
<1>0. TypeOK /\ Bound
  BY DEF SlotsInv
<1>1. ASSUME NEW c \in Computers, Command(c) PROVE SlotsInv'
  BY <1>0, <1>1, CommandTyped, CommandKeeps
<1>2. ASSUME NEW s \in Sessions, Bind(s) PROVE SlotsInv'
  BY <1>0, <1>2, SurroundingsTyped, BindKeeps
<1>3. ASSUME NEW s \in Sessions, Decline(s) PROVE SlotsInv'
  BY <1>0, <1>3, SurroundingsTyped, DeclineKeeps
<1>4. CASE (\E s \in Sessions : PageSignsOut(s)) \/ PageConfirms \/ Buys
  <2>1. TypeOK'
    BY <1>0, <1>4, SurroundingsTyped
  <2>2. UNCHANGED <<request, replaces, from, file, cmd, given>> /\ active' \subseteq active
    BY <1>4 DEF PageSignsOut, PageConfirms, Buys
  <2>3. QED
    BY <2>1, <2>2, NothingSignedIn
<1>5. CASE UNCHANGED vars
  BY <1>0, <1>5 DEF vars, SlotsInv, TypeOK, Bound, OpenIsAwaited, OldGivenUp, ReadsStand,
                    LeavesNothing, SlotsAccounted, Polls
<1>6. QED
  BY <1>1, <1>2, <1>3, <1>4, <1>5 DEF Next

\* Types, for every instance.
THEOREM SignInTyped == Spec => []TypeOK
<1>1. SlotsInv => TypeOK
  BY DEF SlotsInv
<1>2. QED
  BY <1>1, SlotsStart, SlotsStep, PTL DEF Spec

\* However commands of any number of computers, the person in the browser, the
\* account page and kills interleave, no sign-in the service honours is lost: its
\* computer's credentials name it, or its terminal waits for it, or a command
\* left it behind and said so.
THEOREM NoSlotLeaks == Spec => []SlotsAccounted
<1>1. SlotsInv => SlotsAccounted
  BY DEF SlotsInv
<1>2. QED
  BY <1>1, SlotsStart, SlotsStep, PTL DEF Spec


-----------------------------------------------------------------------------
(* A move keeps every row and every fact.                                   *)

Marks == EntityNames \union DocNames \union {Min(T) : T \in SUBSET Suffixes}
AnyKey == Seq(Marks)
RowType == [ten : Tenants, key : AnyKey, st : {"none", "live", "archived", "gone"}]
EdgeType == [ten : Tenants, from : AnyKey, to : AnyKey, fromId : 0..MaxRows, toId : 0..MaxRows,
             st : {"none", "set", "gone"}]
SameHead(a, b) == a # <<>> /\ b # <<>> /\ Head(a) = Head(b)
Renames == {p \in AnyKey \X AnyKey : SameHead(p[1], p[2])}

\* A stamp is a row that was written under the name the edge gives, whatever
\* suffix either has by now.
StampFits(key, stamp) == stamp # 0 => rows[stamp].st # "none" /\ SameHead(key, rows[stamp].key)
Stamped(edge) == StampFits(edge.from, edge.fromId) /\ StampFits(edge.to, edge.toId)

RowsTyped ==
  /\ rows \in [RowIds -> RowType]
  /\ \A i \in RowIds : rows[i].st # "none" => rows[i].key # <<>>
EdgesTyped ==
  /\ edges \in [EdgeIds -> EdgeType]
  /\ \A e \in EdgeIds : Set(edges, e) =>
       edges[e].from # <<>> /\ edges[e].to # <<>> /\ Stamped(edges[e])
MoversTyped ==
  /\ audit \in [Accounts -> [seen : {"no", "yes"}, moved : {"no", "yes"}, autos : Nat,
                             renames : SUBSET Renames]]
  /\ mover \in [Movers -> [at : {"idle", "move"}, into : Tenants, confirm : {"no", "yes"}]]
  /\ \A m \in Movers : mover[m].at = "move" => mover[m].into \in Accounts
AdoptInv == RowsTyped /\ EdgesTyped /\ MoversTyped

LEMMA AdoptStart == AdoptInit => AdoptInv
<1> SUFFICES ASSUME AdoptInit PROVE AdoptInv
  OBVIOUS
<1>1. <<>> \in AnyKey /\ Unsigned \in Tenants /\ 0 \in 0..MaxRows /\ {} \in SUBSET Renames
  BY AdoptBounds DEF AnyKey, Tenants
<1>2. RowsTyped
  BY <1>1 DEF AdoptInit, RowsTyped, RowType, NoRow
<1>3. EdgesTyped
  BY <1>1 DEF AdoptInit, EdgesTyped, EdgeType, NoEdge, Set
<1>4. MoversTyped
  BY <1>1 DEF AdoptInit, MoversTyped, NoAudit, Still
<1> QED BY <1>2, <1>3, <1>4 DEF AdoptInv

\* A name with one more suffix.
LEMMA OneSuffix ==
  ASSUME NEW key \in AnyKey, NEW taken
  PROVE  /\ FreeKey(taken, key) \in AnyKey
         /\ Len(FreeKey(taken, key)) >= Len(key)
         /\ SubSeq(FreeKey(taken, key), 1, Len(key)) = key
         /\ key # <<>> => SameHead(key, FreeKey(taken, key))
<1> DEFINE n == Min({k \in Suffixes : Append(key, k) \notin taken})
<1>1. n \in Marks /\ FreeKey(taken, key) = Append(key, n)
  BY DEF Marks, FreeKey
<1> HIDE DEF n
<1>2. key \in Seq(Marks)
  BY DEF AnyKey
<1>3. /\ Append(key, n) \in Seq(Marks) /\ Len(Append(key, n)) = Len(key) + 1 /\ Len(key) \in Nat
      /\ \A i \in 1..Len(key) : Append(key, n)[i] = key[i]
  BY <1>1, <1>2
<1>4. SubSeq(Append(key, n), 1, Len(key)) = key
  BY <1>2, <1>3
<1>5. key # <<>> => Append(key, n) # <<>> /\ Head(Append(key, n)) = Head(key)
  BY <1>2, <1>3
<1> QED BY <1>1, <1>3, <1>4, <1>5 DEF AnyKey, SameHead

\* What a move has made of the rows and the edges so far.
Extends(key, old) ==
  key \in AnyKey /\ Len(key) >= Len(old) /\ SubSeq(key, 1, Len(old)) = old
RowsFrom(R, R0) ==
  /\ R \in [RowIds -> RowType]
  /\ \A i \in RowIds : /\ R[i].st = R0[i].st /\ R[i].ten = R0[i].ten
                       /\ Extends(R[i].key, R0[i].key)
                       /\ R0[i].ten # Unsigned /\ R0[i].st = "live" => R[i] = R0[i]
SameFact(edge, old) == SameHead(edge.from, old.from) /\ SameHead(edge.to, old.to)
FactsFrom(E, E0) ==
  /\ E \in [EdgeIds -> EdgeType]
  /\ \A e \in EdgeIds : /\ E[e].fromId = E0[e].fromId /\ E[e].toId = E0[e].toId
                        /\ Set(E, e) => Set(E0, e)
                        /\ Set(E0, e) => SameFact(E[e], E0[e])
                        /\ Set(E0, e) => \E f \in EdgeIds : Set(E, f) /\ SameFact(E[f], E0[e])
EdgesFrom(E, E0) == FactsFrom(E, E0) /\ \A e \in EdgeIds : E[e].ten = E0[e].ten

LEMMA ExtendsHead ==
  ASSUME NEW old \in AnyKey, NEW key, Extends(key, old), old # <<>>
  PROVE  SameHead(old, key)
<1>1. /\ old \in Seq(Marks) /\ key \in Seq(Marks) /\ Len(old) \in Nat /\ Len(key) \in Nat
      /\ Len(key) >= Len(old) /\ SubSeq(key, 1, Len(old)) = old
  BY DEF Extends, AnyKey
<1>2. Len(old) >= 1
  BY <1>1
<1>3. SubSeq(key, 1, Len(old))[1] = key[1]
  BY <1>1, <1>2
<1>4. old[1] = key[1] /\ key # <<>>
  BY <1>1, <1>2, <1>3
<1> QED BY <1>1, <1>4 DEF SameHead

LEMMA ExtendsOn ==
  ASSUME NEW old \in AnyKey, NEW key, Extends(key, old), NEW more, Extends(more, key)
  PROVE  Extends(more, old)
<1>1. /\ old \in Seq(Marks) /\ key \in Seq(Marks) /\ more \in Seq(Marks)
      /\ Len(old) \in Nat /\ Len(key) \in Nat /\ Len(more) \in Nat
      /\ Len(key) >= Len(old) /\ Len(more) >= Len(key)
      /\ SubSeq(key, 1, Len(old)) = old /\ SubSeq(more, 1, Len(key)) = key
  BY DEF Extends, AnyKey
<1>2. \A i \in 1..Len(old) : more[i] = old[i]
  <2> SUFFICES ASSUME NEW i \in 1..Len(old) PROVE more[i] = old[i]
    OBVIOUS
  <2>1. SubSeq(key, 1, Len(old))[i] = key[i]
    BY <1>1
  <2>2. SubSeq(more, 1, Len(key))[i] = more[i]
    BY <1>1
  <2> QED BY <1>1, <2>1, <2>2
<1>3. SubSeq(more, 1, Len(old)) = old
  <2>1. Len(SubSeq(more, 1, Len(old))) = Len(old) /\ SubSeq(more, 1, Len(old)) \in Seq(Marks)
    BY <1>1
  <2>2. \A i \in 1..Len(old) : SubSeq(more, 1, Len(old))[i] = old[i]
    BY <1>1, <1>2
  <2> QED BY <1>1, <2>1, <2>2
<1> QED BY <1>1, <1>3 DEF Extends, AnyKey

LEMMA SameFactOn ==
  ASSUME NEW a, NEW b, NEW c, SameFact(a, b), SameFact(b, c)
  PROVE  SameFact(a, c)
  BY DEF SameFact, SameHead

\* rekey_edge: one edge takes other names of the same heads, or gives way to an
\* edge that has them.
LEMMA RekeyKeeps ==
  ASSUME NEW E0, NEW F, EdgesFrom(F, E0), NEW e \in EdgeIds, NEW new \in EdgeType,
         new.fromId = F[e].fromId, new.toId = F[e].toId, new.ten = F[e].ten, new.st = F[e].st,
         Set(E0, e) => SameFact(new, F[e])
  PROVE  EdgesFrom(Rekeyed(F, e, new), E0)
<1> DEFINE G == Rekeyed(F, e, new)
<1>1. F \in [EdgeIds -> EdgeType] /\ F[e] \in EdgeType
  BY DEF EdgesFrom, FactsFrom
<1>2. CASE \E f \in EdgeIds \ {e} : F[f].ten = new.ten /\ Parallel(F[f], new)
  <2>1. PICK f \in EdgeIds \ {e} : Parallel(F[f], new)
    BY <1>2
  <2>2. G = [F EXCEPT ![e].st = "gone"]
    BY <1>2 DEF Rekeyed
  <2>3. [F[e] EXCEPT !.st = "gone"] \in EdgeType
    BY <1>1 DEF EdgeType
  <2>4. G \in [EdgeIds -> EdgeType]
    BY <1>1, <2>2, <2>3
  <2>5. /\ \A d \in EdgeIds : d # e => G[d] = F[d]
        /\ G[e].from = F[e].from /\ G[e].to = F[e].to /\ G[e].st = "gone"
        /\ G[e].fromId = F[e].fromId /\ G[e].toId = F[e].toId /\ G[e].ten = F[e].ten
    BY <1>1, <2>2 DEF EdgeType
  <2>6. F[e].st = "set" /\ F[f].st = "set" /\ SameFact(F[f], F[e]) /\ f # e
    <3>1. F[e].st = "set" /\ F[f].st = "set" /\ F[f].from = new.from /\ F[f].to = new.to
      BY <2>1 DEF Parallel
    <3>2. SameFact(new, F[e])
      BY <3>1 DEF EdgesFrom, FactsFrom, Set
    <3> QED BY <3>1, <3>2 DEF SameFact
  <2>7. ASSUME NEW d \in EdgeIds, Set(E0, d)
        PROVE  \E g \in EdgeIds : Set(G, g) /\ SameFact(G[g], E0[d])
    <3>1. PICK g \in EdgeIds : Set(F, g) /\ SameFact(F[g], E0[d])
      BY <2>7 DEF EdgesFrom, FactsFrom
    <3>2. CASE g # e
      BY <2>5, <3>1, <3>2 DEF Set
    <3>3. CASE g = e
      <4>1. SameFact(F[f], E0[d])
        BY <2>6, <3>1, <3>3, SameFactOn
      <4>2. G[f] = F[f]
        BY <2>5, <2>6
      <4> QED BY <2>6, <4>1, <4>2 DEF Set
    <3> QED BY <3>2, <3>3
  <2>8. \A d \in EdgeIds : /\ G[d].fromId = E0[d].fromId /\ G[d].toId = E0[d].toId /\ G[d].ten = E0[d].ten
                           /\ Set(G, d) => Set(E0, d)
                           /\ Set(E0, d) => SameFact(G[d], E0[d])
    <3> SUFFICES ASSUME NEW d \in EdgeIds
                 PROVE  /\ G[d].fromId = E0[d].fromId /\ G[d].toId = E0[d].toId /\ G[d].ten = E0[d].ten
                        /\ Set(G, d) => Set(E0, d)
                        /\ Set(E0, d) => SameFact(G[d], E0[d])
      OBVIOUS
    <3> HIDE DEF G
    <3> QED BY <2>5, <2>6 DEF EdgesFrom, FactsFrom, SameFact, Set
  <2> HIDE DEF G
  <2>9. EdgesFrom(G, E0)
    BY <2>4, <2>7, <2>8 DEF EdgesFrom, FactsFrom
  <2> QED BY <2>9 DEF G
<1>3. CASE ~\E f \in EdgeIds \ {e} : F[f].ten = new.ten /\ Parallel(F[f], new)
  <2>1. G = [F EXCEPT ![e] = new]
    BY <1>3 DEF Rekeyed
  <2>2. G \in [EdgeIds -> EdgeType] /\ G[e] = new /\ \A d \in EdgeIds : d # e => G[d] = F[d]
    BY <1>1, <2>1
  <2>3. ASSUME NEW d \in EdgeIds, Set(E0, d)
        PROVE  \E g \in EdgeIds : Set(G, g) /\ SameFact(G[g], E0[d])
    <3>1. PICK g \in EdgeIds : Set(F, g) /\ SameFact(F[g], E0[d])
      BY <2>3 DEF EdgesFrom, FactsFrom
    <3>2. CASE g # e
      BY <2>2, <3>1, <3>2 DEF Set
    <3>3. CASE g = e
      <4>1. new.st = "set" /\ SameFact(new, F[e])
        BY <3>1, <3>3 DEF EdgesFrom, FactsFrom, Set
      <4>2. SameFact(new, E0[d])
        BY <3>1, <3>3, <4>1, SameFactOn
      <4> QED BY <2>2, <4>1, <4>2 DEF Set
    <3> QED BY <3>2, <3>3
  <2>4. \A d \in EdgeIds : /\ G[d].fromId = E0[d].fromId /\ G[d].toId = E0[d].toId /\ G[d].ten = E0[d].ten
                           /\ Set(G, d) => Set(E0, d)
                           /\ Set(E0, d) => SameFact(G[d], E0[d])
    <3> SUFFICES ASSUME NEW d \in EdgeIds
                 PROVE  /\ G[d].fromId = E0[d].fromId /\ G[d].toId = E0[d].toId /\ G[d].ten = E0[d].ten
                        /\ Set(G, d) => Set(E0, d)
                        /\ Set(E0, d) => SameFact(G[d], E0[d])
      OBVIOUS
    <3> HIDE DEF G
    <3>1. CASE d # e
      BY <2>2, <3>1 DEF EdgesFrom, FactsFrom, Set
    <3>2. CASE d = e
      <4>1. Set(E0, e) => SameFact(new, E0[e])
        BY SameFactOn DEF EdgesFrom, FactsFrom
      <4> QED BY <2>2, <3>2, <4>1 DEF EdgesFrom, FactsFrom, Set
    <3> QED BY <3>1, <3>2
  <2> HIDE DEF G
  <2>5. EdgesFrom(G, E0)
    BY <2>2, <2>3, <2>4 DEF EdgesFrom, FactsFrom
  <2> QED BY <2>5 DEF G
<1> QED BY <1>2, <1>3

LEMMA EdgesFinite == \A S : S \subseteq EdgeIds => IsFiniteSet(S)
<1>1. IsFiniteSet(EdgeIds)
  <2>1. 1 \in Int /\ MaxEdges \in Int
    BY AdoptBounds
  <2> QED BY <2>1, FS_Interval DEF EdgeIds
<1> QED BY <1>1, FS_Subset

LEMMA RowsFinite == \A S : S \subseteq RowIds => IsFiniteSet(S)
<1>1. IsFiniteSet(RowIds)
  <2>1. 1 \in Int /\ MaxRows \in Int
    BY AdoptBounds
  <2> QED BY <2>1, FS_Interval DEF RowIds
<1> QED BY <1>1, FS_Subset

\* rename_edge_endpoint: every edge of a renamed row follows it.
LEMMA RenameKeeps ==
  ASSUME NEW E0, NEW E, EdgesFrom(E, E0), NEW key \in AnyKey, NEW new \in AnyKey,
         SameHead(new, key), NEW id
  PROVE  EdgesFrom(RenameEndpoint(E, key, new, id), E0)
<1> DEFINE X == {F \in [EdgeIds -> EdgeType] : EdgesFrom(F, E0)}
           S == {e \in EdgeIds : Set(E, e) /\ Touches(E[e], Unsigned, key)}
           moved(F, e) == [F[e] EXCEPT
                  !.from = IF @ = key /\ Follows(id, F[e].fromId) THEN new ELSE @,
                  !.to = IF @ = key /\ Follows(id, F[e].toId) THEN new ELSE @]
           once(F, e) == IF moved(F, e) = F[e] THEN F ELSE Rekeyed(F, e, moved(F, e))
           step == [p \in S \X X |-> once(p[2], p[1])]
           iter == CHOOSE f : f = [s \in SUBSET S |->
                     IF s = {} THEN E ELSE once(f[s \ {First(s)}], First(s))]
<1>1. RenameEndpoint(E, key, new, id) = iter[S]
  BY DEF RenameEndpoint, FoldSet, MapThenFoldSet, First
<1>2. ASSUME NEW F \in X, NEW e \in S PROVE once(F, e) \in X
  <2>1. e \in EdgeIds /\ F[e] \in EdgeType /\ EdgesFrom(F, E0)
    OBVIOUS
  <2>2. moved(F, e) \in EdgeType /\ moved(F, e).st = F[e].st
        /\ moved(F, e).fromId = F[e].fromId /\ moved(F, e).toId = F[e].toId /\ moved(F, e).ten = F[e].ten
        /\ moved(F, e).from \in {F[e].from, new} /\ moved(F, e).to \in {F[e].to, new}
        /\ (moved(F, e).from = new => F[e].from = key \/ F[e].from = new)
        /\ (moved(F, e).to = new => F[e].to = key \/ F[e].to = new)
    BY <2>1 DEF EdgeType
  <2>3. Set(E0, e) => SameFact(moved(F, e), F[e])
    <3>1. Set(E0, e) => F[e].from # <<>> /\ F[e].to # <<>>
      BY <2>1 DEF EdgesFrom, FactsFrom, SameFact, SameHead
    <3> HIDE DEF moved
    <3> QED BY <2>2, <3>1 DEF SameFact, SameHead
  <2> HIDE DEF moved
  <2>4. EdgesFrom(Rekeyed(F, e, moved(F, e)), E0)
    BY <2>1, <2>2, <2>3, RekeyKeeps
  <2>5. EdgesFrom(once(F, e), E0)
    BY <2>1, <2>4
  <2> QED BY <2>5 DEF EdgesFrom, FactsFrom
<1>3. E \in X /\ IsFiniteSet(S)
  <2>1. S \subseteq EdgeIds
    OBVIOUS
  <2> QED BY <2>1, EdgesFinite DEF EdgesFrom, FactsFrom
<1> HIDE DEF once, X, S
<1>4. step \in [S \X X -> X]
  BY <1>2
<1>5. \A e \in S, F \in X : step[<<e, F>>] = once(F, e)
  OBVIOUS
<1> HIDE DEF step
<1>6. PICK g : Folds(g, S, E, step) /\ g \in [SUBSET S -> X]
  BY <1>3, <1>4, FoldExists
<1>7. g = [s \in SUBSET S |-> IF s = {} THEN E ELSE once(g[s \ {First(s)}], First(s))]
  <2>1. \A s \in SUBSET S : g[s] = IF s = {} THEN E ELSE once(g[s \ {First(s)}], First(s))
    <3> SUFFICES ASSUME NEW s \in SUBSET S, s # {} PROVE g[s] = once(g[s \ {First(s)}], First(s))
      BY <1>6 DEF Folds
    <3>1. First(s) \in S /\ g[s \ {First(s)}] \in X
      BY <1>6 DEF First
    <3> QED BY <1>5, <1>6, <3>1 DEF Folds
  <2>2. g = [s \in SUBSET S |-> g[s]]
    BY <1>6
  <2> QED BY <2>1, <2>2
<1>8. iter = [s \in SUBSET S |-> IF s = {} THEN E ELSE once(iter[s \ {First(s)}], First(s))]
  BY <1>7
<1> HIDE DEF iter
<1>9. iter[{}] = E
  BY <1>8
<1>10. \A s \in SUBSET S : s # {} /\ iter[s \ {First(s)}] \in X
          => iter[s] = step[<<First(s), iter[s \ {First(s)}]>>]
  <2> SUFFICES ASSUME NEW s \in SUBSET S, s # {}, iter[s \ {First(s)}] \in X
               PROVE  iter[s] = step[<<First(s), iter[s \ {First(s)}]>>]
    OBVIOUS
  <2>1. First(s) \in S
    BY DEF First
  <2> QED BY <1>5, <1>8, <2>1
<1>11. \A u \in SUBSET S : iter[u] \in X
  <2>1. step \in [S \X X -> X] /\ IsFiniteSet(S)
    BY <1>3, <1>4
  <2> QED BY <1>3, <1>9, <1>10, <2>1, FoldWithin
<1> QED BY <1>1, <1>11 DEF X

StoresFrom(R0, E0) ==
  {s \in [R : [RowIds -> RowType], E : [EdgeIds -> EdgeType], names : SUBSET Renames] :
     RowsFrom(s.R, R0) /\ EdgesFrom(s.E, E0)}

\* _resolve_conflicts: a row that gives way takes a suffix, its edges with it.
LEMMA ConflictKeeps ==
  ASSUME NEW R0, R0 \in [RowIds -> RowType], NEW E0, NEW s \in StoresFrom(R0, E0),
         NEW i \in RowIds, R0[i].ten = Unsigned, R0[i].key # <<>>, NEW into
  PROVE  ResolveConflict(into, i, s) \in StoresFrom(R0, E0)
<1> DEFINE key == s.R[i].key
           taken == {k \in Suffixed(key) : \E t \in {Unsigned, into} : Live(s.R, t, k)}
           new == FreeKey(taken, key)
           id == IF IsEntity(key) THEN i ELSE 0
           R == [s.R EXCEPT ![i].key = new]
           E == RenameEndpoint(s.E, key, new, id)
           names == s.names \union {<<key, new>>}
<1>1. ResolveConflict(into, i, s) = [R |-> R, E |-> E, names |-> names]
  BY DEF ResolveConflict
<1>2. /\ s.R \in [RowIds -> RowType] /\ s.names \in SUBSET Renames
      /\ RowsFrom(s.R, R0) /\ EdgesFrom(s.E, E0)
  BY DEF StoresFrom
<1>3. R0[i] \in RowType /\ s.R[i] \in RowType /\ key \in AnyKey /\ R0[i].key \in AnyKey
  BY <1>2 DEF RowType
<1>4. Extends(key, R0[i].key) /\ SameHead(R0[i].key, key)
  <2>1. Extends(key, R0[i].key)
    BY <1>2 DEF RowsFrom
  <2> HIDE DEF key
  <2> QED BY <1>3, <2>1, ExtendsHead
<1>5. new \in AnyKey /\ Extends(new, key) /\ SameHead(key, new)
  <2>1. key # <<>>
    BY <1>4 DEF SameHead
  <2> HIDE DEF key, taken
  <2> QED BY <1>3, <2>1, OneSuffix DEF Extends
<1> HIDE DEF key, new, taken
<1>6. Extends(new, R0[i].key)
  BY <1>3, <1>4, <1>5, ExtendsOn
<1>7. R \in [RowIds -> RowType] /\ RowsFrom(R, R0)
  <2>1. R \in [RowIds -> RowType]
    BY <1>2, <1>3, <1>5 DEF RowType
  <2>2. \A j \in RowIds : j # i => R[j] = s.R[j]
    BY <1>2
  <2>3. R[i].st = s.R[i].st /\ R[i].ten = s.R[i].ten /\ R[i].key = new
    BY <1>2, <1>3 DEF RowType
  <2> HIDE DEF R
  <2> QED BY <1>2, <1>6, <2>1, <2>2, <2>3 DEF RowsFrom
<1>8. EdgesFrom(E, E0)
  <2>1. SameHead(new, key)
    BY <1>5 DEF SameHead
  <2> HIDE DEF id
  <2> QED BY <1>2, <1>3, <1>5, <2>1, RenameKeeps
<1>9. names \in SUBSET Renames
  BY <1>2, <1>3, <1>5 DEF Renames
<1>10. E \in [EdgeIds -> EdgeType]
  BY <1>8 DEF EdgesFrom, FactsFrom
<1> HIDE DEF R, E, names
<1> QED BY <1>1, <1>7, <1>8, <1>9, <1>10 DEF StoresFrom

\* iter[u] is what the rows of u have made of the store.
FoldsConflicts(iter, R0, E0, into) ==
  /\ ResolveConflicts(into, [R |-> R0, E |-> E0, names |-> {}]) = iter[Conflicts(R0, into)]
  /\ iter[{}] = [R |-> R0, E |-> E0, names |-> {}]
  /\ \A u \in SUBSET Conflicts(R0, into) :
       /\ iter[u] \in StoresFrom(R0, E0)
       /\ u # {} => iter[u] = ResolveConflict(into, First(u), iter[u \ {First(u)}])

LEMMA ConflictsFold ==
  ASSUME NEW R0, R0 \in [RowIds -> RowType], NEW E0, EdgesFrom(E0, E0),
         \A i \in RowIds : R0[i].st # "none" => R0[i].key # <<>>, NEW into
  PROVE  \E iter : FoldsConflicts(iter, R0, E0, into)
<1> DEFINE X == StoresFrom(R0, E0)
           base == [R |-> R0, E |-> E0, names |-> {}]
           S == Conflicts(R0, into)
           step == [p \in S \X X |-> ResolveConflict(into, p[1], p[2])]
           iter == CHOOSE f : f = [s \in SUBSET S |->
                     IF s = {} THEN base ELSE ResolveConflict(into, First(s), f[s \ {First(s)}])]
<1>1. ResolveConflicts(into, base) = iter[S]
  BY DEF ResolveConflicts, FoldSet, MapThenFoldSet, First
<1>2. ASSUME NEW i \in S, NEW s \in X PROVE ResolveConflict(into, i, s) \in X
  <2>1. i \in RowIds /\ R0[i].st = "live" /\ R0[i].ten = Unsigned
    BY DEF Conflicts
  <2>2. R0[i].key # <<>>
    BY <2>1
  <2> QED BY <2>1, <2>2, ConflictKeeps
<1>3. base \in X /\ IsFiniteSet(S)
  <2>1. RowsFrom(R0, R0)
    <3>1. \A i \in RowIds : Extends(R0[i].key, R0[i].key)
      <4> SUFFICES ASSUME NEW i \in RowIds PROVE Extends(R0[i].key, R0[i].key)
        OBVIOUS
      <4>1. R0[i].key \in Seq(Marks)
        BY DEF RowType, AnyKey
      <4>2. SubSeq(R0[i].key, 1, Len(R0[i].key)) = R0[i].key /\ Len(R0[i].key) \in Nat
        BY <4>1
      <4> QED BY <4>1, <4>2 DEF Extends, AnyKey
    <3> QED BY <3>1 DEF RowsFrom
  <2>2. E0 \in [EdgeIds -> EdgeType]
    BY DEF EdgesFrom, FactsFrom
  <2>3. S \subseteq RowIds
    BY DEF Conflicts
  <2> QED BY <2>1, <2>2, <2>3, RowsFinite DEF StoresFrom
<1> HIDE DEF X, S, base
<1>4. step \in [S \X X -> X]
  BY <1>2
<1>5. \A i \in S, s \in X : step[<<i, s>>] = ResolveConflict(into, i, s)
  OBVIOUS
<1> HIDE DEF step
<1>6. PICK g : Folds(g, S, base, step) /\ g \in [SUBSET S -> X]
  BY <1>3, <1>4, FoldExists
<1>7. g = [s \in SUBSET S |-> IF s = {} THEN base ELSE ResolveConflict(into, First(s), g[s \ {First(s)}])]
  <2>1. \A s \in SUBSET S :
          g[s] = IF s = {} THEN base ELSE ResolveConflict(into, First(s), g[s \ {First(s)}])
    <3> SUFFICES ASSUME NEW s \in SUBSET S, s # {}
                 PROVE  g[s] = ResolveConflict(into, First(s), g[s \ {First(s)}])
      BY <1>6 DEF Folds
    <3>1. First(s) \in S /\ g[s \ {First(s)}] \in X
      BY <1>6 DEF First
    <3> QED BY <1>5, <1>6, <3>1 DEF Folds
  <2>2. g = [s \in SUBSET S |-> g[s]]
    BY <1>6
  <2> QED BY <2>1, <2>2
<1>8. iter = [s \in SUBSET S |->
                IF s = {} THEN base ELSE ResolveConflict(into, First(s), iter[s \ {First(s)}])]
  BY <1>7
<1> HIDE DEF iter
<1>9. iter[{}] = base
  BY <1>8
<1>10. \A s \in SUBSET S : s # {} /\ iter[s \ {First(s)}] \in X
          => iter[s] = step[<<First(s), iter[s \ {First(s)}]>>]
  <2> SUFFICES ASSUME NEW s \in SUBSET S, s # {}, iter[s \ {First(s)}] \in X
               PROVE  iter[s] = step[<<First(s), iter[s \ {First(s)}]>>]
    OBVIOUS
  <2>1. First(s) \in S
    BY DEF First
  <2> QED BY <1>5, <1>8, <2>1
<1>11. \A u \in SUBSET S : iter[u] \in X
  <2>1. step \in [S \X X -> X] /\ IsFiniteSet(S)
    BY <1>3, <1>4
  <2> QED BY <1>3, <1>9, <1>10, <2>1, FoldWithin
<1>12. \A u \in SUBSET S : u # {} => iter[u] = ResolveConflict(into, First(u), iter[u \ {First(u)}])
  BY <1>8
<1>13. FoldsConflicts(iter, R0, E0, into)
  BY <1>1, <1>9, <1>11, <1>12 DEF FoldsConflicts, X, base, S
<1> QED BY <1>13

LEMMA ConflictsKeep ==
  ASSUME NEW R0, R0 \in [RowIds -> RowType], NEW E0, EdgesFrom(E0, E0),
         \A i \in RowIds : R0[i].st # "none" => R0[i].key # <<>>, NEW into
  PROVE  ResolveConflicts(into, [R |-> R0, E |-> E0, names |-> {}]) \in StoresFrom(R0, E0)
<1> DEFINE S == Conflicts(R0, into)
<1>1. PICK iter : FoldsConflicts(iter, R0, E0, into)
  BY ConflictsFold
<1>2. S \in SUBSET S
  OBVIOUS
<1> QED BY <1>1, <1>2 DEF FoldsConflicts

\* The key another side of an edge is given is a name of the same entity.
LEMMA SideKey ==
  ASSUME AdoptInv, NEW R, RowsFrom(R, rows), NEW into \in Accounts, NEW key \in AnyKey, key # <<>>,
         NEW stamp \in 0..MaxRows, StampFits(key, stamp), SideOf(R, into, key, stamp).do = "rekey"
  PROVE  SideOf(R, into, key, stamp).key \in AnyKey /\ SameHead(SideOf(R, into, key, stamp).key, key)
<1> DEFINE stamped == {i \in RowIds : i = stamp /\ R[i].st = "live" /\ R[i].ten \in {Unsigned, into}}
           prior == IF stamp = 0 THEN PriorRenames(into, key) ELSE {}
           c2 == ~ Live(R, Unsigned, key) /\ stamped # {}
           c4 == /\ ~ Live(R, Unsigned, key) /\ stamped = {} /\ Cardinality(prior) = 1
                 /\ \E k \in prior : Live(R, into, k)
<1>1. \/ c2 /\ SideOf(R, into, key, stamp) = [do |-> "rekey", key |-> R[stamp].key]
      \/ c4 /\ SideOf(R, into, key, stamp) = [do |-> "rekey", key |-> CHOOSE k \in prior : TRUE]
  BY DEF SideOf, Keep
<1>2. CASE c2 /\ SideOf(R, into, key, stamp) = [do |-> "rekey", key |-> R[stamp].key]
  <2>1. stamp \in RowIds /\ stamp # 0
    BY <1>2, AdoptBounds DEF RowIds
  <2>2. rows[stamp].key \in AnyKey /\ rows[stamp].key # <<>> /\ SameHead(key, rows[stamp].key)
    <3>1. rows[stamp] \in RowType /\ rows[stamp].st # "none" /\ SameHead(key, rows[stamp].key)
      BY <2>1 DEF AdoptInv, RowsTyped, StampFits
    <3>2. rows[stamp].key \in AnyKey
      BY <3>1 DEF RowType
    <3> QED BY <3>1, <3>2 DEF SameHead
  <2>3. Extends(R[stamp].key, rows[stamp].key)
    BY <2>1 DEF RowsFrom
  <2>4. SameHead(rows[stamp].key, R[stamp].key)
    BY <2>2, <2>3, ExtendsHead
  <2>5. R[stamp].key \in AnyKey /\ SameHead(R[stamp].key, key)
    BY <2>2, <2>3, <2>4 DEF SameHead, Extends
  <2> QED BY <1>2, <2>5
<1>3. CASE c4 /\ SideOf(R, into, key, stamp) = [do |-> "rekey", key |-> CHOOSE k \in prior : TRUE]
  <2>1. audit[into].renames \in SUBSET Renames
    BY DEF AdoptInv, MoversTyped
  <2>2. \A k \in prior : k \in AnyKey /\ SameHead(k, key)
    <3> SUFFICES ASSUME NEW k \in PriorRenames(into, key) PROVE k \in AnyKey /\ SameHead(k, key)
      OBVIOUS
    <3>1. PICK r \in audit[into].renames : r[1] = key /\ k = r[2]
      BY DEF PriorRenames
    <3>2. r \in AnyKey \X AnyKey /\ SameHead(r[1], r[2])
      BY <2>1, <3>1 DEF Renames
    <3> QED BY <3>1, <3>2 DEF SameHead
  <2>3. \E k \in prior : TRUE
    BY <1>3
  <2> HIDE DEF prior
  <2>4. (CHOOSE k \in prior : TRUE) \in prior
    BY <2>3
  <2> DEFINE c == CHOOSE k \in prior : TRUE
  <2> HIDE DEF c
  <2>5. c \in AnyKey /\ SameHead(c, key)
    BY <2>2, <2>4 DEF c
  <2> QED BY <1>3, <2>5 DEF c
<1> QED BY <1>1, <1>2, <1>3

\* An edge met during a move still fits the rows its stamps name.
LEMMA StampsStay ==
  ASSUME AdoptInv, NEW F, EdgesFrom(F, edges), NEW e \in EdgeIds, Set(edges, e)
  PROVE  /\ F[e].from \in AnyKey /\ F[e].to \in AnyKey /\ F[e].from # <<>> /\ F[e].to # <<>>
         /\ F[e].fromId \in 0..MaxRows /\ F[e].toId \in 0..MaxRows /\ Stamped(F[e])
<1>1. F[e] \in EdgeType /\ SameFact(F[e], edges[e]) /\ Stamped(edges[e])
      /\ F[e].fromId = edges[e].fromId /\ F[e].toId = edges[e].toId
  BY DEF EdgesFrom, FactsFrom, AdoptInv, EdgesTyped
<1>2. Stamped(F[e])
  BY <1>1 DEF Stamped, StampFits, SameFact, SameHead
<1>3. F[e].from # <<>> /\ F[e].to # <<>>
  BY <1>1 DEF SameFact, SameHead
<1> QED BY <1>1, <1>2, <1>3 DEF EdgeType

\* The archived rows of a colliding name.
LEMMA ArchivedKeep ==
  ASSUME NEW R0, R0 \in [RowIds -> RowType], NEW R, RowsFrom(R, R0), NEW E, NEW into, NEW all
  PROVE  RowsFrom(RenameArchived(R, E, into, all), R0)
<1> DEFINE Q == RenameArchived(R, E, into, all)
           named(i) == CollisionName(R, E, into, R[i].key)
<1>1. R \in [RowIds -> RowType]
  BY DEF RowsFrom
<1>2. ASSUME NEW i \in RowIds
      PROVE  Q[i] = R[i] \/ (R[i].st = "archived" /\ Q[i] = [R[i] EXCEPT !.key = named(i)])
  BY DEF RenameArchived
<1>3. ASSUME NEW i \in RowIds
      PROVE  named(i) \in AnyKey /\ Extends(named(i), R0[i].key)
  <2>1. R[i].key \in AnyKey /\ R0[i].key \in AnyKey
    BY <1>1 DEF RowType
  <2>2. named(i) \in AnyKey /\ Extends(named(i), R[i].key)
    BY <2>1, OneSuffix DEF CollisionName, Extends
  <2>3. Extends(R[i].key, R0[i].key)
    BY DEF RowsFrom
  <2> HIDE DEF named
  <2> QED BY <2>1, <2>2, <2>3, ExtendsOn
<1>4. Q = [i \in RowIds |-> Q[i]]
  BY DEF RenameArchived
<1> HIDE DEF Q, named
<1>5. ASSUME NEW i \in RowIds
      PROVE  /\ Q[i] \in RowType /\ Q[i].st = R0[i].st /\ Q[i].ten = R0[i].ten
             /\ Extends(Q[i].key, R0[i].key)
             /\ R0[i].ten # Unsigned /\ R0[i].st = "live" => Q[i] = R0[i]
  <2>1. CASE Q[i] = R[i]
    BY <1>1, <2>1 DEF RowsFrom
  <2>2. CASE R[i].st = "archived" /\ Q[i] = [R[i] EXCEPT !.key = named(i)]
    <3>1. R[i] \in RowType
      BY <1>1
    <3>2. Q[i] \in RowType /\ Q[i].st = R[i].st /\ Q[i].ten = R[i].ten /\ Q[i].key = named(i)
      BY <1>3, <2>2, <3>1 DEF RowType
    <3>3. R[i].st = R0[i].st /\ R[i].ten = R0[i].ten
      BY DEF RowsFrom
    <3> QED BY <1>3, <2>2, <3>2, <3>3
  <2> QED BY <1>2, <2>1, <2>2
<1>6. Q \in [RowIds -> RowType]
  BY <1>4, <1>5
<1>7. RowsFrom(Q, R0)
  BY <1>5, <1>6 DEF RowsFrom
<1> QED BY <1>7 DEF Q

\* _resolve_edges: every edge that leaves takes the names its ends have now.
PlacedAt(R, E, into, side, key) ==
  CASE side.do = "rekey" -> side.key
    [] side.do = "collide" -> CollisionName(R, E, into, key)
    [] OTHER -> key
Replaced(R, E, into, edge) ==
  [edge EXCEPT !.from = PlacedAt(R, E, into, FromSide(R, into, edge), @),
               !.to = PlacedAt(R, E, into, ToSide(R, into, edge), @)]
Replace(R, E, into, F, e) ==
  IF Replaced(R, E, into, F[e]) = F[e] THEN F ELSE Rekeyed(F, e, Replaced(R, E, into, F[e]))

LEMMA PlacedHead ==
  ASSUME AdoptInv, NEW R, RowsFrom(R, rows), NEW E, NEW into \in Accounts, NEW key \in AnyKey,
         key # <<>>, NEW stamp \in 0..MaxRows, StampFits(key, stamp)
  PROVE  /\ PlacedAt(R, E, into, SideOf(R, into, key, stamp), key) \in AnyKey
         /\ SameHead(PlacedAt(R, E, into, SideOf(R, into, key, stamp), key), key)
<1> DEFINE side == SideOf(R, into, key, stamp)
<1>1. CASE side.do = "rekey"
  <2>1. side.key \in AnyKey /\ SameHead(side.key, key)
    BY <1>1, SideKey
  <2> QED BY <1>1, <2>1 DEF PlacedAt
<1>2. CASE side.do = "collide"
  <2>1. CollisionName(R, E, into, key) \in AnyKey /\ SameHead(CollisionName(R, E, into, key), key)
    BY OneSuffix DEF CollisionName, SameHead
  <2>2. side.do # "rekey"
    BY <1>2
  <2>3. PlacedAt(R, E, into, side, key) = CollisionName(R, E, into, key)
    BY <1>2, <2>2 DEF PlacedAt
  <2> QED BY <2>1, <2>3
<1>3. CASE side.do \notin {"rekey", "collide"}
  <2>1. PlacedAt(R, E, into, side, key) = key
    BY <1>3 DEF PlacedAt
  <2> QED BY <2>1 DEF SameHead
<1> QED BY <1>1, <1>2, <1>3

\* The same of the edges that leave.
FoldsEdges(iter, s, into) ==
  /\ ResolveEdges(into, s) =
       [s EXCEPT !.R = RenameArchived(s.R, s.E, into, Collisions(s.R, s.E, into)),
                 !.E = iter[Leaving(s.E) \ Held(s.R, s.E, into)]]
  /\ iter[{}] = s.E
  /\ \A u \in SUBSET (Leaving(s.E) \ Held(s.R, s.E, into)) :
       /\ iter[u] \in [EdgeIds -> EdgeType] /\ EdgesFrom(iter[u], edges)
       /\ u # {} => iter[u] = Replace(s.R, s.E, into, iter[u \ {First(u)}], First(u))

LEMMA EdgesFold ==
  ASSUME AdoptInv, NEW into \in Accounts, NEW s, s \in StoresFrom(rows, edges)
  PROVE  \E iter : FoldsEdges(iter, s, into)
<1> DEFINE R == s.R
           E == s.E
           all == Collisions(R, E, into)
           renamed(edge) == Replaced(R, E, into, edge)
           once(F, e) == Replace(R, E, into, F, e)
           S == Leaving(E) \ Held(R, E, into)
           X == {F \in [EdgeIds -> EdgeType] : EdgesFrom(F, edges)}
           step == [p \in S \X X |-> once(p[2], p[1])]
           iter == CHOOSE f : f = [t \in SUBSET S |->
                     IF t = {} THEN E ELSE once(f[t \ {First(t)}], First(t))]
<1>1. ResolveEdges(into, s) = [s EXCEPT !.R = RenameArchived(R, E, into, all), !.E = iter[S]]
  BY DEF ResolveEdges, FoldSet, MapThenFoldSet, First, Replace, Replaced, PlacedAt
<1>2. /\ s \in [R : [RowIds -> RowType], E : [EdgeIds -> EdgeType], names : SUBSET Renames]
      /\ RowsFrom(R, rows) /\ EdgesFrom(E, edges)
  BY DEF StoresFrom
<1>4. ASSUME NEW F \in X, NEW e \in EdgeIds, Set(edges, e)
      PROVE  once(F, e) \in X
  <2>1. F[e] \in EdgeType /\ EdgesFrom(F, edges)
    OBVIOUS
  <2>2. /\ F[e].from \in AnyKey /\ F[e].to \in AnyKey /\ F[e].from # <<>> /\ F[e].to # <<>>
        /\ F[e].fromId \in 0..MaxRows /\ F[e].toId \in 0..MaxRows /\ Stamped(F[e])
    BY <1>4, <2>1, StampsStay
  <2> DEFINE a == PlacedAt(R, E, into, FromSide(R, into, F[e]), F[e].from)
             b == PlacedAt(R, E, into, ToSide(R, into, F[e]), F[e].to)
  <2>3. a \in AnyKey /\ SameHead(a, F[e].from)
    BY <1>2, <2>2, PlacedHead DEF FromSide, Stamped
  <2>4. b \in AnyKey /\ SameHead(b, F[e].to)
    BY <1>2, <2>2, PlacedHead DEF ToSide, Stamped
  <2>5. renamed(F[e]) = [F[e] EXCEPT !.from = a, !.to = b]
    BY DEF Replaced
  <2> HIDE DEF a, b, renamed
  <2>6. /\ renamed(F[e]) \in EdgeType /\ renamed(F[e]).st = F[e].st
        /\ renamed(F[e]).fromId = F[e].fromId /\ renamed(F[e]).toId = F[e].toId /\ renamed(F[e]).ten = F[e].ten
        /\ renamed(F[e]).from = a /\ renamed(F[e]).to = b
    BY <2>1, <2>3, <2>4, <2>5 DEF EdgeType
  <2>7. SameFact(renamed(F[e]), F[e])
    BY <2>3, <2>4, <2>6 DEF SameFact
  <2>8. EdgesFrom(Rekeyed(F, e, renamed(F[e])), edges)
    BY <2>1, <2>6, <2>7, RekeyKeeps
  <2>9. EdgesFrom(once(F, e), edges)
    BY <2>1, <2>8 DEF Replace, renamed
  <2> QED BY <2>9 DEF EdgesFrom, FactsFrom
<1>5. E \in X /\ IsFiniteSet(S) /\ S \subseteq EdgeIds
  <2>1. S \subseteq EdgeIds
    BY DEF Leaving
  <2> HIDE DEF S
  <2> QED BY <1>2, <2>1, EdgesFinite DEF EdgesFrom, FactsFrom
<1>6. ASSUME NEW F \in X, NEW e \in S PROVE once(F, e) \in X
  <2>1. e \in EdgeIds /\ E[e].st = "set"
    BY DEF Leaving, Set
  <2>2. Set(edges, e)
    BY <1>2, <2>1 DEF EdgesFrom, FactsFrom, Set
  <2> HIDE DEF S, X, once
  <2> QED BY <1>4, <2>1, <2>2
<1> HIDE DEF once, X, S
<1>7. step \in [S \X X -> X]
  BY <1>6
<1>8. \A e \in S, F \in X : step[<<e, F>>] = once(F, e)
  OBVIOUS
<1> HIDE DEF step
<1>9. PICK g : Folds(g, S, E, step) /\ g \in [SUBSET S -> X]
  BY <1>5, <1>7, FoldExists
<1>10. g = [t \in SUBSET S |-> IF t = {} THEN E ELSE once(g[t \ {First(t)}], First(t))]
  <2>1. \A t \in SUBSET S : g[t] = IF t = {} THEN E ELSE once(g[t \ {First(t)}], First(t))
    <3> SUFFICES ASSUME NEW t \in SUBSET S, t # {} PROVE g[t] = once(g[t \ {First(t)}], First(t))
      BY <1>9 DEF Folds
    <3>1. First(t) \in S /\ g[t \ {First(t)}] \in X
      BY <1>9 DEF First
    <3> QED BY <1>8, <1>9, <3>1 DEF Folds
  <2>2. g = [t \in SUBSET S |-> g[t]]
    BY <1>9
  <2> QED BY <2>1, <2>2
<1>11. iter = [t \in SUBSET S |-> IF t = {} THEN E ELSE once(iter[t \ {First(t)}], First(t))]
  BY <1>10
<1> HIDE DEF iter
<1>12. iter[{}] \in X
  BY <1>5, <1>11
<1>13. \A t \in SUBSET S : t # {} /\ iter[t \ {First(t)}] \in X
          => iter[t] = step[<<First(t), iter[t \ {First(t)}]>>]
  <2> SUFFICES ASSUME NEW t \in SUBSET S, t # {}, iter[t \ {First(t)}] \in X
               PROVE  iter[t] = step[<<First(t), iter[t \ {First(t)}]>>]
    OBVIOUS
  <2>1. First(t) \in S
    BY DEF First
  <2> QED BY <1>8, <1>11, <2>1
<1>14. \A u \in SUBSET S : iter[u] \in X
  <2>1. step \in [S \X X -> X] /\ IsFiniteSet(S)
    BY <1>5, <1>7
  <2> QED BY <1>12, <1>13, <2>1, FoldWithin
<1>15. \A u \in SUBSET S : u # {} => iter[u] = once(iter[u \ {First(u)}], First(u))
  BY <1>11
<1>16. iter[{}] = E
  BY <1>11
<1>17. FoldsEdges(iter, s, into)
  BY <1>1, <1>14, <1>15, <1>16 DEF FoldsEdges, X, S, once
<1> QED BY <1>17

LEMMA EdgesResolved ==
  ASSUME AdoptInv, NEW into \in Accounts, NEW s, s \in StoresFrom(rows, edges)
  PROVE  ResolveEdges(into, s) \in StoresFrom(rows, edges)
<1> DEFINE R == s.R
           E == s.E
           all == Collisions(R, E, into)
           S == Leaving(E) \ Held(R, E, into)
<1>1. PICK iter : FoldsEdges(iter, s, into)
  BY EdgesFold
<1>2. /\ ResolveEdges(into, s) = [s EXCEPT !.R = RenameArchived(R, E, into, all), !.E = iter[S]]
      /\ \A u \in SUBSET S : iter[u] \in [EdgeIds -> EdgeType] /\ EdgesFrom(iter[u], edges)
  BY <1>1 DEF FoldsEdges
<1>3. /\ s \in [R : [RowIds -> RowType], E : [EdgeIds -> EdgeType], names : SUBSET Renames]
      /\ RowsFrom(R, rows) /\ EdgesFrom(E, edges)
  BY DEF StoresFrom
<1>4. iter[S] \in [EdgeIds -> EdgeType] /\ EdgesFrom(iter[S], edges)
  <2> HIDE DEF S
  <2>1. S \in SUBSET S
    OBVIOUS
  <2> QED BY <1>2, <2>1
<1> DEFINE Q == RenameArchived(R, E, into, all)
           G == iter[S]
<1>5. RowsFrom(Q, rows)
  <2>1. rows \in [RowIds -> RowType]
    BY DEF AdoptInv, RowsTyped
  <2> HIDE DEF all, R, E
  <2> QED BY <1>3, <2>1, ArchivedKeep
<1>6. Q \in [RowIds -> RowType]
  BY <1>5 DEF RowsFrom
<1> HIDE DEF Q, G, R, E, all
<1>7. ResolveEdges(into, s) = [s EXCEPT !.R = Q, !.E = G]
  BY <1>2 DEF Q, G
<1>8. EdgesFrom(G, edges) /\ G \in [EdgeIds -> EdgeType]
  BY <1>4 DEF G
<1> QED BY <1>3, <1>5, <1>6, <1>7, <1>8 DEF StoresFrom

\* drop_adoption_duplicates: the account's own edge stays for the one that goes.
LEMMA DuplicatesGo ==
  ASSUME NEW E0, NEW E, EdgesFrom(E, E0), NEW into \in Accounts, NEW held
  PROVE  EdgesFrom(DropDuplicates(E, into, held), E0)
<1> DEFINE G == DropDuplicates(E, into, held)
           Twin(e) == \E f \in EdgeIds : E[f].ten = into /\ Parallel(E[f], E[e])
<1>1. E \in [EdgeIds -> EdgeType] /\ into # Unsigned
  BY AdoptBounds DEF EdgesFrom, FactsFrom
<1>2. ASSUME NEW e \in EdgeIds
      PROVE  \/ G[e] = E[e]
             \/ E[e].ten = Unsigned /\ Twin(e) /\ G[e] = [E[e] EXCEPT !.st = "gone"]
  BY DEF DropDuplicates
<1>3. G = [e \in EdgeIds |-> G[e]]
  BY DEF DropDuplicates
<1> HIDE DEF G
<1>4. ASSUME NEW e \in EdgeIds, G[e] # E[e]
      PROVE  /\ G[e] \in EdgeType /\ G[e].st = "gone" /\ G[e].from = E[e].from /\ G[e].to = E[e].to
             /\ G[e].fromId = E[e].fromId /\ G[e].toId = E[e].toId /\ G[e].ten = E[e].ten
             /\ E[e].ten = Unsigned /\ E[e].st = "set"
             /\ \E f \in EdgeIds : E[f].ten = into /\ E[f].st = "set"
                                   /\ E[f].from = E[e].from /\ E[f].to = E[e].to
  <2>1. E[e] \in EdgeType /\ Twin(e) /\ G[e] = [E[e] EXCEPT !.st = "gone"] /\ E[e].ten = Unsigned
    BY <1>1, <1>2, <1>4
  <2>2. PICK f \in EdgeIds : E[f].ten = into /\ Parallel(E[f], E[e])
    BY <2>1
  <2> HIDE DEF Twin
  <2> QED BY <2>1, <2>2 DEF Parallel, EdgeType
<1> HIDE DEF Twin
<1>5. G \in [EdgeIds -> EdgeType]
  <2>1. \A e \in EdgeIds : G[e] \in EdgeType
    BY <1>1, <1>4
  <2> QED BY <1>3, <2>1
<1>6. ASSUME NEW e \in EdgeIds
      PROVE  /\ G[e].fromId = E0[e].fromId /\ G[e].toId = E0[e].toId /\ G[e].ten = E0[e].ten
             /\ Set(G, e) => Set(E0, e)
             /\ Set(E0, e) => SameFact(G[e], E0[e])
  <2>1. CASE G[e] = E[e]
    BY <2>1 DEF EdgesFrom, FactsFrom, Set
  <2>2. CASE G[e] # E[e]
    BY <1>4, <2>2 DEF EdgesFrom, FactsFrom, SameFact, Set
  <2> QED BY <2>1, <2>2
<1>7. ASSUME NEW d \in EdgeIds, Set(E0, d)
      PROVE  \E f \in EdgeIds : Set(G, f) /\ SameFact(G[f], E0[d])
  <2>1. PICK g \in EdgeIds : Set(E, g) /\ SameFact(E[g], E0[d])
    BY <1>7 DEF EdgesFrom, FactsFrom
  <2>2. CASE G[g] = E[g]
    BY <2>1, <2>2 DEF Set
  <2>3. CASE G[g] # E[g]
    <3>1. PICK f \in EdgeIds : E[f].ten = into /\ E[f].st = "set"
                               /\ E[f].from = E[g].from /\ E[f].to = E[g].to
      BY <1>4, <2>3
    <3>2. G[f] = E[f]
      BY <1>1, <1>4, <3>1
    <3>3. Set(G, f) /\ SameFact(G[f], E0[d])
      BY <2>1, <3>1, <3>2 DEF Set, SameFact
    <3> QED BY <3>3
  <2> QED BY <2>2, <2>3
<1>8. EdgesFrom(G, E0)
  BY <1>5, <1>6, <1>7 DEF EdgesFrom, FactsFrom
<1> QED BY <1>8 DEF G

LEMMA EdgesAsTheyAre == AdoptInv => EdgesFrom(edges, edges)
<1> SUFFICES ASSUME AdoptInv PROVE EdgesFrom(edges, edges)
  OBVIOUS
<1>1. edges \in [EdgeIds -> EdgeType]
      /\ \A e \in EdgeIds : Set(edges, e) => edges[e].from # <<>> /\ edges[e].to # <<>>
  BY DEF AdoptInv, EdgesTyped
<1>2. \A e \in EdgeIds : Set(edges, e) => SameFact(edges[e], edges[e])
  BY <1>1 DEF SameFact, SameHead
<1>3. \A e \in EdgeIds : Set(edges, e) => \E f \in EdgeIds : Set(edges, f) /\ SameFact(edges[f], edges[e])
  BY <1>2 DEF Set
<1> QED BY <1>1, <1>2, <1>3 DEF EdgesFrom, FactsFrom

\* What a move makes of the store.
MoveOutcome(new) ==
  /\ new.R \in [RowIds -> RowType] /\ FactsFrom(new.E, edges) /\ new.names \in SUBSET Renames
  /\ \A i \in RowIds : /\ new.R[i].st = rows[i].st /\ Extends(new.R[i].key, rows[i].key)
                       /\ rows[i].ten # Unsigned /\ rows[i].st = "live" => new.R[i] = rows[i]
                       /\ rows[i].st \in {"live", "archived"} => new.R[i].ten # Unsigned

LEMMA MoveKeeps ==
  ASSUME AdoptInv, NEW into \in Accounts
  PROVE  MoveOutcome(Moved(into))
<1> DEFINE start == [R |-> rows, E |-> edges, names |-> {}]
           one == ResolveConflicts(into, start)
           held == Held(one.R, one.E, into)
           two == ResolveEdges(into, one)
           three == DropDuplicates(two.E, into, held)
           R == [i \in RowIds |-> IF two.R[i].ten = Unsigned /\ two.R[i].st \in {"live", "archived"}
                                    THEN [two.R[i] EXCEPT !.ten = into] ELSE two.R[i]]
           E == [e \in EdgeIds |-> IF Set(three, e) /\ three[e].ten = Unsigned /\ e \notin held
                                     THEN [three[e] EXCEPT !.ten = into] ELSE three[e]]
<1>1. Moved(into) = [R |-> R, E |-> E, names |-> two.names]
  BY DEF Moved
<1>2. EdgesFrom(edges, edges)
  BY EdgesAsTheyAre
<1>3. rows \in [RowIds -> RowType] /\ \A i \in RowIds : rows[i].st # "none" => rows[i].key # <<>>
  BY DEF AdoptInv, RowsTyped
<1>4. one \in StoresFrom(rows, edges)
  BY <1>2, <1>3, ConflictsKeep
<1> HIDE DEF one, held
<1>5. two \in StoresFrom(rows, edges)
  BY <1>4, EdgesResolved
<1> HIDE DEF two
<1>6. RowsFrom(two.R, rows) /\ EdgesFrom(two.E, edges) /\ two.names \in SUBSET Renames
  BY <1>5 DEF StoresFrom
<1>7. EdgesFrom(three, edges)
  BY <1>6, DuplicatesGo
<1> HIDE DEF three
<1>8. into \in Tenants /\ into # Unsigned
  BY AdoptBounds DEF Tenants
<1>9. ASSUME NEW i \in RowIds
      PROVE  /\ R[i] \in RowType /\ R[i].st = rows[i].st /\ Extends(R[i].key, rows[i].key)
             /\ rows[i].ten # Unsigned /\ rows[i].st = "live" => R[i] = rows[i]
             /\ rows[i].st \in {"live", "archived"} => R[i].ten # Unsigned
  <2>1. /\ two.R[i] \in RowType /\ two.R[i].st = rows[i].st /\ two.R[i].ten = rows[i].ten
        /\ Extends(two.R[i].key, rows[i].key)
        /\ rows[i].ten # Unsigned /\ rows[i].st = "live" => two.R[i] = rows[i]
    BY <1>6 DEF RowsFrom
  <2>2. CASE two.R[i].ten = Unsigned /\ two.R[i].st \in {"live", "archived"}
    <3>1. R[i] = [two.R[i] EXCEPT !.ten = into]
      BY <2>2
    <3> HIDE DEF R
    <3>2. /\ R[i] \in RowType /\ R[i].st = two.R[i].st /\ R[i].key = two.R[i].key /\ R[i].ten = into
      BY <1>8, <2>1, <3>1 DEF RowType
    <3> QED BY <1>8, <2>1, <2>2, <3>2
  <2>3. CASE ~(two.R[i].ten = Unsigned /\ two.R[i].st \in {"live", "archived"})
    <3>1. R[i] = two.R[i]
      BY <2>3
    <3> HIDE DEF R
    <3> QED BY <2>1, <2>3, <3>1
  <2> QED BY <2>2, <2>3
<1>10. R \in [RowIds -> RowType]
  <2>1. R = [i \in RowIds |-> R[i]]
    OBVIOUS
  <2> HIDE DEF R
  <2> QED BY <1>9, <2>1
<1>11. ASSUME NEW e \in EdgeIds
       PROVE  /\ E[e] \in EdgeType /\ E[e].st = three[e].st
              /\ E[e].from = three[e].from /\ E[e].to = three[e].to
              /\ E[e].fromId = three[e].fromId /\ E[e].toId = three[e].toId
  <2>1. three[e] \in EdgeType
    BY <1>7 DEF EdgesFrom, FactsFrom
  <2>2. E[e] = three[e] \/ E[e] = [three[e] EXCEPT !.ten = into]
    OBVIOUS
  <2> HIDE DEF E
  <2> QED BY <1>8, <2>1, <2>2 DEF EdgeType
<1>12. E \in [EdgeIds -> EdgeType]
  <2>1. E = [e \in EdgeIds |-> E[e]]
    OBVIOUS
  <2> HIDE DEF E
  <2> QED BY <1>11, <2>1
<1> HIDE DEF R, E
<1>13. FactsFrom(E, edges)
  <2>1. \A e \in EdgeIds : /\ E[e].fromId = edges[e].fromId /\ E[e].toId = edges[e].toId
                           /\ Set(E, e) => Set(edges, e)
                           /\ Set(edges, e) => SameFact(E[e], edges[e])
    BY <1>7, <1>11 DEF EdgesFrom, FactsFrom, SameFact, Set
  <2>2. ASSUME NEW d \in EdgeIds, Set(edges, d)
        PROVE  \E f \in EdgeIds : Set(E, f) /\ SameFact(E[f], edges[d])
    <3>1. PICK f \in EdgeIds : Set(three, f) /\ SameFact(three[f], edges[d])
      BY <1>7, <2>2 DEF EdgesFrom, FactsFrom
    <3>2. Set(E, f) /\ SameFact(E[f], edges[d])
      BY <1>11, <3>1 DEF Set, SameFact
    <3> QED BY <3>2
  <2> QED BY <1>12, <2>1, <2>2 DEF EdgesFrom, FactsFrom
<1> DEFINE new == [R |-> R, E |-> E, names |-> two.names]
<1>14. new.R = R /\ new.E = E /\ new.names = two.names
  OBVIOUS
<1> HIDE DEF new
<1>15. MoveOutcome(new)
  BY <1>6, <1>9, <1>10, <1>13, <1>14 DEF MoveOutcome
<1> QED BY <1>1, <1>15 DEF new

LEMMA WriteSteps ==
  ASSUME AdoptInv, NEW ten \in Tenants, NEW n \in EntityNames \union DocNames, Write(ten, <<n>>)
  PROVE  AdoptInv'
<1>1. PICK i \in RowIds : rows[i].st = "none"
                          /\ rows' = [rows EXCEPT ![i] = [ten |-> ten, key |-> <<n>>, st |-> "live"]]
                          /\ UNCHANGED <<edges, audit, mover, first>>
  BY DEF Write
<1>2. <<n>> \in AnyKey /\ <<n>> # <<>>
  <2>1. n \in Marks
    BY DEF Marks
  <2> HIDE DEF Marks
  <2> QED BY <2>1 DEF AnyKey
<1>3. [ten |-> ten, key |-> <<n>>, st |-> "live"] \in RowType
  BY <1>2 DEF RowType
<1>4. rows \in [RowIds -> RowType] /\ \A j \in RowIds : rows[j].st # "none" => rows[j].key # <<>>
  BY DEF AdoptInv, RowsTyped
<1>5. RowsTyped'
  BY <1>1, <1>2, <1>3, <1>4 DEF RowsTyped
<1>6. EdgesTyped'
  <2>1. ASSUME NEW e \in EdgeIds, Set(edges, e) PROVE Stamped(edges[e])'
    <3>1. Stamped(edges[e]) /\ edges[e] \in EdgeType
      BY <2>1 DEF AdoptInv, EdgesTyped
    <3>2. edges[e].fromId \in 0..MaxRows /\ edges[e].toId \in 0..MaxRows
      BY <3>1 DEF EdgeType
    <3>3. \A stamp \in 0..MaxRows : stamp # 0 => stamp \in RowIds
      BY AdoptBounds DEF RowIds
    <3>4. \A stamp \in RowIds : rows[stamp].st # "none" => rows'[stamp] = rows[stamp]
      BY <1>1, <1>4
    <3> QED BY <1>1, <3>1, <3>2, <3>3, <3>4 DEF Stamped, StampFits
  <2> QED BY <1>1, <2>1 DEF AdoptInv, EdgesTyped, Set
<1>7. MoversTyped'
  BY <1>1 DEF AdoptInv, MoversTyped
<1> QED BY <1>5, <1>6, <1>7 DEF AdoptInv

\* Rows whose names and births stay keep the stamps of edges.
LEMMA StampsOn ==
  ASSUME AdoptInv, edges' \in [EdgeIds -> EdgeType],
         \A e \in EdgeIds : Set(edges', e) => Set(edges, e) /\ SameFact(edges'[e], edges[e])
                              /\ edges'[e].fromId = edges[e].fromId /\ edges'[e].toId = edges[e].toId,
         \A i \in RowIds : rows[i].st # "none" => rows'[i].st # "none" /\ SameHead(rows[i].key, rows'[i].key)
  PROVE  EdgesTyped'
<1>1. ASSUME NEW e \in EdgeIds, Set(edges', e)
      PROVE  edges'[e].from # <<>> /\ edges'[e].to # <<>> /\ Stamped(edges[e])'
  <2>1. Set(edges, e) /\ SameFact(edges'[e], edges[e])
        /\ edges'[e].fromId = edges[e].fromId /\ edges'[e].toId = edges[e].toId
    BY <1>1
  <2>2. Stamped(edges[e]) /\ edges[e] \in EdgeType
    BY <2>1 DEF AdoptInv, EdgesTyped
  <2>3. edges[e].fromId \in 0..MaxRows /\ edges[e].toId \in 0..MaxRows
    BY <2>2 DEF EdgeType
  <2>4. \A stamp \in 0..MaxRows : stamp # 0 => stamp \in RowIds
    BY AdoptBounds DEF RowIds
  <2>5. StampFits(edges[e].from, edges[e].fromId)' /\ StampFits(edges[e].to, edges[e].toId)'
    BY <2>1, <2>2, <2>3, <2>4 DEF Stamped, StampFits, SameFact, SameHead
  <2> QED BY <2>1, <2>5 DEF Stamped, SameFact, SameHead
<1> QED BY <1>1 DEF EdgesTyped, Set

LEMMA ArchiveSteps ==
  ASSUME AdoptInv, NEW i \in RowIds, Archive(i) \/ Delete(i)
  PROVE  AdoptInv'
<1> DEFINE to == IF Archive(i) THEN "archived" ELSE "gone"
<1>1. /\ rows' = [rows EXCEPT ![i].st = to] /\ rows[i].st = "live"
      /\ to \in {"archived", "gone"} /\ UNCHANGED <<audit, mover, first>>
  BY DEF Archive, Delete
<1>2. rows \in [RowIds -> RowType] /\ \A j \in RowIds : rows[j].st # "none" => rows[j].key # <<>>
  BY DEF AdoptInv, RowsTyped
<1> HIDE DEF to
<1>3. rows'[i] = [rows[i] EXCEPT !.st = to] /\ \A j \in RowIds : j # i => rows'[j] = rows[j]
  BY <1>1, <1>2
<1>4. rows'[i] \in RowType /\ rows'[i].key = rows[i].key /\ rows'[i].st = to
  <2>1. rows[i] \in RowType
    BY <1>2
  <2> QED BY <1>1, <1>3, <2>1 DEF RowType
<1>5. RowsTyped'
  <2>1. rows' \in [RowIds -> RowType]
    BY <1>1, <1>2, <1>3, <1>4
  <2>2. \A j \in RowIds : rows'[j].st # "none" => rows'[j].key # <<>>
    BY <1>1, <1>2, <1>3, <1>4
  <2> QED BY <2>1, <2>2 DEF RowsTyped
<1>6. \A j \in RowIds : rows[j].st # "none" => rows'[j].st # "none" /\ SameHead(rows[j].key, rows'[j].key)
  BY <1>1, <1>2, <1>3, <1>4 DEF SameHead
<1>7. /\ edges' \in [EdgeIds -> EdgeType]
      /\ \A e \in EdgeIds : Set(edges', e) => edges'[e] = edges[e]
  <2>1. edges \in [EdgeIds -> EdgeType]
    BY DEF AdoptInv, EdgesTyped
  <2>2. CASE Archive(i)
    BY <2>1, <2>2 DEF Archive
  <2>3. CASE Delete(i)
    <3>1. edges' = [e \in EdgeIds |-> IF Touches(edges[e], rows[i].ten, rows[i].key)
                                        THEN [edges[e] EXCEPT !.st = "gone"] ELSE edges[e]]
      BY <2>3 DEF Delete
    <3>2. \A e \in EdgeIds : edges[e] \in EdgeType /\ [edges[e] EXCEPT !.st = "gone"] \in EdgeType
                             /\ [edges[e] EXCEPT !.st = "gone"].st = "gone"
      BY <2>1 DEF EdgeType
    <3> QED BY <3>1, <3>2 DEF Set
  <2> QED BY <2>2, <2>3
<1>8. EdgesTyped'
  <2>1. \A e \in EdgeIds : Set(edges', e) => Set(edges, e) /\ SameFact(edges'[e], edges[e])
                             /\ edges'[e].fromId = edges[e].fromId /\ edges'[e].toId = edges[e].toId
    BY <1>7 DEF AdoptInv, EdgesTyped, SameFact, SameHead, Set
  <2> QED BY <1>6, <1>7, <2>1, StampsOn
<1>9. MoversTyped'
  BY <1>1 DEF AdoptInv, MoversTyped
<1> QED BY <1>5, <1>8, <1>9 DEF AdoptInv

LEMMA LinkSteps ==
  ASSUME AdoptInv, NEW ten \in Tenants, NEW src \in Keys, NEW dst \in Keys, NEW stamps \in BOOLEAN,
         Link(ten, src, dst, stamps)
  PROVE  AdoptInv'
<1> DEFINE a == IF stamps THEN Identity(ten, src) ELSE 0
           b == IF stamps THEN Identity(ten, dst) ELSE 0
           edge == [ten |-> ten, from |-> src, to |-> dst, st |-> "set", fromId |-> a, toId |-> b]
<1>1. PICK e \in EdgeIds : edges' = [edges EXCEPT ![e] = edge]
                           /\ Live(rows, ten, src) /\ Live(rows, ten, dst)
                           /\ UNCHANGED <<rows, audit, mover, first>>
  BY DEF Link
<1>2. ASSUME NEW key, Live(rows, ten, key)
      PROVE  key \in AnyKey /\ key # <<>>
             /\ Identity(ten, key) \in 0..MaxRows /\ StampFits(key, Identity(ten, key))
  <2>1. ASSUME NEW i \in RowsAt(rows, ten, key)
        PROVE  i \in RowIds /\ i \in 0..MaxRows /\ rows[i].st = "live" /\ rows[i].key = key
               /\ key \in AnyKey /\ key # <<>>
    <3>1. i \in RowIds /\ rows[i].st = "live" /\ rows[i].key = key
      BY DEF RowsAt
    <3>2. rows[i] \in RowType /\ rows[i].key # <<>>
      BY <3>1 DEF AdoptInv, RowsTyped
    <3>3. i \in 0..MaxRows
      BY <3>1, AdoptBounds DEF RowIds
    <3> QED BY <3>1, <3>2, <3>3 DEF RowType
  <2>2. PICK i \in RowsAt(rows, ten, key) : TRUE
    BY <1>2 DEF Live
  <2>3. key \in AnyKey /\ key # <<>>
    BY <2>1, <2>2
  <2> DEFINE c == CHOOSE j \in RowsAt(rows, ten, key) : TRUE
  <2>4. c \in RowsAt(rows, ten, key)
    BY <2>2
  <2>5. Identity(ten, key) \in {0, c}
    BY DEF Identity
  <2> HIDE DEF c
  <2>6. c \in 0..MaxRows /\ StampFits(key, c)
    BY <2>1, <2>3, <2>4 DEF StampFits, SameHead
  <2>7. 0 \in 0..MaxRows /\ StampFits(key, 0)
    BY AdoptBounds DEF StampFits
  <2> QED BY <2>3, <2>5, <2>6, <2>7
<1>3. /\ src \in AnyKey /\ src # <<>> /\ dst \in AnyKey /\ dst # <<>>
      /\ a \in 0..MaxRows /\ StampFits(src, a) /\ b \in 0..MaxRows /\ StampFits(dst, b)
  <2>1. 0 \in 0..MaxRows /\ StampFits(src, 0) /\ StampFits(dst, 0)
    BY AdoptBounds DEF StampFits
  <2> QED BY <1>1, <1>2, <2>1
<1> HIDE DEF a, b
<1>4. edge \in EdgeType /\ edge.from = src /\ edge.to = dst /\ edge.fromId = a /\ edge.toId = b
  BY <1>3 DEF EdgeType
<1> HIDE DEF edge
<1>5. EdgesTyped'
  <2>1. edges \in [EdgeIds -> EdgeType]
        /\ \A d \in EdgeIds : Set(edges, d) => edges[d].from # <<>> /\ edges[d].to # <<>> /\ Stamped(edges[d])
    BY DEF AdoptInv, EdgesTyped
  <2>2. edges' \in [EdgeIds -> EdgeType] /\ edges'[e] = edge /\ \A d \in EdgeIds : d # e => edges'[d] = edges[d]
    BY <1>1, <1>4, <2>1
  <2>3. ASSUME NEW d \in EdgeIds, Set(edges', d)
        PROVE  edges'[d].from # <<>> /\ edges'[d].to # <<>> /\ Stamped(edges'[d])
    <3>1. CASE d = e
      BY <1>3, <1>4, <2>2, <3>1 DEF Stamped
    <3>2. CASE d # e
      BY <2>1, <2>2, <2>3, <3>2 DEF Set
    <3> QED BY <3>1, <3>2
  <2> QED BY <1>1, <2>2, <2>3 DEF EdgesTyped, Set, Stamped, StampFits
<1>6. RowsTyped' /\ MoversTyped'
  BY <1>1 DEF AdoptInv, RowsTyped, MoversTyped
<1> QED BY <1>5, <1>6 DEF AdoptInv

LEMMA LookSteps ==
  ASSUME AdoptInv, NEW m \in Movers, NEW a \in Accounts, NEW confirm \in {"no", "yes"},
         Look(m, a, confirm)
  PROVE  AdoptInv'
<1>1. /\ mover' = [mover EXCEPT ![m] = [at |-> "move", into |-> a, confirm |-> confirm]]
      /\ UNCHANGED <<rows, edges, audit, first>>
  BY DEF Look
<1>2. a \in Tenants
  BY DEF Tenants
<1>3. MoversTyped'
  BY <1>1, <1>2 DEF AdoptInv, MoversTyped
<1>4. RowsTyped'
  BY <1>1 DEF AdoptInv, RowsTyped
<1>5. EdgesTyped'
  BY <1>1 DEF AdoptInv, EdgesTyped, Set, Stamped, StampFits
<1> QED BY <1>3, <1>4, <1>5 DEF AdoptInv

LEMMA MovesSteps ==
  ASSUME AdoptInv, NEW m \in Movers, Move(m) \/ RollsBack(m)
  PROVE  AdoptInv' /\ (rows' # rows \/ edges' # edges =>
                         \E new : MoveOutcome(new) /\ rows' = new.R /\ edges' = new.E)
<1> DEFINE acct == mover[m].into
           new == Moved(acct)
<1>1. mover[m].at = "move" /\ mover' = [mover EXCEPT ![m] = Still]
  BY DEF Move, RollsBack, Leaves
<1>2. acct \in Accounts
  BY <1>1 DEF AdoptInv, MoversTyped
<1>3. MoveOutcome(new)
  BY <1>2, MoveKeeps
<1> HIDE DEF new
<1>4. \/ UNCHANGED <<rows, edges>>
      \/ rows' = new.R /\ edges' = new.E
  BY DEF Move, RollsBack, new
<1>5. \/ UNCHANGED audit
      \/ \E names \in {{}, new.names}, moved \in BOOLEAN : Record(m, acct, names, moved)
  BY DEF Move, RollsBack, new
<1>6. MoversTyped'
  <2>1. /\ audit \in [Accounts -> [seen : {"no", "yes"}, moved : {"no", "yes"}, autos : Nat,
                                   renames : SUBSET Renames]]
        /\ mover \in [Movers -> [at : {"idle", "move"}, into : Tenants, confirm : {"no", "yes"}]]
        /\ \A k \in Movers : mover[k].at = "move" => mover[k].into \in Accounts
    BY DEF AdoptInv, MoversTyped
  <2>2. audit' \in [Accounts -> [seen : {"no", "yes"}, moved : {"no", "yes"}, autos : Nat,
                                 renames : SUBSET Renames]]
    <3>1. CASE UNCHANGED audit
      BY <2>1, <3>1
    <3>2. ASSUME NEW names \in {{}, new.names}, NEW moved \in BOOLEAN, Record(m, acct, names, moved)
          PROVE  audit' \in [Accounts -> [seen : {"no", "yes"}, moved : {"no", "yes"}, autos : Nat,
                                          renames : SUBSET Renames]]
      <4> DEFINE old == audit[acct]
                 r == [seen |-> "yes", moved |-> IF moved THEN "yes" ELSE old.moved,
                       autos |-> IF IsAuto(m) THEN old.autos + 1 ELSE old.autos,
                       renames |-> old.renames \union names]
      <4>1. audit' = [audit EXCEPT ![acct] = r]
        BY <3>2 DEF Record
      <4>2. old \in [seen : {"no", "yes"}, moved : {"no", "yes"}, autos : Nat, renames : SUBSET Renames]
        BY <1>2, <2>1
      <4>3. names \in SUBSET Renames
        BY <1>3 DEF MoveOutcome
      <4> HIDE DEF old
      <4>4. r \in [seen : {"no", "yes"}, moved : {"no", "yes"}, autos : Nat, renames : SUBSET Renames]
        BY <4>2, <4>3
      <4> HIDE DEF r
      <4> QED BY <1>2, <2>1, <4>1, <4>4
    <3> QED BY <1>5, <3>1, <3>2
  <2>3. Unsigned \in Tenants
    BY DEF Tenants
  <2>4. mover' \in [Movers -> [at : {"idle", "move"}, into : Tenants, confirm : {"no", "yes"}]]
        /\ \A k \in Movers : mover'[k].at = "move" => mover'[k].into \in Accounts
    BY <1>1, <2>1, <2>3 DEF Still
  <2> QED BY <2>2, <2>4 DEF MoversTyped
<1>7. CASE UNCHANGED <<rows, edges>>
  <2>1. RowsTyped' /\ EdgesTyped'
    BY <1>7 DEF AdoptInv, RowsTyped, EdgesTyped, Set, Stamped, StampFits
  <2> QED BY <1>6, <1>7, <2>1 DEF AdoptInv
<1>8. CASE rows' = new.R /\ edges' = new.E
  <2>1. rows \in [RowIds -> RowType] /\ \A i \in RowIds : rows[i].st # "none" => rows[i].key # <<>>
    BY DEF AdoptInv, RowsTyped
  <2>2. ASSUME NEW i \in RowIds
        PROVE  /\ rows'[i].st = rows[i].st
               /\ rows[i].st # "none" => SameHead(rows[i].key, rows'[i].key)
    <3>1. rows[i].key \in AnyKey /\ rows'[i].st = rows[i].st /\ Extends(rows'[i].key, rows[i].key)
      BY <1>3, <1>8, <2>1 DEF MoveOutcome, RowType
    <3> QED BY <2>1, <3>1, ExtendsHead
  <2>3. RowsTyped'
    <3>1. rows' \in [RowIds -> RowType]
      BY <1>3, <1>8 DEF MoveOutcome
    <3> QED BY <2>2, <3>1 DEF RowsTyped, SameHead
  <2>4. EdgesTyped'
    <3>1. FactsFrom(edges', edges)
      BY <1>3, <1>8 DEF MoveOutcome
    <3>2. /\ edges' \in [EdgeIds -> EdgeType]
          /\ \A e \in EdgeIds : Set(edges', e) => Set(edges, e) /\ SameFact(edges'[e], edges[e])
                             /\ edges'[e].fromId = edges[e].fromId /\ edges'[e].toId = edges[e].toId
      BY <3>1 DEF EdgesFrom, FactsFrom
    <3>3. \A i \in RowIds : rows[i].st # "none" => rows'[i].st # "none" /\ SameHead(rows[i].key, rows'[i].key)
      BY <2>2
    <3> QED BY <3>2, <3>3, StampsOn
  <2> QED BY <1>3, <1>6, <1>8, <2>3, <2>4 DEF AdoptInv
<1> QED BY <1>4, <1>7, <1>8

LEMMA AdoptStep == AdoptInv /\ [AdoptNext]_adoptVars => AdoptInv'
<1> SUFFICES ASSUME AdoptInv, [AdoptNext]_adoptVars PROVE AdoptInv'
  OBVIOUS
<1>1. ASSUME NEW ten \in Tenants, NEW n \in EntityNames \union DocNames, Write(ten, <<n>>)
      PROVE  AdoptInv'
  BY <1>1, WriteSteps
<1>2. ASSUME NEW i \in RowIds, Archive(i) \/ Delete(i)
      PROVE  AdoptInv'
  BY <1>2, ArchiveSteps
<1>3. ASSUME NEW ten \in Tenants, NEW src \in Keys, NEW dst \in Keys, NEW stamps \in BOOLEAN,
             Link(ten, src, dst, stamps)
      PROVE  AdoptInv'
  BY <1>3, LinkSteps
<1>4. ASSUME NEW m \in Movers, NEW a \in Accounts, NEW confirm \in {"no", "yes"}, Look(m, a, confirm)
      PROVE  AdoptInv'
  BY <1>4, LookSteps
<1>5. ASSUME NEW m \in Movers, Move(m) \/ RollsBack(m)
      PROVE  AdoptInv'
  BY <1>5, MovesSteps
<1>6. CASE UNCHANGED adoptVars
  BY <1>6 DEF adoptVars, AdoptInv, RowsTyped, EdgesTyped, MoversTyped, Set, Stamped, StampFits
<1> QED BY <1>1, <1>2, <1>3, <1>4, <1>5, <1>6 DEF AdoptNext

\* KeepsBoth, of one step.
BothKept ==
  \A m \in Movers : mover[m].at = "move" /\ mover'[m].at = "idle" /\ rows' # rows =>
       /\ \A i \in RowIds :
            /\ rows'[i].st = rows[i].st
            /\ rows[i].ten # Unsigned /\ rows[i].st = "live" => rows'[i] = rows[i]
            /\ rows[i].st \in {"live", "archived"} => rows'[i].ten # Unsigned
            /\ rows[i].st # "none" => SubSeq(rows'[i].key, 1, Len(rows[i].key)) = rows[i].key
       /\ \A e \in EdgeIds : Set(edges, e) /\ ~ Set(edges', e) =>
            \E f \in EdgeIds : /\ Set(edges', f) /\ Head(edges'[f].from) = Head(edges[e].from)
                               /\ Head(edges'[f].to) = Head(edges[e].to)

\* A mover that is done has moved, or rolled back.
LEMMA OnlyMovesEnd ==
  ASSUME AdoptInv, [AdoptNext]_adoptVars, NEW m \in Movers, mover[m].at = "move", mover'[m].at = "idle"
  PROVE  \E k \in Movers : Move(k) \/ RollsBack(k)
<1>0. mover' # mover
  OBVIOUS
<1>1. AdoptNext
  BY <1>0 DEF adoptVars
<1>2. \A ten \in Tenants, n \in EntityNames \union DocNames : ~Write(ten, <<n>>)
  BY <1>0 DEF Write
<1>3. \A i \in RowIds : ~Archive(i) /\ ~Delete(i)
  BY <1>0 DEF Archive, Delete
<1>4. \A ten \in Tenants, src \in Keys, dst \in Keys, stamps \in BOOLEAN : ~Link(ten, src, dst, stamps)
  BY <1>0 DEF Link
<1>5. \A k \in Movers, a \in Accounts, confirm \in {"no", "yes"} : ~Look(k, a, confirm)
  <2> SUFFICES ASSUME NEW k \in Movers, NEW a \in Accounts, NEW confirm \in {"no", "yes"}, Look(k, a, confirm)
               PROVE  FALSE
    OBVIOUS
  <2>1. mover[k].at = "idle" /\ mover' = [mover EXCEPT ![k] = [at |-> "move", into |-> a, confirm |-> confirm]]
    BY <1>0 DEF Look
  <2>2. mover \in [Movers -> [at : {"idle", "move"}, into : Tenants, confirm : {"no", "yes"}]]
    BY DEF AdoptInv, MoversTyped
  <2>3. m # k /\ mover'[m] = mover[m]
    BY <2>1, <2>2
  <2> QED BY <2>3
<1> QED BY <1>1, <1>2, <1>3, <1>4, <1>5 DEF AdoptNext

LEMMA MoveKeepsBoth == AdoptInv /\ [AdoptNext]_adoptVars => BothKept
<1> SUFFICES ASSUME AdoptInv, [AdoptNext]_adoptVars,
                    NEW m \in Movers, mover[m].at = "move", mover'[m].at = "idle", rows' # rows
             PROVE  BothKept
  BY DEF BothKept
<1>1. AdoptInv
  OBVIOUS
<1>2. PICK k \in Movers : Move(k) \/ RollsBack(k)
  BY OnlyMovesEnd
<1>3. PICK new : MoveOutcome(new) /\ rows' = new.R /\ edges' = new.E
  BY <1>2, MovesSteps
<1>4. ASSUME NEW i \in RowIds
      PROVE  /\ rows'[i].st = rows[i].st
             /\ rows[i].ten # Unsigned /\ rows[i].st = "live" => rows'[i] = rows[i]
             /\ rows[i].st \in {"live", "archived"} => rows'[i].ten # Unsigned
             /\ rows[i].st # "none" => SubSeq(rows'[i].key, 1, Len(rows[i].key)) = rows[i].key
  BY <1>3 DEF MoveOutcome, Extends
<1>5. ASSUME NEW e \in EdgeIds, Set(edges, e)
      PROVE  \E f \in EdgeIds : /\ Set(edges', f) /\ Head(edges'[f].from) = Head(edges[e].from)
                                /\ Head(edges'[f].to) = Head(edges[e].to)
  BY <1>3, <1>5 DEF MoveOutcome, EdgesFrom, FactsFrom, SameFact, SameHead
<1> QED BY <1>4, <1>5 DEF BothKept

\* "Nothing is deleted", "KEEP BOTH, overwrite neither" (_adopt.py): whatever was
\* written, archived, deleted or linked under either tenant, and however many
\* movers raced, a move leaves every row there, the account's own as they were
\* and the others under the account with their name or a suffixed one, and of
\* every edge one between the same two names.
THEOREM MovesKeepBoth == AdoptSpec => KeepsBoth
<1>1. AdoptSpec => []AdoptInv
  BY AdoptStart, AdoptStep, PTL DEF AdoptSpec
<1>2. AdoptInv /\ [AdoptNext]_adoptVars => [BothKept]_adoptVars
  BY MoveKeepsBoth
<1>3. [][BothKept]_adoptVars <=> KeepsBoth
  BY DEF KeepsBoth, BothKept
<1> QED BY <1>1, <1>2, <1>3, PTL DEF AdoptSpec

-----------------------------------------------------------------------------
(* What a move may not do to an edge: attach it to a memory the account had. *)

\* Rows of one tenant have different names.
OneEach(R) ==
  \A i, j \in RowIds :
    R[i].st = "live" /\ R[j].st = "live" /\ R[i].ten = R[j].ten /\ R[i].key = R[j].key => i = j
KeysUnique == OneEach(rows)
Unmoved == \A a \in Accounts : audit[a].moved = "no" => audit[a].renames = {}
EndsInv == AdoptInv /\ KeysUnique /\ Unmoved

\* No name stands for two memories, of the default tenant or the account.
Both(R, into, i) == R[i].st = "live" /\ R[i].ten \in {Unsigned, into}
Apart(R, into, ids) ==
  \A i, j \in ids : Both(R, into, i) /\ Both(R, into, j) /\ R[i].key = R[j].key => i = j

LEMMA FreeIsLeft ==
  ASSUME NEW key, NEW taken, NEW n \in Suffixes, Append(key, n) \notin taken
  PROVE  \E m \in Suffixes : FreeKey(taken, key) = Append(key, m) /\ Append(key, m) \notin taken
<1> DEFINE T == {m \in Suffixes : Append(key, m) \notin taken}
<1>1. T # {} /\ T \subseteq Nat
  BY AdoptBounds DEF Suffixes
<1> HIDE DEF T
<1>2. IsFiniteSet(T)
  <2>1. 1 \in Int /\ MaxRows + 2 * MaxEdges + 1 \in Int
    BY AdoptBounds
  <2>2. IsFiniteSet(Suffixes)
    BY <2>1, FS_Interval DEF Suffixes
  <2> QED BY <2>2, FS_Subset DEF T
<1>4. Min(T) \in T
  BY <1>1, <1>2, LeastNumber
<1>5. FreeKey(taken, key) = Append(key, Min(T))
  BY DEF FreeKey, T
<1> QED BY <1>4, <1>5 DEF T

\* There are more suffixes than names in the store.
Named(R, E, key) ==
  \/ \E i \in RowIds : R[i].key = key
  \/ \E e \in EdgeIds : E[e].from = key
  \/ \E e \in EdgeIds : E[e].to = key

LEMMA NameLeft ==
  ASSUME NEW R, NEW E, NEW key \in AnyKey
  PROVE  \E n \in Suffixes : ~Named(R, E, Append(key, n))
<1> SUFFICES ASSUME \A n \in Suffixes :
                      \/ \E i \in RowIds : R[i].key = Append(key, n)
                      \/ \E e \in EdgeIds : E[e].from = Append(key, n)
                      \/ \E e \in EdgeIds : E[e].to = Append(key, n)
             PROVE  FALSE
  BY DEF Named
<1> DEFINE N == MaxRows + 2 * MaxEdges
           Holder(n, h) ==
             \/ \E i \in RowIds : R[i].key = Append(key, n) /\ h = i
             \/ \E e \in EdgeIds : E[e].from = Append(key, n) /\ h = MaxRows + e
             \/ \E e \in EdgeIds : E[e].to = Append(key, n) /\ h = MaxRows + MaxEdges + e
           f == [n \in Suffixes |-> CHOOSE h \in 1..N : Holder(n, h)]
<1>1. MaxRows \in Nat /\ MaxEdges \in Nat /\ N \in Nat
  BY AdoptBounds
<1>2. \A i \in RowIds : i \in Nat /\ i >= 1 /\ i <= MaxRows
  BY <1>1 DEF RowIds
<1>3. \A e \in EdgeIds : e \in Nat /\ e >= 1 /\ e <= MaxEdges
  BY <1>1 DEF EdgeIds
<1>4. ASSUME NEW n \in Suffixes PROVE \E h \in 1..N : Holder(n, h)
  <2>1. CASE \E i \in RowIds : R[i].key = Append(key, n)
    BY <1>1, <1>2, <2>1
  <2>2. CASE \E e \in EdgeIds : E[e].from = Append(key, n)
    <3>1. PICK e \in EdgeIds : E[e].from = Append(key, n)
      BY <2>2
    <3>2. MaxRows + e \in 1..N
      BY <1>1, <1>3
    <3> QED BY <3>1, <3>2
  <2>3. CASE \E e \in EdgeIds : E[e].to = Append(key, n)
    <3>1. PICK e \in EdgeIds : E[e].to = Append(key, n)
      BY <2>3
    <3>2. MaxRows + MaxEdges + e \in 1..N
      BY <1>1, <1>3
    <3> QED BY <3>1, <3>2
  <2> QED BY <2>1, <2>2, <2>3
<1>5. ASSUME NEW n \in Suffixes, NEW m \in Suffixes, NEW h, Holder(n, h), Holder(m, h)
      PROVE  n = m
  <2>1. Append(key, n) = Append(key, m)
    BY <1>1, <1>2, <1>3, <1>5
  <2>2. key \in Seq(Marks \union Suffixes)
    BY DEF AnyKey
  <2>3. Len(key) \in Nat /\ Append(key, n)[Len(key) + 1] = n /\ Append(key, m)[Len(key) + 1] = m
    BY <2>2
  <2> QED BY <2>1, <2>3
<1> HIDE DEF Holder
<1>6. f \in [Suffixes -> 1..N] /\ \A n \in Suffixes : Holder(n, f[n])
  BY <1>4
<1> HIDE DEF f, N
<1>7. \A n, m \in Suffixes : f[n] = f[m] => n = m
  BY <1>5, <1>6
<1>8. /\ IsFiniteSet(1..N) /\ Cardinality(1..N) = N
      /\ IsFiniteSet(1..N + 1) /\ Cardinality(1..N + 1) = N + 1
  <2>1. 1 \in Int /\ N \in Int /\ N + 1 \in Int
    BY <1>1
  <2>2. IsFiniteSet(1..N) /\ Cardinality(1..N) = IF 1 <= N THEN N - 1 + 1 ELSE 0
    BY <2>1, FS_Interval
  <2>3. IsFiniteSet(1..N + 1) /\ Cardinality(1..N + 1) = IF 1 <= N + 1 THEN N + 1 - 1 + 1 ELSE 0
    BY <2>1, FS_Interval
  <2> QED BY <1>1, <2>2, <2>3
<1>9. Suffixes = 1..N + 1
  BY DEF Suffixes, N
<1>10. Cardinality(1..N) < Cardinality(Suffixes) /\ IsFiniteSet(Suffixes)
  BY <1>1, <1>8, <1>9
<1>11. \E n, m \in Suffixes : n # m /\ f[n] = f[m]
  <2> DEFINE H == 1..N
  <2>1. f \in [Suffixes -> H] /\ IsFiniteSet(H) /\ IsFiniteSet(Suffixes) /\ Cardinality(H) < Cardinality(Suffixes)
    BY <1>6, <1>8, <1>10
  <2> HIDE DEF H
  <2> QED BY ONLY <2>1, FS_PigeonHole
<1> QED BY <1>7, <1>11

\* _resolve_conflicts leaves no name in both tenants: what is renamed takes a
\* free name, and what stays was in no conflict.
LEMMA ConflictsApart ==
  ASSUME NEW R0, R0 \in [RowIds -> RowType], NEW E0, EdgesFrom(E0, E0),
         \A i \in RowIds : R0[i].st # "none" => R0[i].key # <<>>, NEW into,
         OneEach(R0)
  PROVE  Apart(ResolveConflicts(into, [R |-> R0, E |-> E0, names |-> {}]).R, into, RowIds)
<1> DEFINE S == Conflicts(R0, into)
           base == [R |-> R0, E |-> E0, names |-> {}]
           X == StoresFrom(R0, E0)
           Y == [u \in SUBSET S |-> {s \in X : /\ \A i \in RowIds \ u : s.R[i] = R0[i]
                                               /\ Apart(s.R, into, RowIds \ (S \ u))}]
<1>0. PICK iter : FoldsConflicts(iter, R0, E0, into)
  BY ConflictsFold
<1>1. /\ ResolveConflicts(into, base) = iter[S]
      /\ iter[{}] = base
      /\ \A u \in SUBSET S :
           /\ iter[u] \in X
           /\ u # {} => iter[u] = ResolveConflict(into, First(u), iter[u \ {First(u)}])
  BY <1>0 DEF FoldsConflicts
<1>2. S \subseteq RowIds /\ IsFiniteSet(S)
  <2>1. S \subseteq RowIds
    BY DEF Conflicts
  <2> HIDE DEF S
  <2> QED BY <2>1, RowsFinite
<1>3. Apart(R0, into, RowIds \ S)
  BY DEF Apart, Both, Conflicts, Live, RowsAt, OneEach
<1>4. iter[{}] \in Y[{}]
  <2>1. base.R = R0 /\ iter[{}] = base /\ iter[{}] \in X
    BY <1>1
  <2>2. RowIds \ (S \ {}) = RowIds \ S /\ RowIds \ {} = RowIds
    OBVIOUS
  <2> HIDE DEF base, S, X
  <2> QED BY <1>3, <2>1, <2>2
<1>5. ASSUME NEW u \in SUBSET S, u # {}, iter[u \ {First(u)}] \in Y[u \ {First(u)}]
      PROVE  iter[u] \in Y[u]
  <2> DEFINE i == First(u)
             w == u \ {i}
             s == iter[w]
             key == s.R[i].key
             taken == {k \in Suffixed(key) : \E t \in {Unsigned, into} : Live(s.R, t, k)}
             new == FreeKey(taken, key)
             R == [s.R EXCEPT ![i].key = new]
  <2>1. i \in u /\ i \in RowIds /\ w \in SUBSET S
    BY <1>2, <1>5 DEF First
  <2>2. /\ s \in X /\ \A j \in RowIds \ w : s.R[j] = R0[j]
        /\ Apart(s.R, into, RowIds \ (S \ w))
    BY <1>5, <2>1
  <2>3. iter[u].R = R /\ iter[u] \in X
    <3>1. iter[u] = ResolveConflict(into, i, s) /\ iter[u] \in X
      BY <1>1, <1>5
    <3> HIDE DEF i, s, X
    <3>2. ResolveConflict(into, i, s).R = R
      BY DEF ResolveConflict
    <3> QED BY <3>1, <3>2
  <2> HIDE DEF i, w, s
  <2>4. s.R \in [RowIds -> RowType] /\ key \in AnyKey
    BY <2>1, <2>2 DEF StoresFrom, RowType
  <2> HIDE DEF key
  <2>5. \A j \in RowIds : Both(s.R, into, j) => s.R[j].key # new
    <3>1. PICK n \in Suffixes : \A j \in RowIds : s.R[j].key # Append(key, n)
      <4>1. \E n \in Suffixes : ~Named(s.R, s.E, Append(key, n))
        BY <2>4, NameLeft
      <4> QED BY <4>1 DEF Named
    <3>2. Append(key, n) \notin taken
      BY <3>1 DEF Live, RowsAt
    <3> HIDE DEF taken
    <3>3. PICK m \in Suffixes : new = Append(key, m) /\ new \notin taken
      <4>1. \E m \in Suffixes : FreeKey(taken, key) = Append(key, m) /\ Append(key, m) \notin taken
        BY <3>2, FreeIsLeft
      <4> QED BY <4>1
    <3>4. new \in Suffixed(key)
      BY <3>3 DEF Suffixed
    <3> HIDE DEF new
    <3> QED BY <3>3, <3>4 DEF taken, Both, Live, RowsAt
  <2> HIDE DEF new, taken
  <2>6. /\ \A j \in RowIds : j # i => R[j] = s.R[j]
        /\ R[i].key = new
    <3>1. s.R[i] \in RowType
      BY <2>1, <2>4
    <3> QED BY <2>1, <2>4, <3>1 DEF RowType
  <2>7. \A j \in RowIds \ u : R[j] = R0[j]
    BY <2>1, <2>2, <2>6 DEF w
  <2> HIDE DEF R
  <2>8. Apart(R, into, RowIds \ (S \ u))
    <3> SUFFICES ASSUME NEW p \in RowIds \ (S \ u), NEW q \in RowIds \ (S \ u),
                        Both(R, into, p), Both(R, into, q), R[p].key = R[q].key, p # q
                 PROVE  FALSE
      BY DEF Apart
    <3>1. CASE p = i
      BY <2>5, <2>6, <3>1 DEF Both
    <3>2. CASE q = i
      BY <2>5, <2>6, <3>2 DEF Both
    <3>3. CASE p # i /\ q # i
      <4>1. p \in RowIds \ (S \ w) /\ q \in RowIds \ (S \ w)
        BY <3>3 DEF w
      <4>2. Both(s.R, into, p) /\ Both(s.R, into, q) /\ s.R[p].key = s.R[q].key
        BY <2>6, <3>3 DEF Both
      <4> QED BY <2>2, <4>1, <4>2 DEF Apart
    <3> QED BY <3>1, <3>2, <3>3
  <2> HIDE DEF X
  <2> QED BY <2>3, <2>7, <2>8
<1>6. \A u \in SUBSET S : iter[u] \in Y[u]
  <2> HIDE DEF Y, S
  <2> QED BY <1>2, <1>4, <1>5, FoldFollows
<1>7. Apart(iter[S].R, into, RowIds)
  <2>1. S \in SUBSET S /\ RowIds \ (S \ S) = RowIds
    OBVIOUS
  <2> HIDE DEF S, X
  <2> QED BY <1>6, <2>1
<1> QED BY <1>1, <1>7

LEMMA CollisionFree ==
  ASSUME NEW R, NEW E, NEW into, NEW key \in AnyKey, R \in [RowIds -> RowType],
         E \in [EdgeIds -> EdgeType]
  PROVE  \A i \in RowIds : Both(R, into, i) => R[i].key # CollisionName(R, E, into, key)
<1> DEFINE taken == {k \in Suffixed(key) : KeyTaken(R, E, into, k)}
<1>1. PICK n \in Suffixes : ~Named(R, E, Append(key, n))
  BY NameLeft
<1>2. Append(key, n) \notin taken
  BY <1>1 DEF Named, KeyTaken, Live, RowsAt, Archived, Touches
<1> HIDE DEF taken
<1>3. PICK m \in Suffixes : FreeKey(taken, key) = Append(key, m) /\ Append(key, m) \notin taken
  BY <1>2, FreeIsLeft
<1>4. CollisionName(R, E, into, key) = Append(key, m) /\ ~KeyTaken(R, E, into, Append(key, m))
  BY <1>3 DEF CollisionName, taken, Suffixed
<1> QED BY <1>4 DEF KeyTaken, Both, Live, RowsAt

\* Every edge that leaves takes the names its ends had before the fold, or gives way.
LEMMA ReplacedOnly ==
  ASSUME AdoptInv, NEW into \in Accounts, NEW s, s \in StoresFrom(rows, edges), NEW e \in EdgeIds
  PROVE  LET G == ResolveEdges(into, s).E IN
         IF e \in Leaving(s.E) \ Held(s.R, s.E, into)
           THEN G[e].st = "set" => G[e] = Replaced(s.R, s.E, into, s.E[e]) ELSE G[e] = s.E[e]
<1> DEFINE S == Leaving(s.E) \ Held(s.R, s.E, into)
           new(d) == Replaced(s.R, s.E, into, s.E[d])
           Y == [u \in SUBSET S |->
                  {F \in [EdgeIds -> EdgeType] :
                     \A d \in EdgeIds : IF d \in u THEN F[d].st = "set" => F[d] = new(d)
                                        ELSE F[d] = s.E[d]}]
<1>0. PICK iter : FoldsEdges(iter, s, into)
  BY EdgesFold
<1>1. /\ ResolveEdges(into, s) =
           [s EXCEPT !.R = RenameArchived(s.R, s.E, into, Collisions(s.R, s.E, into)), !.E = iter[S]]
      /\ iter[{}] = s.E
      /\ \A u \in SUBSET S :
           /\ iter[u] \in [EdgeIds -> EdgeType]
           /\ u # {} => iter[u] = Replace(s.R, s.E, into, iter[u \ {First(u)}], First(u))
  BY <1>0 DEF FoldsEdges
<1>2. s \in [R : [RowIds -> RowType], E : [EdgeIds -> EdgeType], names : SUBSET Renames]
  BY DEF StoresFrom
<1>3. S \subseteq EdgeIds /\ IsFiniteSet(S)
  <2>1. S \subseteq EdgeIds
    BY DEF Leaving
  <2> HIDE DEF S
  <2> QED BY <2>1, EdgesFinite
<1> HIDE DEF S, new
<1>4. iter[{}] \in Y[{}]
  BY <1>1, <1>2
<1>5. ASSUME NEW u \in SUBSET S, u # {}, iter[u \ {First(u)}] \in Y[u \ {First(u)}]
      PROVE  iter[u] \in Y[u]
  <2> DEFINE d == First(u)
             w == u \ {d}
             F == iter[w]
             G == iter[u]
  <2>1. d \in u /\ d \in EdgeIds /\ w \in SUBSET S /\ d \notin w
    BY <1>3, <1>5 DEF First
  <2>2. /\ F \in [EdgeIds -> EdgeType]
        /\ \A c \in EdgeIds : IF c \in w THEN F[c].st = "set" => F[c] = new(c) ELSE F[c] = s.E[c]
    BY <1>5, <2>1
  <2>3. F[d] = s.E[d]
    BY <2>1, <2>2
  <2>4. G = Replace(s.R, s.E, into, F, d) /\ G \in [EdgeIds -> EdgeType]
    BY <1>1, <1>5
  <2> HIDE DEF d, w, F, G
  <2>5. \/ G = F /\ new(d) = F[d]
        \/ G = [F EXCEPT ![d].st = "gone"]
        \/ G = [F EXCEPT ![d] = new(d)]
    BY <2>3, <2>4 DEF Replace, Rekeyed, new
  <2>6. G[d].st = "set" => G[d] = new(d)
    <3>1. F[d] \in EdgeType
      BY <2>1, <2>2
    <3>2. CASE G = [F EXCEPT ![d].st = "gone"]
      BY <2>1, <2>2, <3>1, <3>2 DEF EdgeType
    <3> QED BY <2>1, <2>2, <2>5, <3>2
  <2>7. \A c \in EdgeIds : c # d => G[c] = F[c]
    BY <2>1, <2>2, <2>5
  <2>8. \A c \in EdgeIds : IF c \in u THEN G[c].st = "set" => G[c] = new(c) ELSE G[c] = s.E[c]
    BY <2>1, <2>2, <2>6, <2>7 DEF w
  <2>9. G \in Y[u]
    BY <2>4, <2>8
  <2> QED BY <2>9 DEF G
<1>6. \A u \in SUBSET S : iter[u] \in Y[u]
  <2> HIDE DEF Y
  <2> QED BY <1>3, <1>4, <1>5, FoldFollows
<1>7. \A d \in EdgeIds : IF d \in S THEN iter[S][d].st = "set" => iter[S][d] = new(d)
                         ELSE iter[S][d] = s.E[d]
  <2>1. S \in SUBSET S
    OBVIOUS
  <2> QED BY <1>6, <2>1
<1>8. ResolveEdges(into, s).E = iter[S]
  BY <1>1, <1>2
<1> QED BY <1>7, <1>8 DEF S, new

\* One side of an edge that leaves ends at no live memory of the account but
\* its own.
LEMMA EndApart ==
  ASSUME AdoptInv, Unmoved, NEW into \in Accounts,
         NEW R, RowsFrom(R, rows), Apart(R, into, RowIds), NEW E, E \in [EdgeIds -> EdgeType],
         NEW key \in AnyKey, key # <<>>, NEW stamp \in 0..MaxRows, StampFits(key, stamp),
         SideOf(R, into, key, stamp).do # "hold",
         NEW i \in RowIds, R[i].st = "live", R[i].ten = into, IsEntity(R[i].key),
         R[i].key = PlacedAt(R, E, into, SideOf(R, into, key, stamp), key),
         stamp # 0 \/ audit[into].moved = "no"
  PROVE  i = stamp
<1> DEFINE side == SideOf(R, into, key, stamp)
           stamped == {j \in RowIds : j = stamp /\ R[j].st = "live" /\ R[j].ten \in {Unsigned, into}}
           prior == IF stamp = 0 THEN PriorRenames(into, key) ELSE {}
<1>1. into # Unsigned /\ Both(R, into, i) /\ R \in [RowIds -> RowType]
  BY AdoptBounds DEF Both, RowsFrom
<1>2. IsEntity(key)
  <2>1. SameHead(R[i].key, key)
    BY PlacedHead
  <2> QED BY <2>1 DEF SameHead, IsEntity
<1>3. prior = {}
  <2>1. CASE stamp # 0
    BY <2>1
  <2>2. CASE stamp = 0
    <3>1. audit[into].renames = {}
      BY <2>2 DEF Unmoved
    <3> QED BY <2>2, <3>1 DEF PriorRenames
  <2> QED BY <2>1, <2>2
<1>4. \/ side = Keep /\ Live(R, Unsigned, key)
      \/ side = [do |-> "rekey", key |-> R[stamp].key] /\ stamped # {}
      \/ side = Keep /\ ~Live(R, into, key)
      \/ side.do = "collide"
  <2>1. CASE Live(R, Unsigned, key)
    BY <2>1 DEF SideOf
  <2>2. CASE ~Live(R, Unsigned, key) /\ stamped # {}
    BY <2>2 DEF SideOf
  <2>3. CASE ~Live(R, Unsigned, key) /\ stamped = {}
    <3>1. Cardinality(prior) = 0
      BY <1>3, FS_EmptySet
    <3>2. ~(Cardinality(prior) > 1) /\ ~(Cardinality(prior) = 1)
      BY <3>1
    <3>3. side = IF ~ Live(R, into, key) THEN Keep
                 ELSE IF stamp = 0 /\ HasTwin(R, into, key) THEN [do |-> "hold", key |-> <<>>]
                 ELSE IF IsEntity(key) /\ (stamp # 0 \/ Archived(R, Unsigned, key) \/ audit[into].moved = "no")
                   THEN [do |-> "collide", key |-> key]
                 ELSE Keep
      BY <2>3, <3>2 DEF SideOf
    <3>4. side.do # "hold"
      OBVIOUS
    <3> HIDE DEF side
    <3>5. CASE ~Live(R, into, key)
      BY <3>3, <3>5
    <3>6. CASE Live(R, into, key) /\ stamp = 0 /\ HasTwin(R, into, key)
      BY <3>3, <3>4, <3>6
    <3>7. CASE Live(R, into, key) /\ ~(stamp = 0 /\ HasTwin(R, into, key))
      BY <1>2, <3>3, <3>7
    <3> QED BY <3>5, <3>6, <3>7
  <2> QED BY <2>1, <2>2, <2>3
<1> HIDE DEF side, prior
<1>5. CASE side = Keep /\ Live(R, Unsigned, key)
  <2>1. R[i].key = key
    BY <1>5 DEF PlacedAt, Keep, side
  <2>2. PICK j \in RowIds : R[j].st = "live" /\ R[j].ten = Unsigned /\ R[j].key = key
    BY <1>5 DEF Live, RowsAt
  <2>3. i = j
    BY <1>1, <2>1, <2>2 DEF Apart, Both
  <2> QED BY <1>1, <2>2, <2>3
<1>6. CASE side = [do |-> "rekey", key |-> R[stamp].key] /\ stamped # {}
  <2>1. R[i].key = R[stamp].key
    BY <1>6 DEF PlacedAt, side
  <2>2. stamp \in RowIds /\ Both(R, into, stamp)
    BY <1>6 DEF Both
  <2> QED BY <1>1, <2>1, <2>2 DEF Apart
<1>7. CASE side = Keep /\ ~Live(R, into, key)
  <2>1. R[i].key = key
    BY <1>7 DEF PlacedAt, Keep, side
  <2> QED BY <1>7, <2>1 DEF Live, RowsAt
<1>8. CASE side.do = "collide"
  <2>1. R[i].key = CollisionName(R, E, into, key)
    <3>1. side.do # "rekey"
      BY <1>8
    <3> QED BY <1>8, <3>1 DEF PlacedAt, side
  <2> QED BY <1>1, <2>1, CollisionFree
<1> QED BY <1>4, <1>5, <1>6, <1>7, <1>8

\* The store after a move, seen from its three parts.
LEMMA MoveParts ==
  ASSUME AdoptInv, KeysUnique, NEW into \in Accounts
  PROVE  \E one :
           /\ one \in StoresFrom(rows, edges) /\ Apart(one.R, into, RowIds)
           /\ \A i \in RowIds : one.R[i].st = "live" =>
                /\ Moved(into).R[i].key = one.R[i].key
                /\ Moved(into).R[i].ten = IF one.R[i].ten = Unsigned THEN into ELSE one.R[i].ten
           /\ \A e \in EdgeIds :
                LET new == Moved(into).E[e] IN
                one.E[e].ten = Unsigned /\ new.st = "set" /\ new.ten # Unsigned =>
                  /\ e \in Leaving(one.E) \ Held(one.R, one.E, into)
                  /\ new.from = Replaced(one.R, one.E, into, one.E[e]).from
                  /\ new.to = Replaced(one.R, one.E, into, one.E[e]).to
                  /\ new.fromId = one.E[e].fromId /\ new.toId = one.E[e].toId
<1> DEFINE one == ResolveConflicts(into, [R |-> rows, E |-> edges, names |-> {}])
           held == Held(one.R, one.E, into)
           two == ResolveEdges(into, one)
           three == DropDuplicates(two.E, into, held)
           R == [i \in RowIds |-> IF two.R[i].ten = Unsigned /\ two.R[i].st \in {"live", "archived"}
                                    THEN [two.R[i] EXCEPT !.ten = into] ELSE two.R[i]]
           E == [e \in EdgeIds |-> IF Set(three, e) /\ three[e].ten = Unsigned /\ e \notin held
                                     THEN [three[e] EXCEPT !.ten = into] ELSE three[e]]
<1>1. Moved(into).R = R /\ Moved(into).E = E
  <2>1. Moved(into) = [R |-> R, E |-> E, names |-> two.names]
    BY DEF Moved
  <2> HIDE DEF R, E
  <2> QED BY <2>1
<1>2. rows \in [RowIds -> RowType] /\ \A i \in RowIds : rows[i].st # "none" => rows[i].key # <<>>
  BY DEF AdoptInv, RowsTyped
<1>3. EdgesFrom(edges, edges)
  BY EdgesAsTheyAre
<1>4. one \in StoresFrom(rows, edges) /\ Apart(one.R, into, RowIds)
  <2>1. one \in StoresFrom(rows, edges)
    BY <1>2, <1>3, ConflictsKeep
  <2>2. OneEach(rows)
    BY DEF KeysUnique
  <2>3. Apart(one.R, into, RowIds)
    BY <1>2, <1>3, <2>2, ConflictsApart
  <2> QED BY <2>1, <2>3
<1> HIDE DEF one
<1>5. one.R \in [RowIds -> RowType] /\ one.E \in [EdgeIds -> EdgeType]
  BY <1>4 DEF StoresFrom
<1>6. two.R = RenameArchived(one.R, one.E, into, Collisions(one.R, one.E, into))
      /\ two.E \in [EdgeIds -> EdgeType] /\ EdgesFrom(two.E, edges)
  <2>1. one \in [R : [RowIds -> RowType], E : [EdgeIds -> EdgeType], names : SUBSET Renames]
    BY <1>4 DEF StoresFrom
  <2>2. two \in StoresFrom(rows, edges)
    BY <1>4, EdgesResolved
  <2>3. PICK iter : FoldsEdges(iter, one, into)
    BY <1>4, EdgesFold
  <2>4. two.R = RenameArchived(one.R, one.E, into, Collisions(one.R, one.E, into))
    BY <2>1, <2>3 DEF FoldsEdges
  <2> QED BY <2>2, <2>4 DEF StoresFrom
<1>7. ASSUME NEW i \in RowIds, one.R[i].st = "live"
      PROVE  R[i].key = one.R[i].key /\ R[i].ten = IF one.R[i].ten = Unsigned THEN into ELSE one.R[i].ten
  <2>1. two.R[i] = one.R[i] /\ one.R[i] \in RowType
    BY <1>5, <1>6, <1>7 DEF RenameArchived
  <2> HIDE DEF two
  <2> QED BY <1>7, <2>1 DEF RowType
<1>8. ASSUME NEW e \in EdgeIds, one.E[e].ten = Unsigned, E[e].st = "set", E[e].ten # Unsigned
      PROVE  /\ e \in Leaving(one.E) \ held
             /\ E[e].from = Replaced(one.R, one.E, into, one.E[e]).from
             /\ E[e].to = Replaced(one.R, one.E, into, one.E[e]).to
             /\ E[e].fromId = one.E[e].fromId /\ E[e].toId = one.E[e].toId
  <2> DEFINE new == Replaced(one.R, one.E, into, one.E[e])
  <2>1. /\ two.E[e] \in EdgeType /\ two.E[e].ten = one.E[e].ten
        /\ two.E[e].fromId = one.E[e].fromId /\ two.E[e].toId = one.E[e].toId
    <3>1. EdgesFrom(one.E, edges)
      BY <1>4 DEF StoresFrom
    <3> HIDE DEF two
    <3> QED BY <1>6, <3>1 DEF EdgesFrom, FactsFrom
  <2>2. IF e \in Leaving(one.E) \ held
          THEN two.E[e].st = "set" => two.E[e] = new ELSE two.E[e] = one.E[e]
    BY <1>4, ReplacedOnly
  <2> HIDE DEF two, held, new
  <2>3. three[e] = two.E[e] \/ three[e] = [two.E[e] EXCEPT !.st = "gone"]
    BY DEF DropDuplicates
  <2> HIDE DEF three
  <2>4. E[e] = three[e] \/ (E[e] = [three[e] EXCEPT !.ten = into] /\ e \notin held)
    OBVIOUS
  <2> HIDE DEF E
  <2>5. three[e] = two.E[e] /\ two.E[e].st = "set"
    <3>1. CASE three[e] = [two.E[e] EXCEPT !.st = "gone"]
      <4>1. three[e] \in EdgeType /\ three[e].st = "gone"
        BY <2>1, <3>1 DEF EdgeType
      <4> QED BY <1>8, <2>4, <4>1 DEF EdgeType
    <3>2. CASE three[e] = two.E[e]
      BY <1>8, <2>1, <2>4, <3>2 DEF EdgeType
    <3> QED BY <2>3, <3>1, <3>2
  <2>6. E[e] = [two.E[e] EXCEPT !.ten = into] /\ e \notin held
    BY <1>8, <2>1, <2>4, <2>5
  <2>7. e \in Leaving(one.E) \ held
    <3>1. CASE two.E[e] = one.E[e]
      BY <1>8, <2>5, <2>6, <3>1 DEF Leaving, Set
    <3> QED BY <2>2, <3>1
  <2>8. two.E[e] = new
    BY <2>2, <2>5, <2>7
  <2>9. /\ E[e].from = two.E[e].from /\ E[e].to = two.E[e].to
        /\ E[e].fromId = two.E[e].fromId /\ E[e].toId = two.E[e].toId
    BY <2>1, <2>6 DEF EdgeType
  <2> QED BY <2>1, <2>7, <2>8, <2>9 DEF new
<1> HIDE DEF R, E
<1> QED BY <1>1, <1>4, <1>7, <1>8 DEF held

LEMMA EndsStart == AdoptInit => EndsInv
<1> SUFFICES ASSUME AdoptInit PROVE EndsInv
  OBVIOUS
<1>1. KeysUnique
  BY DEF AdoptInit, KeysUnique, OneEach, NoRow
<1>2. Unmoved
  BY DEF AdoptInit, Unmoved, NoAudit
<1> QED BY <1>1, <1>2, AdoptStart DEF EndsInv

\* A move gives the account no second memory of a name.
LEMMA MoveUnique ==
  ASSUME AdoptInv, KeysUnique, NEW into \in Accounts, rows' = Moved(into).R
  PROVE  KeysUnique'
<1>1. PICK one :
        /\ one \in StoresFrom(rows, edges) /\ Apart(one.R, into, RowIds)
        /\ \A i \in RowIds : one.R[i].st = "live" =>
             /\ Moved(into).R[i].key = one.R[i].key
             /\ Moved(into).R[i].ten = IF one.R[i].ten = Unsigned THEN into ELSE one.R[i].ten
  BY MoveParts
<1>2. RowsFrom(one.R, rows)
  BY <1>1 DEF StoresFrom
<1>3. \A i \in RowIds : rows'[i].st = one.R[i].st
  BY <1>2, MoveKeeps DEF MoveOutcome, RowsFrom
<1>4. ASSUME NEW i \in RowIds, rows'[i].st = "live"
      PROVE  /\ one.R[i].st = "live" /\ rows'[i].key = one.R[i].key
             /\ rows'[i].ten = IF one.R[i].ten = Unsigned THEN into ELSE one.R[i].ten
             /\ one.R[i].ten # Unsigned => one.R[i] = rows[i]
  BY <1>1, <1>2, <1>3, <1>4 DEF RowsFrom
<1> SUFFICES ASSUME NEW i \in RowIds, NEW j \in RowIds, rows'[i].st = "live", rows'[j].st = "live",
                    rows'[i].ten = rows'[j].ten, rows'[i].key = rows'[j].key
             PROVE  i = j
  BY DEF KeysUnique, OneEach
<1>5. CASE one.R[i].ten \in {Unsigned, into} /\ one.R[j].ten \in {Unsigned, into}
  <2>1. Both(one.R, into, i) /\ Both(one.R, into, j) /\ one.R[i].key = one.R[j].key
    BY <1>4, <1>5 DEF Both
  <2> QED BY <1>1, <2>1 DEF Apart
<1>6. CASE ~(one.R[i].ten \in {Unsigned, into} /\ one.R[j].ten \in {Unsigned, into})
  <2>1. one.R[i].ten # Unsigned /\ one.R[j].ten # Unsigned
    BY <1>4, <1>6
  <2>2. one.R[i] = rows[i] /\ one.R[j] = rows[j]
    BY <1>4, <2>1
  <2> QED BY <1>4, <2>1, <2>2 DEF KeysUnique, OneEach
<1> QED BY <1>5, <1>6

LEMMA EndsStep == EndsInv /\ [AdoptNext]_adoptVars => EndsInv'
<1> SUFFICES ASSUME EndsInv, [AdoptNext]_adoptVars PROVE EndsInv'
  OBVIOUS
<1> USE DEF EndsInv
<1>1. AdoptInv'
  BY AdoptStep
<1>2. rows \in [RowIds -> RowType] /\ audit \in [Accounts -> [seen : {"no", "yes"}, moved : {"no", "yes"},
                                                           autos : Nat, renames : SUBSET Renames]]
  BY DEF AdoptInv, RowsTyped, MoversTyped
<1>3. CASE UNCHANGED adoptVars
  BY <1>1, <1>3 DEF adoptVars, KeysUnique, OneEach, Unmoved
<1>4. ASSUME NEW ten \in Tenants, NEW n \in EntityNames \union DocNames, Write(ten, <<n>>)
      PROVE  KeysUnique' /\ Unmoved'
  <2> DEFINE new == [ten |-> ten, key |-> <<n>>, st |-> "live"]
  <2>1. PICK i \in RowIds : rows' = [rows EXCEPT ![i] = new] /\ ~Live(rows, ten, <<n>>) /\ UNCHANGED audit
    BY <1>4 DEF Write
  <2>2. new.ten = ten /\ new.key = <<n>>
    OBVIOUS
  <2> HIDE DEF new
  <2>3. rows'[i] = new /\ \A j \in RowIds : j # i => rows'[j] = rows[j]
    BY <1>2, <2>1
  <2>4. \A j \in RowIds : ~(rows[j].st = "live" /\ rows[j].ten = new.ten /\ rows[j].key = new.key)
    BY <2>1, <2>2 DEF Live, RowsAt
  <2>5. KeysUnique'
    BY <2>3, <2>4 DEF KeysUnique, OneEach
  <2> QED BY <2>1, <2>5 DEF Unmoved
<1>5. ASSUME NEW i \in RowIds, Archive(i) \/ Delete(i)
      PROVE  KeysUnique' /\ Unmoved'
  <2>1. PICK to \in {"archived", "gone"} : rows' = [rows EXCEPT ![i].st = to] /\ UNCHANGED audit
    BY <1>5 DEF Archive, Delete
  <2>2. rows[i] \in RowType
    BY <1>2
  <2>3. rows'[i].st = to /\ \A j \in RowIds : j # i => rows'[j] = rows[j]
    BY <1>2, <2>1, <2>2 DEF RowType
  <2>4. KeysUnique'
    BY <2>3 DEF KeysUnique, OneEach
  <2> QED BY <2>1, <2>4 DEF Unmoved
<1>6. ASSUME NEW ten \in Tenants, NEW src \in Keys, NEW dst \in Keys, NEW stamps \in BOOLEAN,
             Link(ten, src, dst, stamps)
      PROVE  KeysUnique' /\ Unmoved'
  BY <1>6 DEF Link, KeysUnique, OneEach, Unmoved
<1>7. ASSUME NEW m \in Movers, NEW a \in Accounts, NEW confirm \in {"no", "yes"}, Look(m, a, confirm)
      PROVE  KeysUnique' /\ Unmoved'
  BY <1>7 DEF Look, KeysUnique, OneEach, Unmoved
<1>8. ASSUME NEW m \in Movers, Move(m) \/ RollsBack(m)
      PROVE  KeysUnique' /\ Unmoved'
  <2> DEFINE acct == mover[m].into
             new == Moved(acct)
  <2>1. acct \in Accounts
    BY <1>8 DEF Move, RollsBack, Leaves, AdoptInv, MoversTyped
  <2>2. /\ UNCHANGED rows \/ rows' = new.R
        /\ UNCHANGED audit \/ Record(m, acct, {}, FALSE) \/ Record(m, acct, new.names, TRUE)
    BY <1>8 DEF Move, RollsBack
  <2>3. KeysUnique'
    <3>1. CASE UNCHANGED rows
      BY <3>1 DEF KeysUnique, OneEach
    <3>2. CASE rows' = new.R
      BY <2>1, <3>2, MoveUnique
    <3> QED BY <2>2, <3>1, <3>2
  <2> HIDE DEF new
  <2>4. ASSUME NEW names, NEW moved \in BOOLEAN, moved \/ names = {}, Record(m, acct, names, moved)
        PROVE  Unmoved'
    <3> DEFINE old == audit[acct]
               r == [seen |-> "yes", moved |-> IF moved THEN "yes" ELSE old.moved,
                     autos |-> IF IsAuto(m) THEN old.autos + 1 ELSE old.autos,
                     renames |-> old.renames \union names]
    <3>1. audit' = [audit EXCEPT ![acct] = r]
      BY <2>4 DEF Record
    <3>2. audit'[acct] = r /\ \A b \in Accounts : b # acct => audit'[b] = audit[b]
      BY <1>2, <2>1, <3>1
    <3>3. r.moved = "no" => r.renames = {}
      BY <2>1, <2>4 DEF Unmoved
    <3> HIDE DEF r
    <3> QED BY <3>2, <3>3 DEF Unmoved
  <2>5. Unmoved'
    <3>1. CASE UNCHANGED audit
      BY <3>1 DEF Unmoved
    <3>2. CASE Record(m, acct, {}, FALSE)
      BY <2>4, <3>2
    <3>3. CASE Record(m, acct, new.names, TRUE)
      BY <2>4, <3>3
    <3> QED BY <2>2, <3>1, <3>2, <3>3
  <2> QED BY <2>3, <2>5
<1> QED BY <1>1, <1>3, <1>4, <1>5, <1>6, <1>7, <1>8 DEF AdoptNext

\* EdgesKeepTheirEnds, of one step.
EndsKept ==
  \A m \in Movers, e \in EdgeIds :
       mover[m].at = "move" /\ mover'[m].at = "idle" /\ Set(edges, e) /\ edges[e].ten = Unsigned
         /\ Set(edges', e) /\ edges'[e].ten # Unsigned =>
           LET into == mover[m].into  fresh == audit[into].moved = "no" IN
           /\ NoForeignEnd(edges'[e].from, edges'[e].fromId, fresh, into)
           /\ NoForeignEnd(edges'[e].to, edges'[e].toId, fresh, into)

LEMMA MoveKeepsEnds == EndsInv /\ [AdoptNext]_adoptVars => EndsKept
<1> SUFFICES ASSUME EndsInv, [AdoptNext]_adoptVars, NEW m \in Movers, NEW e \in EdgeIds,
                    mover[m].at = "move", mover'[m].at = "idle", Set(edges, e), edges[e].ten = Unsigned,
                    Set(edges', e), edges'[e].ten # Unsigned
             PROVE  LET into == mover[m].into  fresh == audit[into].moved = "no" IN
                    /\ NoForeignEnd(edges'[e].from, edges'[e].fromId, fresh, into)
                    /\ NoForeignEnd(edges'[e].to, edges'[e].toId, fresh, into)
  BY DEF EndsKept
<1> DEFINE into == mover[m].into
           new == Moved(into)
<1>1. AdoptInv /\ KeysUnique /\ Unmoved /\ into \in Accounts
  BY DEF EndsInv, AdoptInv, MoversTyped
<1>2. PICK k \in Movers : Move(k) \/ RollsBack(k)
  BY <1>1, OnlyMovesEnd
<1>3. k = m
  <2>1. mover' = [mover EXCEPT ![k] = Still]
    BY <1>2 DEF Move, RollsBack, Leaves
  <2>2. mover \in [Movers -> [at : {"idle", "move"}, into : Tenants, confirm : {"no", "yes"}]]
    BY <1>1 DEF AdoptInv, MoversTyped
  <2> QED BY <2>1, <2>2
<1>4. rows' = new.R /\ edges' = new.E
  BY <1>2, <1>3 DEF Move, RollsBack
<1>5. MoveOutcome(new)
  BY <1>1, MoveKeeps
<1>6. PICK one :
        /\ one \in StoresFrom(rows, edges) /\ Apart(one.R, into, RowIds)
        /\ \A d \in EdgeIds :
             LET edge == Moved(into).E[d] IN
             one.E[d].ten = Unsigned /\ edge.st = "set" /\ edge.ten # Unsigned =>
               /\ d \in Leaving(one.E) \ Held(one.R, one.E, into)
               /\ edge.from = Replaced(one.R, one.E, into, one.E[d]).from
               /\ edge.to = Replaced(one.R, one.E, into, one.E[d]).to
               /\ edge.fromId = one.E[d].fromId /\ edge.toId = one.E[d].toId
  BY <1>1, MoveParts
<1> DEFINE R == one.R
           E == one.E
           edge == E[e]
<1>7. RowsFrom(R, rows) /\ EdgesFrom(E, edges) /\ E \in [EdgeIds -> EdgeType]
  BY <1>6 DEF StoresFrom
<1>8. /\ e \in Leaving(E) \ Held(R, E, into)
      /\ edges'[e].from = Replaced(R, E, into, edge).from /\ edges'[e].to = Replaced(R, E, into, edge).to
      /\ edges'[e].fromId = edge.fromId /\ edges'[e].toId = edge.toId
  <2>1. E[e].ten = Unsigned
    BY <1>7 DEF EdgesFrom
  <2> HIDE DEF new
  <2> QED BY <1>4, <1>6, <2>1 DEF Set, new
<1>9. /\ edges'[e].from = PlacedAt(R, E, into, SideOf(R, into, edge.from, edge.fromId), edge.from)
      /\ edges'[e].to = PlacedAt(R, E, into, SideOf(R, into, edge.to, edge.toId), edge.to)
      /\ SideOf(R, into, edge.from, edge.fromId).do # "hold"
      /\ SideOf(R, into, edge.to, edge.toId).do # "hold"
  <2>1. edge \in EdgeType
    BY <1>7
  <2>2. ~IsHeld(R, into, edge)
    BY <1>8 DEF Held
  <2>3. SideOf(R, into, edge.from, edge.fromId).do # "hold" /\ SideOf(R, into, edge.to, edge.toId).do # "hold"
    BY <2>2 DEF IsHeld, FromSide, ToSide
  <2> HIDE DEF edge
  <2>4. /\ Replaced(R, E, into, edge).from = PlacedAt(R, E, into, SideOf(R, into, edge.from, edge.fromId), edge.from)
        /\ Replaced(R, E, into, edge).to = PlacedAt(R, E, into, SideOf(R, into, edge.to, edge.toId), edge.to)
    BY <2>1 DEF Replaced, FromSide, ToSide, EdgeType
  <2> QED BY <1>8, <2>3, <2>4
<1>10. /\ edge.from \in AnyKey /\ edge.to \in AnyKey /\ edge.from # <<>> /\ edge.to # <<>>
       /\ edge.fromId \in 0..MaxRows /\ edge.toId \in 0..MaxRows
       /\ StampFits(edge.from, edge.fromId) /\ StampFits(edge.to, edge.toId)
  BY <1>1, <1>7, StampsStay DEF Stamped
<1> HIDE DEF edge
<1>11. ASSUME NEW i \in RowIds, rows'[i].st = "live", rows'[i].ten = into, rows[i].ten # Unsigned
       PROVE  R[i] = rows'[i]
  <2>1. rows[i].st = "live"
    BY <1>4, <1>5, <1>11 DEF MoveOutcome
  <2>2. rows'[i] = rows[i]
    BY <1>4, <1>5, <1>11, <2>1 DEF MoveOutcome
  <2>3. R[i] = rows[i]
    BY <1>7, <1>11, <2>1 DEF RowsFrom
  <2> QED BY <2>2, <2>3
<1> HIDE DEF R, E, new, into
<1>12. ASSUME NEW key \in AnyKey, key # <<>>, NEW stamp \in 0..MaxRows, StampFits(key, stamp),
              SideOf(R, into, key, stamp).do # "hold"
       PROVE  NoForeignEnd(PlacedAt(R, E, into, SideOf(R, into, key, stamp), key), stamp,
                           audit[into].moved = "no", into)
  <2> DEFINE there == PlacedAt(R, E, into, SideOf(R, into, key, stamp), key)
  <2> SUFFICES ASSUME stamp # 0 \/ audit[into].moved = "no", NEW i \in RowIds,
                      rows'[i].st = "live", rows'[i].ten = into, rows'[i].key = there, IsEntity(there),
                      rows[i].ten # Unsigned
               PROVE  i = stamp
    BY DEF NoForeignEnd
  <2>1. R[i].st = "live" /\ R[i].ten = into /\ R[i].key = there
    BY <1>11
  <2>2. Apart(R, into, RowIds)
    BY <1>6 DEF R, into
  <2> QED BY <1>1, <1>7, <1>12, <2>1, <2>2, EndApart
<1>13. NoForeignEnd(edges'[e].from, edges'[e].fromId, audit[into].moved = "no", into)
  BY <1>8, <1>9, <1>10, <1>12
<1>14. NoForeignEnd(edges'[e].to, edges'[e].toId, audit[into].moved = "no", into)
  BY <1>8, <1>9, <1>10, <1>12
<1> QED BY <1>13, <1>14 DEF into

\* However much was archived, deleted, renamed or linked before it and whoever
\* races, a move into an account attaches no side of an edge to a memory the
\* account already had under the name, but for the entity the edge is stamped
\* with (_resolve_edges; stamped edges, and all of an account's first move).
THEOREM MovesKeepEnds == AdoptSpec => EdgesKeepTheirEnds
<1>1. AdoptSpec => []EndsInv
  BY EndsStart, EndsStep, PTL DEF AdoptSpec
<1>2. EndsInv /\ [AdoptNext]_adoptVars => [EndsKept]_adoptVars
  BY MoveKeepsEnds
<1>3. [][EndsKept]_adoptVars <=> EdgesKeepTheirEnds
  BY DEF EdgesKeepTheirEnds, EndsKept
<1> QED BY <1>1, <1>2, <1>3, PTL DEF AdoptSpec
=============================================================================
