------------------------------- MODULE Daemon -------------------------------
(***************************************************************************)
(* The server loop of vpl-jail-server.h: accept a connection, fork a       *)
(* process to serve it, harvest the processes that ended, count their exit *)
(* status under the IP they served, reject the IPs that fail too often,    *)
(* and fork the janitor every five minutes.                                *)
(***************************************************************************)
EXTENDS Naturals, FiniteSets

CONSTANTS
  IPs,          \* client addresses
  LocalIP,      \* "127.0.0.1", under which the janitor is recorded
  NoIP,         \* "", the IP of a child that children does not know
  Pids,         \* process ids, reused once harvested
  ForkError,    \* -1
  Threshold,    \* 20 * FAIL2BAN
  NSockets,     \* listening sockets
  MaxForks,     \* bound: processes forked or adopted, requests in a log
  CanForkFail,  \* fork() may fail
  Adopts        \* orphans of the children become children of the daemon

ASSUME DaemonAssumption ==
  /\ LocalIP \notin IPs
  /\ NoIP \notin IPs \cup {LocalIP}
  /\ ForkError \notin Pids
  /\ Threshold \in Nat
  /\ NSockets \in Nat \ {0}
  /\ MaxForks \in Nat
  /\ CanForkFail \in BOOLEAN
  /\ Adopts \in BOOLEAN

AllIPs == IPs \cup {LocalIP, NoIP}

VARIABLES
  pc,          \* where the loop is
  ready,       \* sockets of the last poll() still to be accepted
  finish,      \* finishRequested
  children,    \* the map<pid_t, Child>: a function on the recorded pids
  logs,        \* the map<string, Log>; an absent entry is a zero one
  clearDue,    \* nextClear has passed
  janitorDue,  \* nextCheckTime has passed
  proc,        \* the processes: free pid, running, or how they exited
  serves,      \* the IP each process really serves
  forks,       \* history: processes forked or adopted so far
  tally        \* history: how the requests of each IP really ended

vars == <<pc, ready, finish, children, logs, clearDue, janitorDue, proc, serves,
          forks, tally>>
kernel == <<proc, serves, forks>>

ExitStatus == {"success", "neutral", "error"}
Log == [requests : Nat, errors : Nat]
NoLog == [requests |-> 0, errors |-> 0]
Tally == [ok : Nat, failed : Nat]
NoTally == [ok |-> 0, failed |-> 0]

TypeOK ==
  /\ pc \in {"poll", "accept", "harvest", "periodic", "end"}
  /\ ready \in 0 .. NSockets
  /\ finish \in BOOLEAN
  /\ DOMAIN children \subseteq Pids \cup {ForkError}
  /\ \A p \in DOMAIN children : children[p] \in AllIPs
  /\ logs \in [AllIPs -> Log]
  /\ clearDue \in BOOLEAN
  /\ janitorDue \in BOOLEAN
  /\ proc \in [Pids -> {"free", "running"} \cup ExitStatus]
  /\ serves \in [Pids -> AllIPs]
  /\ forks \in Nat
  /\ tally \in [AllIPs -> Tally]

Init ==
  /\ pc = "poll"
  /\ ready = 0
  /\ finish = FALSE
  /\ children = [p \in {} |-> NoIP]
  /\ logs = [ip \in AllIPs |-> NoLog]
  /\ clearDue = TRUE
  /\ janitorDue = TRUE
  /\ proc = [p \in Pids |-> "free"]
  /\ serves = [p \in Pids |-> NoIP]
  /\ forks = 0
  /\ tally = [ip \in AllIPs |-> NoTally]

Free == {p \in Pids : proc[p] = "free"}
Zombie(p) == proc[p] \in ExitStatus

-----------------------------------------------------------------------------
(* Banning                                                                 *)

(* log.errors > 20 * fail2ban && log.errors > log.requests / 2             *)
TooManyErrors(log) == log.errors > Threshold /\ log.errors > log.requests \div 2

(* isBanned(): cleanOld() first; FAIL2BAN = 0 bans nobody.                 *)
CleanOld == IF clearDue THEN [ip \in AllIPs |-> NoLog] ELSE logs
CleanTally == IF clearDue THEN [ip \in AllIPs |-> NoTally] ELSE tally
IsBanned(ip) == Threshold # 0 /\ TooManyErrors(CleanOld[ip])

(* Variant: a neutral exit status counts as an error.                      *)
CountRequestNeutral(ls, ip, es) ==
  [ls EXCEPT ![ip] = [requests |-> @.requests + 1,
                      errors |-> IF es = "success" THEN @.errors ELSE @.errors + 1]]

(* countRequest()                                                          *)
CountRequest(ls, ip, es) ==
  IF es = "neutral" THEN ls
  ELSE [ls EXCEPT ![ip] =
         [requests |-> @.requests + 1,
          errors |-> IF es = "success" THEN @.errors ELSE @.errors + 1]]

-----------------------------------------------------------------------------
(* fork(), with the children map updated as launch() and periodicTasks()   *)
(* do, whatever fork() returned.                                           *)
Record(pid, ip) ==
  children' = [p \in DOMAIN children \cup {pid} |-> IF p = pid THEN ip ELSE children[p]]

Fork(ip) ==
  \/ \E p \in Free :
       /\ proc' = [proc EXCEPT ![p] = "running"]
       /\ serves' = [serves EXCEPT ![p] = ip]
       /\ forks' = forks + 1
       /\ Record(p, ip)
  \/ CanForkFail /\ Record(ForkError, ip) /\ UNCHANGED kernel

(* accept(): poll() reports which sockets have a connection waiting.       *)
Poll ==
  /\ pc = "poll"
  /\ IF finish
     THEN pc' = "end" /\ UNCHANGED ready
     ELSE \E n \in 0 .. NSockets :
            /\ n < Cardinality(Free) \/ n = 0
            /\ n = 0 \/ forks + n <= MaxForks
            /\ ready' = n
            /\ pc' = "accept"
  /\ UNCHANGED <<finish, children, logs, clearDue, janitorDue, kernel, tally>>

(* Variant: a rejected request counts as a request and not as a failed one.*)
LaunchRejectedUncharged(ip) ==
  /\ pc = "accept"
  /\ ready > 0
  /\ IsBanned(ip)
  /\ CleanOld[ip].requests < MaxForks
  /\ logs' = CountRequest(CleanOld, ip, "success")
  /\ tally' = [CleanTally EXCEPT ![ip].ok = @ + 1]
  /\ clearDue' = FALSE
  /\ ready' = ready - 1
  /\ UNCHANGED <<pc, finish, children, janitorDue, kernel>>

(* launch() for a connection from ip.                                      *)
LaunchRejected(ip) ==
  /\ pc = "accept"
  /\ ready > 0
  /\ IsBanned(ip)
  /\ CleanOld[ip].requests < MaxForks
  /\ logs' = CountRequest(CleanOld, ip, "error")
  /\ tally' = [CleanTally EXCEPT ![ip].failed = @ + 1]
  /\ clearDue' = FALSE
  /\ ready' = ready - 1
  /\ UNCHANGED <<pc, finish, children, janitorDue, kernel>>

Launch(ip) ==
  /\ pc = "accept"
  /\ ready > 0
  /\ ~IsBanned(ip)
  /\ Fork(ip)
  /\ logs' = CleanOld
  /\ tally' = CleanTally
  /\ clearDue' = FALSE
  /\ ready' = ready - 1
  /\ UNCHANGED <<pc, finish, janitorDue>>

(* ::accept() fails: the client has gone.                                  *)
LaunchFails ==
  /\ pc = "accept"
  /\ ready > 0
  /\ ready' = ready - 1
  /\ UNCHANGED <<pc, finish, children, logs, clearDue, janitorDue, kernel, tally>>

AcceptEnds ==
  /\ pc = "accept"
  /\ ready = 0
  /\ pc' = "harvest"
  /\ UNCHANGED <<ready, finish, children, logs, clearDue, janitorDue, kernel, tally>>

-----------------------------------------------------------------------------
(* harvest(), one turn: waitpid(-1, WNOHANG) and processChildEnd().        *)
ChildIP(p) == IF p \in DOMAIN children THEN children[p] ELSE NoIP

(* Variant: the child is not erased from children.                         *)
HarvestOneKeepsChild(p) ==
  /\ pc = "harvest"
  /\ DOMAIN children # {}
  /\ Zombie(p)
  /\ logs' = CountRequest(logs, ChildIP(p), proc[p])
  /\ proc' = [proc EXCEPT ![p] = "free"]
  /\ serves' = [serves EXCEPT ![p] = NoIP]
  /\ UNCHANGED <<pc, ready, finish, children, clearDue, janitorDue, forks, tally>>

HarvestOne(p) ==
  /\ pc = "harvest"
  /\ DOMAIN children # {}
  /\ Zombie(p)
  /\ logs' = CountRequest(logs, ChildIP(p), proc[p])
  /\ children' = [q \in DOMAIN children \ {p} |-> children[q]]
  /\ proc' = [proc EXCEPT ![p] = "free"]
  /\ serves' = [serves EXCEPT ![p] = NoIP]
  /\ tally' = [tally EXCEPT ![serves[p]] =
       [ok |-> IF proc[p] = "success" THEN @.ok + 1 ELSE @.ok,
        failed |-> IF proc[p] = "error" THEN @.failed + 1 ELSE @.failed]]
  /\ UNCHANGED <<pc, ready, finish, clearDue, janitorDue, forks>>

(* Variant: one turn at most.                                              *)
HarvestEndsEarly ==
  /\ pc = "harvest"
  /\ pc' = "periodic"
  /\ UNCHANGED <<ready, finish, children, logs, clearDue, janitorDue, kernel, tally>>

HarvestEnds ==
  /\ pc = "harvest"
  /\ DOMAIN children = {} \/ \A p \in Pids : ~Zombie(p)
  /\ pc' = "periodic"
  /\ UNCHANGED <<ready, finish, children, logs, clearDue, janitorDue, kernel, tally>>

(* periodicTasks()                                                         *)
PeriodicTasks ==
  /\ pc = "periodic"
  /\ pc' = "poll"
  /\ IF janitorDue THEN Fork(LocalIP) ELSE UNCHANGED <<children, kernel>>
  /\ janitorDue' = FALSE
  /\ UNCHANGED <<ready, finish, logs, clearDue, tally>>

-----------------------------------------------------------------------------
(* The rest of the world                                                   *)

(* A child exits or is killed by a signal (then the status is              *)
(* internalError); the janitor itself exits with success, never neutral.   *)
ChildExits(p) ==
  /\ proc[p] = "running"
  /\ \E es \in ExitStatus :
       /\ serves[p] = LocalIP => es # "neutral"
       /\ proc' = [proc EXCEPT ![p] = es]
  /\ UNCHANGED <<pc, ready, finish, children, logs, clearDue, janitorDue, serves,
                 forks, tally>>

(* The parent of a running grandchild ends: the grandchild becomes a child *)
(* of the daemon.                                                          *)
Adopt(p) ==
  /\ Adopts
  /\ forks < MaxForks
  /\ Cardinality(Free) > NSockets + 1
  /\ p \in Free
  /\ proc' = [proc EXCEPT ![p] = "running"]
  /\ forks' = forks + 1
  /\ UNCHANGED <<pc, ready, finish, children, logs, clearDue, janitorDue, serves,
                 tally>>

(* Five minutes pass.  The times and the flag of the signal are looked at  *)
(* in one place each, so it is enough that they change there.              *)
ClearTime ==
  /\ pc = "accept"
  /\ ~clearDue
  /\ clearDue' = TRUE
  /\ UNCHANGED <<pc, ready, finish, children, logs, janitorDue, kernel, tally>>

JanitorTime ==
  /\ pc = "periodic"
  /\ ~janitorDue
  /\ forks < MaxForks
  /\ janitorDue' = TRUE
  /\ UNCHANGED <<pc, ready, finish, children, logs, clearDue, kernel, tally>>

SIGTERMHandler ==
  /\ pc = "poll"
  /\ ~finish
  /\ finish' = TRUE
  /\ UNCHANGED <<pc, ready, children, logs, clearDue, janitorDue, kernel, tally>>

-----------------------------------------------------------------------------
Accept == (\E ip \in IPs : LaunchRejected(ip) \/ Launch(ip)) \/ LaunchFails \/ AcceptEnds
Harvest == (\E p \in Pids : HarvestOne(p)) \/ HarvestEnds
Loop == Poll \/ Accept \/ Harvest \/ PeriodicTasks

Next ==
  \/ Loop
  \/ \E p \in Pids : ChildExits(p) \/ Adopt(p)
  \/ ClearTime \/ JanitorTime \/ SIGTERMHandler

Spec == Init /\ [][Next]_vars

(* The loop never blocks for longer than JAIL_ACCEPT_WAIT.                 *)
FairSpec == Spec /\ WF_vars(Loop)

-----------------------------------------------------------------------------
(* Properties                                                              *)

(* The map children records every process the daemon forked, under the IP  *)
(* it serves, until it is harvested: no exit status is charged to another  *)
(* IP, even when a pid is used again.  (An adopted process serves nobody.) *)
ChargedToTheRightIP ==
  \A p \in Pids : proc[p] # "free" => ChildIP(p) = serves[p]

(* "The fail counter are reset every five minutes. The banning last five   *)
(* minutes": isBanned() is computed anew from counters that still change.  *)
(* What a banned address does meanwhile never helps it: its ban ends with  *)
(* the reset, or when a process that was forked for it before the ban is   *)
(* harvested as a success.                                                 *)
BanOutlastsRequests ==
  [][\A ip \in IPs :
       Threshold # 0 /\ TooManyErrors(logs[ip]) /\ ~TooManyErrors(logs'[ip])
       => \/ logs'[ip] = NoLog
          \/ \E p \in Pids : serves[p] = ip /\ proc[p] = "success" /\ proc'[p] = "free"]_vars

(* The criterion of the configuration file: an IP is banned just when its  *)
(* failed requests since the reset are more than 20 * FAIL2BAN and more    *)
(* than its successful ones, a rejected request counting as failed and one *)
(* that a neutral exit status closes not counting.                         *)
BanCriterion ==
  \A ip \in AllIPs :
    TooManyErrors(logs[ip]) <=>
      tally[ip].failed > Threshold /\ tally[ip].failed > tally[ip].ok

(* A child that ended is harvested while the daemon runs, however long the *)
(* flow of requests and whatever forks fail.                               *)
ChildrenAreHarvested ==
  \A p \in Pids : p \in DOMAIN children /\ Zombie(p) ~> proc[p] = "free" \/ pc = "end"
=============================================================================
