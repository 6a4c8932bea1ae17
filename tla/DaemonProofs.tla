---------------------------- MODULE DaemonProofs ----------------------------
(***************************************************************************)
(* Theorems about module Daemon, for any number of addresses, processes    *)
(* and requests and any FAIL2BAN.                                          *)
(***************************************************************************)
EXTENDS Daemon, TLAPS

(* The inductive invariant.  A pid that is not in use is not recorded, and *)
(* the counters of the code agree with how the requests really ended.      *)
FreePidsAreUnknown ==
  \A p \in Pids : proc[p] = "free" => p \notin DOMAIN children /\ serves[p] = NoIP

LogsAgreeWithTally ==
  \A ip \in AllIPs :
    /\ logs[ip].requests = tally[ip].ok + tally[ip].failed
    /\ logs[ip].errors = tally[ip].failed

IInv == TypeOK /\ FreePidsAreUnknown /\ ChargedToTheRightIP /\ LogsAgreeWithTally

-----------------------------------------------------------------------------
(* Integer division in isBanned(): errors > requests / 2 says exactly that *)
(* there are more failed requests than successful ones.                    *)
LEMMA HalfOfTheRequests ==
  ASSUME NEW ok \in Nat, NEW failed \in Nat
  PROVE failed > (ok + failed) \div 2 <=> failed > ok
  OBVIOUS

LEMMA InitIInv == Init => IInv
<1> SUFFICES ASSUME Init PROVE IInv
  OBVIOUS
<1> USE DaemonAssumption DEF Init
<1>1. DOMAIN children = {}
  OBVIOUS
<1>2. TypeOK
  <2>1. NoLog \in Log /\ NoTally \in Tally
    BY DEF Log, NoLog, Tally, NoTally
  <2>2. NoIP \in AllIPs
    BY DEF AllIPs
  <2>3. logs \in [AllIPs -> Log] /\ tally \in [AllIPs -> Tally]
    BY <2>1
  <2>4. ready \in 0 .. NSockets
    OBVIOUS
  <2>5. QED
    BY <1>1, <2>2, <2>3, <2>4 DEF TypeOK
<1>3. FreePidsAreUnknown /\ ChargedToTheRightIP
  BY <1>1 DEF FreePidsAreUnknown, ChargedToTheRightIP, ChildIP
<1>4. LogsAgreeWithTally
  BY DEF LogsAgreeWithTally, NoLog, NoTally
<1>5. QED
  BY <1>2, <1>3, <1>4 DEF IInv

(* What countRequest() does to the counters of each IP.                    *)
LEMMA CountRequestType ==
  ASSUME NEW ls \in [AllIPs -> Log], NEW ip \in AllIPs, NEW es \in ExitStatus
  PROVE /\ CountRequest(ls, ip, es) \in [AllIPs -> Log]
        /\ \A other \in AllIPs \ {ip} : CountRequest(ls, ip, es)[other] = ls[other]
        /\ CountRequest(ls, ip, es)[ip] =
             [requests |-> IF es = "neutral" THEN ls[ip].requests ELSE ls[ip].requests + 1,
              errors |-> IF es = "error" THEN ls[ip].errors + 1 ELSE ls[ip].errors]
  BY DEF CountRequest, Log, ExitStatus

(* cleanOld() keeps the counters and their true values in step.            *)
LEMMA CleanOldType ==
  ASSUME IInv
  PROVE /\ CleanOld \in [AllIPs -> Log]
        /\ CleanTally \in [AllIPs -> Tally]
        /\ \A ip \in AllIPs :
             /\ CleanOld[ip].requests = CleanTally[ip].ok + CleanTally[ip].failed
             /\ CleanOld[ip].errors = CleanTally[ip].failed
  BY DEF IInv, TypeOK, LogsAgreeWithTally, CleanOld, CleanTally, Log, NoLog, Tally, NoTally

(* fork() and the entry it leaves in children.                             *)
LEMMA ForkIInv ==
  ASSUME IInv, NEW ip \in AllIPs, Fork(ip)
  PROVE /\ DOMAIN children' \subseteq Pids \cup {ForkError}
        /\ \A p \in DOMAIN children' : children'[p] \in AllIPs
        /\ proc' \in [Pids -> {"free", "running"} \cup ExitStatus]
        /\ serves' \in [Pids -> AllIPs]
        /\ forks' \in Nat
        /\ FreePidsAreUnknown'
        /\ ChargedToTheRightIP'
<1> USE DaemonAssumption DEF IInv, TypeOK, FreePidsAreUnknown, ChargedToTheRightIP,
                             ChildIP, Record, AllIPs
<1>1. CASE \E p \in Free :
             /\ proc' = [proc EXCEPT ![p] = "running"]
             /\ serves' = [serves EXCEPT ![p] = ip]
             /\ forks' = forks + 1
             /\ Record(p, ip)
  BY <1>1 DEF Free
<1>2. CASE CanForkFail /\ Record(ForkError, ip) /\ UNCHANGED kernel
  BY <1>2 DEF kernel
<1>3. QED
  BY <1>1, <1>2 DEF Fork

-----------------------------------------------------------------------------
LEMMA NextIInv == IInv /\ [Next]_vars => IInv'
<1> SUFFICES ASSUME IInv, [Next]_vars PROVE IInv'
  OBVIOUS
<1> USE DaemonAssumption
<1>1. CASE Poll
  BY <1>1 DEF Poll, kernel, IInv, TypeOK, FreePidsAreUnknown, ChargedToTheRightIP,
              LogsAgreeWithTally, ChildIP
<1>2. ASSUME NEW ip \in IPs, LaunchRejected(ip) PROVE IInv'
  <2>1. ip \in AllIPs /\ "error" \in ExitStatus
    BY DEF AllIPs, ExitStatus
  <2>2. /\ logs' \in [AllIPs -> Log]
        /\ \A other \in AllIPs \ {ip} : logs'[other] = CleanOld[other]
        /\ logs'[ip] = [requests |-> CleanOld[ip].requests + 1,
                        errors |-> CleanOld[ip].errors + 1]
    BY <1>2, <2>1, CleanOldType, CountRequestType DEF LaunchRejected
  <2>3. tally' \in [AllIPs -> Tally] /\ LogsAgreeWithTally'
    BY <1>2, <2>1, <2>2, CleanOldType DEF LaunchRejected, LogsAgreeWithTally, Tally
  <2>4. ready' \in 0 .. NSockets
    BY <1>2 DEF LaunchRejected, IInv, TypeOK
  <2>5. FreePidsAreUnknown' /\ ChargedToTheRightIP'
    BY <1>2 DEF LaunchRejected, kernel, IInv, FreePidsAreUnknown, ChargedToTheRightIP, ChildIP
  <2>6. QED
    BY <1>2, <2>2, <2>3, <2>4, <2>5 DEF LaunchRejected, kernel, IInv, TypeOK
<1>3. ASSUME NEW ip \in IPs, Launch(ip) PROVE IInv'
  <2>1. ip \in AllIPs /\ Fork(ip)
    BY <1>3 DEF AllIPs, Launch
  <2>2. LogsAgreeWithTally' /\ logs' \in [AllIPs -> Log] /\ tally' \in [AllIPs -> Tally]
    BY <1>3, CleanOldType DEF Launch, LogsAgreeWithTally
  <2>3. ready' \in 0 .. NSockets
    BY <1>3 DEF Launch, IInv, TypeOK
  <2>4. QED
    BY <1>3, <2>1, <2>2, <2>3, ForkIInv DEF Launch, IInv, TypeOK
<1>4. CASE LaunchFails
  BY <1>4 DEF LaunchFails, kernel, IInv, TypeOK, FreePidsAreUnknown, ChargedToTheRightIP,
              LogsAgreeWithTally, ChildIP
<1>5. CASE AcceptEnds
  BY <1>5 DEF AcceptEnds, kernel, IInv, TypeOK, FreePidsAreUnknown, ChargedToTheRightIP,
              LogsAgreeWithTally, ChildIP
<1>6. ASSUME NEW p \in Pids, HarvestOne(p) PROVE IInv'
  <2>1. proc[p] \in ExitStatus /\ serves[p] \in AllIPs /\ ChildIP(p) = serves[p]
    BY <1>6 DEF HarvestOne, Zombie, ExitStatus, IInv, TypeOK, ChargedToTheRightIP
  <2>2. /\ logs' \in [AllIPs -> Log]
        /\ \A other \in AllIPs \ {serves[p]} : logs'[other] = logs[other]
        /\ logs'[serves[p]] =
             [requests |-> IF proc[p] = "neutral" THEN logs[serves[p]].requests
                           ELSE logs[serves[p]].requests + 1,
              errors |-> IF proc[p] = "error" THEN logs[serves[p]].errors + 1
                         ELSE logs[serves[p]].errors]
    BY <1>6, <2>1, CountRequestType DEF HarvestOne, IInv, TypeOK
  <2>3. tally' \in [AllIPs -> Tally]
    BY <1>6, <2>1 DEF HarvestOne, IInv, TypeOK, Tally
  <2>4. LogsAgreeWithTally'
    BY <1>6, <2>1, <2>2
    DEF HarvestOne, IInv, TypeOK, LogsAgreeWithTally, Tally, Log, ExitStatus
  <2>5. FreePidsAreUnknown' /\ ChargedToTheRightIP'
    BY <1>6 DEF HarvestOne, IInv, TypeOK, FreePidsAreUnknown, ChargedToTheRightIP, ChildIP
  <2>6. QED
    BY <1>6, <2>2, <2>3, <2>4, <2>5 DEF HarvestOne, IInv, TypeOK, AllIPs
<1>7. CASE HarvestEnds
  BY <1>7 DEF HarvestEnds, kernel, IInv, TypeOK, FreePidsAreUnknown, ChargedToTheRightIP,
              LogsAgreeWithTally, ChildIP
<1>8. CASE PeriodicTasks
  <2>1. CASE Fork(LocalIP)
    BY <1>8, <2>1, ForkIInv DEF PeriodicTasks, IInv, TypeOK, LogsAgreeWithTally, AllIPs
  <2>2. CASE UNCHANGED <<children, kernel>>
    BY <1>8, <2>2 DEF PeriodicTasks, kernel, IInv, TypeOK, FreePidsAreUnknown,
                      ChargedToTheRightIP, LogsAgreeWithTally, ChildIP
  <2>3. QED
    BY <1>8, <2>1, <2>2 DEF PeriodicTasks
<1>9. ASSUME NEW p \in Pids, ChildExits(p) PROVE IInv'
  BY <1>9 DEF ChildExits, ExitStatus, IInv, TypeOK, FreePidsAreUnknown,
              ChargedToTheRightIP, LogsAgreeWithTally, ChildIP
<1>10. ASSUME NEW p \in Pids, Adopt(p) PROVE IInv'
  BY <1>10 DEF Adopt, Free, IInv, TypeOK, FreePidsAreUnknown, ChargedToTheRightIP,
               LogsAgreeWithTally, ChildIP
<1>11. CASE ClearTime
  BY <1>11 DEF ClearTime, kernel, IInv, TypeOK, FreePidsAreUnknown, ChargedToTheRightIP,
               LogsAgreeWithTally, ChildIP
<1>12. CASE JanitorTime
  BY <1>12 DEF JanitorTime, kernel, IInv, TypeOK, FreePidsAreUnknown, ChargedToTheRightIP,
               LogsAgreeWithTally, ChildIP
<1>13. CASE SIGTERMHandler
  BY <1>13 DEF SIGTERMHandler, kernel, IInv, TypeOK, FreePidsAreUnknown,
               ChargedToTheRightIP, LogsAgreeWithTally, ChildIP
<1>14. CASE UNCHANGED vars
  BY <1>14 DEF vars, IInv, TypeOK, FreePidsAreUnknown, ChargedToTheRightIP,
               LogsAgreeWithTally, ChildIP
<1>15. QED
  BY <1>1, <1>2, <1>3, <1>4, <1>5, <1>6, <1>7, <1>8, <1>9, <1>10, <1>11, <1>12, <1>13,
     <1>14 DEF Next, Loop, Accept, Harvest

LEMMA InvariantIInv == Spec => []IInv
  BY InitIInv, NextIInv, PTL DEF Spec

-----------------------------------------------------------------------------
(* Every exit status the daemon harvests is charged to the IP the process  *)
(* served, whatever forks fail, orphans arrive and pids are used again.    *)
THEOREM StatusesAreChargedRight == Spec => [](TypeOK /\ ChargedToTheRightIP)
  BY InvariantIInv, PTL DEF IInv

(* isBanned() decides by the criterion that vpl-jail-system.conf states,   *)
(* for every FAIL2BAN and every number of requests.                        *)
THEOREM BansFollowTheCriterion == Spec => []BanCriterion
<1>1. IInv => BanCriterion
  <2> SUFFICES ASSUME IInv, NEW ip \in AllIPs
               PROVE TooManyErrors(logs[ip]) <=>
                       tally[ip].failed > Threshold /\ tally[ip].failed > tally[ip].ok
    BY DEF BanCriterion
  <2>1. tally[ip].ok \in Nat /\ tally[ip].failed \in Nat
    BY DEF IInv, TypeOK, Tally
  <2>2. logs[ip].errors = tally[ip].failed
        /\ logs[ip].requests = tally[ip].ok + tally[ip].failed
    BY DEF IInv, LogsAgreeWithTally
  <2>3. QED
    BY <2>1, <2>2, HalfOfTheRequests DEF TooManyErrors
<1>2. QED
  BY <1>1, InvariantIInv, PTL

-----------------------------------------------------------------------------
(* One more failed request does not take an address below the criterion.   *)
LEMMA OneMoreError ==
  ASSUME NEW log \in Log, TooManyErrors(log)
  PROVE TooManyErrors([requests |-> log.requests + 1, errors |-> log.errors + 1])
  BY DaemonAssumption DEF TooManyErrors, Log

(* A ban ends with the reset of the counters or with the success of a      *)
(* process that was forked before it, and with nothing the address does    *)
(* while it is banned.                                                     *)
THEOREM BansOutlastRequests == Spec => BanOutlastsRequests
<1> DEFINE Lifted(ip) ==
      Threshold # 0 /\ TooManyErrors(logs[ip]) /\ ~TooManyErrors(logs'[ip])
    Excused(ip) ==
      \/ logs'[ip] = NoLog
      \/ \E p \in Pids : serves[p] = ip /\ proc[p] = "success" /\ proc'[p] = "free"
<1>1. ASSUME IInv, [Next]_vars, NEW ip \in IPs, Lifted(ip) PROVE Excused(ip)
  <2>1. ip \in AllIPs /\ logs[ip] \in Log
    BY <1>1 DEF AllIPs, IInv, TypeOK
  <2>2. ASSUME NEW other \in IPs, LaunchRejected(other) PROVE Excused(ip)
    <3>1. other \in AllIPs /\ "error" \in ExitStatus
      BY DEF AllIPs, ExitStatus
    <3>2. CASE clearDue
      <4>1. CleanOld[other] = NoLog
        BY <3>1, <3>2 DEF CleanOld
      <4>2. ~TooManyErrors(NoLog)
        BY DaemonAssumption DEF TooManyErrors, NoLog
      <4>3. QED
        BY <2>2, <4>1, <4>2 DEF LaunchRejected, IsBanned
    <3>3. CASE ~clearDue
      <4>1. CleanOld = logs
        BY <3>3 DEF CleanOld
      <4>2. /\ \A third \in AllIPs \ {other} : logs'[third] = logs[third]
            /\ logs'[other] = [requests |-> logs[other].requests + 1,
                              errors |-> logs[other].errors + 1]
        BY ZenonT(60), <1>1, <2>2, <3>1, <4>1, CountRequestType
        DEF LaunchRejected, IInv, TypeOK, ExitStatus
      <4>3. TooManyErrors(logs'[ip])
        BY <1>1, <2>1, <4>2, OneMoreError
      <4>4. QED
        BY <1>1, <4>3
    <3>4. QED
      BY <3>2, <3>3
  <2>3. ASSUME NEW other \in IPs, Launch(other) PROVE Excused(ip)
    BY <1>1, <2>1, <2>3 DEF Launch, CleanOld
  <2>4. ASSUME NEW p \in Pids, HarvestOne(p) PROVE Excused(ip)
    <3>1. /\ proc[p] \in ExitStatus /\ serves[p] \in AllIPs /\ ChildIP(p) = serves[p]
          /\ proc'[p] = "free"
      BY <1>1, <2>4 DEF HarvestOne, Zombie, ExitStatus, IInv, TypeOK, ChargedToTheRightIP
    <3>2. CASE serves[p] = ip /\ proc[p] = "success"
      BY <3>1, <3>2
    <3>3. CASE serves[p] = ip /\ proc[p] = "neutral"
      <4>1. logs' = logs
        BY <2>4, <3>3 DEF HarvestOne, CountRequest
      <4>2. QED
        BY <1>1, <4>1
    <3>4. CASE serves[p] = ip /\ proc[p] = "error"
      <4>1. logs'[ip] = [requests |-> logs[ip].requests + 1, errors |-> logs[ip].errors + 1]
        BY <1>1, <2>4, <3>1, <3>4, CountRequestType DEF HarvestOne, IInv, TypeOK
      <4>2. QED
        BY <1>1, <2>1, <4>1, OneMoreError
    <3>5. CASE serves[p] # ip
      <4>1. logs \in [AllIPs -> Log] /\ logs' = CountRequest(logs, serves[p], proc[p])
        BY <1>1, <2>4, <3>1 DEF HarvestOne, IInv, TypeOK
      <4>2. \A other \in AllIPs \ {serves[p]} :
              CountRequest(logs, serves[p], proc[p])[other] = logs[other]
        BY ZenonT(60), <3>1, <4>1, CountRequestType
      <4>3. logs'[ip] = logs[ip]
        BY <2>1, <3>5, <4>1, <4>2
      <4>4. QED
        BY <1>1, <4>3
    <3>6. QED
      BY <3>1, <3>2, <3>3, <3>4, <3>5 DEF ExitStatus
  <2>5. ASSUME logs' = logs PROVE Excused(ip)
    BY <1>1, <2>5
  <2>6. QED
    BY <1>1, <2>2, <2>3, <2>4, <2>5
    DEF Next, Loop, Accept, Harvest, Poll, LaunchFails, AcceptEnds, HarvestEnds,
        PeriodicTasks, ChildExits, Adopt, ClearTime, JanitorTime, SIGTERMHandler, vars
<1>2. IInv /\ [Next]_vars =>
        [\A ip \in IPs : Lifted(ip) => Excused(ip)]_vars
  BY <1>1
<1>3. QED
  BY <1>2, InvariantIInv, PTL DEF Spec, BanOutlastsRequests
=============================================================================
