--------------------------- MODULE ProcessMonitor ---------------------------
(***************************************************************************)
(* The task store of processMonitor.cpp.  A task lives under one prisoner  *)
(* uid: a control directory (with the files "config", "compilation" and    *)
(* "execution"), a home directory, a set of ticket files and the processes *)
(* that run with that uid.                                                 *)
(*                                                                         *)
(* Every operator below is the body of one critical section of the code    *)
(* (GlobalLock and/or TaskLock held), so it is one atomic step; that the   *)
(* locks really make it so is the subject of module Locks.                 *)
(*                                                                         *)
(* Time.  age[u] says how long ago the task of u was started or, once it   *)
(* is being cleaned, marked: 0 is up to JAIL_MONITORSTART_TIMEOUT, 1 is    *)
(* more than that, 2 is more than maxtime + JAIL_HARVEST_TIMEOUT.  The     *)
(* modification times that cleanZombieTasks looks at are never older.      *)
(***************************************************************************)
EXTENDS Naturals, FiniteSets

CONSTANTS
  Uids,              \* prisoner uids, minPrisoner .. maxPrisoner
  BatchTasks,        \* requests with interactive = 0
  InteractiveTasks,  \* requests with interactive > 0
  DirectTasks,       \* directrun requests
  Monitors,          \* processes serving a monitor websocket
  Executors,         \* processes serving an execute websocket
  NoTask, NoPid,     \* an absent file, pid 0
  KeepHomes,         \* LOGLEVEL > 7: home directories are kept
  Stubborn           \* tasks whose processes may survive being killed

(* A task is named by the request that creates it; the process forked by   *)
(* that request to compile (and, in batch, to run) has the same name.      *)
Tasks == BatchTasks \cup InteractiveTasks \cup DirectTasks

Pids == Tasks \cup Monitors \cup Executors

ASSUME StoreAssumption ==
  /\ NoTask \notin Tasks
  /\ NoPid \notin Pids
  /\ KeepHomes \in BOOLEAN
  /\ Stubborn \subseteq Tasks

Interactive(t) == t \notin BatchTasks
HasMonitorTicket(t) == t \notin DirectTasks

VARIABLES
  ctrl,     \* the uids that have a control directory
  home,     \* the uids that have a home directory
  prog,     \* the uids whose home holds an executable (vpl_execution ...)
  cfg,      \* file control/p<uid>/config
  comp,     \* file control/p<uid>/compilation: the task that wrote it
  exec,     \* file control/p<uid>/execution: the task that wrote it
  tickets,  \* ticket files
  procs,    \* the tasks that have processes running with each uid
  age       \* see above

store == <<ctrl, home, prog, cfg, comp, exec, tickets, procs, age>>

Config == [task : Tasks \cup {NoTask}, cleaning : BOOLEAN,
           compiler : Tasks \cup {NoPid}, runner : Tasks \cup Executors \cup {NoPid},
           monitor : Monitors \cup {NoPid}, http : BOOLEAN]

NewConfig(t) == [task |-> t, cleaning |-> FALSE, compiler |-> NoPid,
                 runner |-> NoPid, monitor |-> NoPid, http |-> FALSE]

NoConfig == NewConfig(NoTask)

Security == {"admin", "monitor", "execute", "httppassthrough"}
Ticket == [task : Tasks, sec : Security, uid : Uids]

StoreTypeOK ==
  /\ ctrl \subseteq Uids
  /\ home \subseteq Uids
  /\ prog \subseteq Uids
  /\ cfg \in [Uids -> Config]
  /\ comp \in [Uids -> Tasks \cup {NoTask}]
  /\ exec \in [Uids -> Tasks \cup {NoTask}]
  /\ tickets \subseteq Ticket
  /\ procs \in [Uids -> SUBSET Tasks]
  /\ age \in [Uids -> 0 .. 2]

StoreInit ==
  /\ ctrl = {}
  /\ home = {}
  /\ prog = {}
  /\ cfg = [u \in Uids |-> NoConfig]
  /\ comp = [u \in Uids |-> NoTask]
  /\ exec = [u \in Uids |-> NoTask]
  /\ tickets = {}
  /\ procs = [u \in Uids |-> {}]
  /\ age = [u \in Uids |-> 0]

(* readInfo() succeeds: the config file exists and does not say CLEANING.  *)
(* Otherwise it throws (HttpException or TaskCleaningException).           *)
ReadInfoOK(u) == cfg[u].task # NoTask /\ ~cfg[u].cleaning

-----------------------------------------------------------------------------
(* Creating a task                                                         *)

(* Variant: a uid whose directories exist is drawn again.                  *)
SelectPrisonerTwice(u) ==
  /\ ctrl' = ctrl \cup {u}
  /\ home' = home \cup {u}
  /\ age' = [age EXCEPT ![u] = 0]
  /\ UNCHANGED <<prog, cfg, comp, exec, tickets, procs>>

(* One turn of selectPrisoner() that finds a free uid.                     *)
SelectPrisoner(u) ==
  /\ u \notin ctrl
  /\ u \notin home
  /\ ctrl' = ctrl \cup {u}
  /\ home' = home \cup {u}
  /\ age' = [age EXCEPT ![u] = 0]
  /\ UNCHANGED <<prog, cfg, comp, exec, tickets, procs>>

(* One turn that meets a home without control directory: it is removed,    *)
(* the control directory just made too, and the search goes on.            *)
SelectOrphanHome(u) ==
  /\ u \notin ctrl
  /\ u \in home
  /\ home' = home \ {u}
  /\ prog' = prog \ {u}
  /\ UNCHANGED <<ctrl, cfg, comp, exec, tickets, procs, age>>

(* chown or chmod of the new home fails: home removed, control directory   *)
(* left behind.                                                            *)
SelectFails(u) ==
  /\ u \notin ctrl
  /\ u \notin home
  /\ ctrl' = ctrl \cup {u}
  /\ age' = [age EXCEPT ![u] = 0]
  /\ UNCHANGED <<home, prog, cfg, comp, exec, tickets, procs>>

NewTickets(t, u) ==
  {k \in Ticket : /\ k.task = t
                  /\ k.uid = u
                  /\ k.sec \in {"admin", "execute"} \cup
                               (IF HasMonitorTicket(t) THEN {"monitor"} ELSE {})}

(* Second half of the two creating constructors: the ticket files first,   *)
(* then writeInfo(), which fails if the control directory has gone.        *)
CreateTask(t, u) ==
  /\ tickets' = tickets \cup NewTickets(t, u)
  /\ IF u \in ctrl
     THEN /\ cfg' = [cfg EXCEPT ![u] = NewConfig(t)]
          /\ age' = [age EXCEPT ![u] = 0]
     ELSE UNCHANGED <<cfg, age>>
  /\ UNCHANGED <<ctrl, home, prog, comp, exec, procs>>

-----------------------------------------------------------------------------
(* Operations on a task (TaskLock held; readInfo, change, writeInfo)       *)

SetCompiler(p, u) ==
  /\ cfg' = [cfg EXCEPT ![u].compiler = p]
  /\ age' = [age EXCEPT ![u] = 0]
  /\ UNCHANGED <<ctrl, home, prog, comp, exec, tickets, procs>>

SetRunner(p, u) ==
  /\ cfg' = [cfg EXCEPT ![u].runner = p]
  /\ age' = [age EXCEPT ![u] = 0]
  /\ UNCHANGED <<ctrl, home, prog, comp, exec, tickets, procs>>

SetCompilationOutput(t, u) ==
  /\ comp' = [comp EXCEPT ![u] = t]
  /\ UNCHANGED <<ctrl, home, prog, cfg, exec, tickets, procs, age>>

SetExecutionOutput(t, u) ==
  /\ exec' = [exec EXCEPT ![u] = t]
  /\ UNCHANGED <<ctrl, home, prog, cfg, comp, tickets, procs, age>>

(* getResult() reads the two results and deletes them.                     *)
TakeResult(u) ==
  /\ comp' = [comp EXCEPT ![u] = NoTask]
  /\ exec' = [exec EXCEPT ![u] = NoTask]
  /\ UNCHANGED <<ctrl, home, prog, cfg, tickets, procs, age>>

(* Variant: only monitor tickets are deleted on use.                       *)
UseTicketTwice(k, p) ==
  /\ tickets' = IF k.sec = "monitor" THEN tickets \ {k} ELSE tickets
  /\ cfg' = IF k.sec = "monitor" /\ ReadInfoOK(k.uid) /\ cfg[k.uid].monitor = NoPid
            THEN [cfg EXCEPT ![k.uid].monitor = p]
            ELSE cfg
  /\ UNCHANGED <<ctrl, home, prog, comp, exec, procs, age>>

(* The ticket constructor: monitor and execution tickets are deleted on    *)
(* use, before anything else is looked at; a monitor ticket also registers *)
(* the process as the monitor (monitorize()).                              *)
UseTicket(k, p) ==
  /\ tickets' = IF k.sec \in {"monitor", "execute"} THEN tickets \ {k} ELSE tickets
  /\ cfg' = IF k.sec = "monitor" /\ ReadInfoOK(k.uid) /\ cfg[k.uid].monitor = NoPid
            THEN [cfg EXCEPT ![k.uid].monitor = p]
            ELSE cfg
  /\ UNCHANGED <<ctrl, home, prog, comp, exec, procs, age>>

(* Whether that constructor returns instead of throwing.                   *)
TicketAccepted(k) ==
  ReadInfoOK(k.uid) /\ (k.sec = "monitor" => cfg[k.uid].monitor = NoPid)

(* getHttpPassthroughTicket(): one ticket per task.                        *)
AddPassthroughTicket(u) ==
  /\ tickets' = IF cfg[u].http THEN tickets ELSE tickets \cup
       {[task |-> cfg[u].task, sec |-> "httppassthrough", uid |-> u]}
  /\ cfg' = [cfg EXCEPT ![u].http = TRUE]
  /\ UNCHANGED <<ctrl, home, prog, comp, exec, procs, age>>

-----------------------------------------------------------------------------
(* Cleaning a task                                                         *)

TicketsOf(t) == {k \in tickets : k.task = t}

(* Variant: the tickets are left to cleanPrisonerFiles().                  *)
MarkCleaningKeepsTickets(u, t) ==
  /\ IF cfg[u].task # NoTask
     THEN /\ cfg' = [cfg EXCEPT ![u].cleaning = TRUE]
          /\ age' = [age EXCEPT ![u] = 0]
     ELSE UNCHANGED <<cfg, age>>
  /\ UNCHANGED <<ctrl, home, prog, comp, exec, tickets, procs>>

(* First block of cleanTask(): CLEANING=1 and the tickets removed.  The    *)
(* tickets cached in the object (task t) are removed too.                  *)
MarkCleaning(u, t) ==
  /\ tickets' = (tickets \ TicketsOf(cfg[u].task)) \ TicketsOf(t)
  /\ IF cfg[u].task # NoTask
     THEN /\ cfg' = [cfg EXCEPT ![u].cleaning = TRUE]
          /\ age' = [age EXCEPT ![u] = 0]
     ELSE UNCHANGED <<cfg, age>>
  /\ UNCHANGED <<ctrl, home, prog, comp, exec, procs>>

(* stopPrisonerProcess(): signals go to every process with the uid,        *)
(* whatever task started it.  A program may ignore SIGTERM (soft); SIGKILL *)
(* is sent until no process is found or the method gives up.               *)
StopPrisonerProcess(u, soft) ==
  /\ \E left \in SUBSET (IF soft THEN procs[u] ELSE procs[u] \cap Stubborn) :
       procs' = [procs EXCEPT ![u] = left]
  /\ UNCHANGED <<ctrl, home, prog, cfg, comp, exec, tickets, age>>

(* cleanPrisonerFilesLocked(): tickets, home, control directory.           *)
CleanPrisonerFiles(u) ==
  /\ tickets' = tickets \ TicketsOf(cfg[u].task)
  /\ home' = IF KeepHomes THEN home ELSE home \ {u}
  /\ prog' = IF KeepHomes THEN prog ELSE prog \ {u}
  /\ ctrl' = ctrl \ {u}
  /\ cfg' = [cfg EXCEPT ![u] = NoConfig]
  /\ comp' = [comp EXCEPT ![u] = NoTask]
  /\ exec' = [exec EXCEPT ![u] = NoTask]
  /\ age' = [age EXCEPT ![u] = 0]
  /\ UNCHANGED procs

-----------------------------------------------------------------------------
(* getState(), second half: what the snapshot s of the config read under   *)
(* the lock means once the lock is released.  "expired" stands for the     *)
(* three places where getState() calls cleanTask() and returns stopped.    *)
ProcessStates == {"prestarting", "starting", "compiling", "beforeRunning",
                  "running", "retrieve", "stopped"}

NoRunnerState(s, u) ==
  IF Interactive(s.cfg.task) THEN "beforeRunning"
  ELSE IF comp[u] = NoTask THEN "stopped"
  ELSE IF u \in prog THEN "compiling" ELSE "retrieve"

(* Variant: a batch task without "execution" still counts as running.      *)
DeadRunnerStateWaits(s, u) ==
  IF Interactive(s.cfg.task) THEN "stopped"
  ELSE IF exec[u] = NoTask THEN "running" ELSE "retrieve"

DeadRunnerState(s, u) ==
  IF Interactive(s.cfg.task) \/ exec[u] = NoTask THEN "stopped" ELSE "retrieve"

Unattended(s) ==
  /\ s.cfg.monitor = NoPid
  /\ s.age >= 1
  /\ HasMonitorTicket(s.cfg.task) \/ s.cfg.runner = NoPid

(* Variant: no limit of maxtime + JAIL_HARVEST_TIMEOUT.                    *)
GetStateWithoutLimit(s, u, alive) ==
  IF s.cfg.task = NoTask \/ s.cfg.cleaning THEN "stopped"
  ELSE IF s.cfg.compiler = NoPid THEN "starting"
  ELSE IF s.cfg.compiler \in alive /\ s.cfg.runner = NoPid THEN "compiling"
  ELSE IF Unattended(s) THEN "expired"
  ELSE IF s.cfg.runner = NoPid THEN NoRunnerState(s, u)
  ELSE IF s.cfg.runner \in alive THEN "running"
  ELSE DeadRunnerState(s, u)

GetState(s, u, alive) ==
  IF s.cfg.task = NoTask \/ s.cfg.cleaning THEN "stopped"
  ELSE IF s.cfg.compiler = NoPid THEN "starting"
  ELSE IF s.age = 2 THEN "expired"
  ELSE IF s.cfg.compiler \in alive /\ s.cfg.runner = NoPid THEN "compiling"
  ELSE IF Unattended(s) THEN "expired"
  ELSE IF s.cfg.runner = NoPid THEN NoRunnerState(s, u)
  ELSE IF s.cfg.runner \in alive THEN "running"
  ELSE DeadRunnerState(s, u)
=============================================================================
