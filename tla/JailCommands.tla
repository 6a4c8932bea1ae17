---------------------------- MODULE JailCommands ----------------------------
(***************************************************************************)
(* The processes of jail.cpp that work on the task store: the requests and *)
(* the children they fork to compile and run (commandRequest,              *)
(* commandDirectRun), the monitor and execute websockets (commandMonitor,  *)
(* commandExecute), the requests with an admin ticket (running, stop,      *)
(* getresult, update), the visits of a browser to the web application of a *)
(* task and the janitor that the daemon forks every five minutes           *)
(* (processMonitor::cleanZombieTasks).                                     *)
(*                                                                         *)
(* A process holds a processMonitor object: the uid and what it last read  *)
(* of the config.  Nothing else ties it to its task, and it may outlive    *)
(* the task.  A step is one critical section or one observation made       *)
(* outside the locks.                                                      *)
(***************************************************************************)
EXTENDS ProcessMonitor

CONSTANTS
  Admins,       \* processes serving running, stop, getresult, update, a visit
  Janitors,     \* processes running cleanZombieTasks
  NoUid,
  CanCrash,     \* processes that may be killed at any step
  ChownFails,   \* chown of a new home may fail
  UidReuse,     \* selectPrisoner may draw a uid some live process still holds
  Timely        \* no process is delayed for as long as the timeouts

Handlers == Tasks \cup Monitors \cup Executors \cup Admins \cup Janitors

ASSUME HandlersAssumption ==
  /\ NoUid \notin Uids
  /\ CanCrash \subseteq Handlers
  /\ ChownFails \in BOOLEAN
  /\ UidReuse \in BOOLEAN
  /\ Timely \in BOOLEAN
  /\ Tasks \cap (Monitors \cup Executors \cup Admins \cup Janitors) = {}
  /\ Monitors \cap (Executors \cup Admins \cup Janitors) = {}
  /\ Executors \cap (Admins \cup Janitors) = {}
  /\ Admins \cap Janitors = {}

VARIABLES
  hs,        \* the state of each process
  late,      \* history: tasks that launched a program when they had already
             \* been marked for cleaning or removed
  released   \* history: tasks whose client took the result, stopped the
             \* task or let its time run out

history == <<late, released>>
vars == <<ctrl, home, prog, cfg, comp, exec, tickets, procs, age, hs, late, released>>

Pcs == {"idle", "create", "save", "extra", "compiler", "launchCompiler",
        "compiling", "saveCompilation", "compiled", "waitMonitor", "runner",
        "launch", "running", "saveExecution", "ran", "ending", "poll",
        "decide", "browser", "result", "update", "visit", "visited",
        "session", "mark", "kill", "check", "remove", "zombie", "done"}

Snapshot == [cfg : Config, age : 0 .. 2]
NoSnapshot == [cfg |-> NoConfig, age |-> 0]

(* task: the task the process was started for; seen: the state a monitor   *)
(* last told its client; next: where cleanTask() returns to.               *)
HandlerState == [pc : Pcs, uid : Uids \cup {NoUid}, task : Tasks \cup {NoTask},
                 snap : Snapshot, seen : ProcessStates,
                 next : {"done", "mark", "ending"}]

AtPc(l) == [pc |-> l, uid |-> NoUid, task |-> NoTask, snap |-> NoSnapshot,
            seen |-> "prestarting", next |-> "done"]

Attached(l, u, t) == [AtPc(l) EXCEPT !.uid = u, !.task = t]

Live(h) == hs[h].pc \notin {"idle", "done"}
Alive == {h \in Handlers : Live(h)}

TypeOK ==
  /\ StoreTypeOK
  /\ hs \in [Handlers -> HandlerState]
  /\ late \subseteq Tasks
  /\ released \subseteq Tasks

Init ==
  /\ StoreInit
  /\ hs = [h \in Handlers |-> AtPc("idle")]
  /\ late = {}
  /\ released = {}

-----------------------------------------------------------------------------
(* Moving a process                                                        *)

At(h, l) == hs[h].pc = l
Goto(h, l) == hs' = [hs EXCEPT ![h] = [@ EXCEPT !.pc = l]]

(* The process exits; cleanZombieTasks goes on with the next directory.    *)
Finish(h) ==
  hs' = [hs EXCEPT ![h] = AtPc(IF h \in Janitors THEN "idle" ELSE "done")]

(* Calls cleanTask(), which returns to l.                                  *)
Clean(h, l) ==
  hs' = [hs EXCEPT ![h] = [@ EXCEPT !.pc = "mark", !.next = l, !.snap = NoSnapshot]]

(* Goes on at l, the snapshot that getState() took no longer needed.       *)
Continue(h, l) == hs' = [hs EXCEPT ![h] = [@ EXCEPT !.pc = l, !.snap = NoSnapshot]]

-----------------------------------------------------------------------------
(* commandRequest and commandDirectRun                                     *)

(* selectPrisoner() draws a uid.  Unless UidReuse, the draw does not hit a *)
(* uid that a process of an earlier task still works with.                 *)
Drawable(u) == UidReuse \/ \A h \in Handlers : Live(h) => hs[h].uid # u

Request(t, u) ==
  /\ At(t, "idle")
  /\ Drawable(u)
  /\ SelectPrisoner(u)
  /\ hs' = [hs EXCEPT ![t] = Attached("create", u, t)]
  /\ UNCHANGED history

RequestSkipsHome(t, u) ==
  /\ At(t, "idle")
  /\ SelectOrphanHome(u)
  /\ UNCHANGED <<hs, history>>

RequestFails(t, u) ==
  /\ ChownFails
  /\ At(t, "idle")
  /\ Drawable(u)
  /\ SelectFails(u)
  /\ Finish(t)
  /\ UNCHANGED history

Create(t) ==
  /\ At(t, "create")
  /\ CreateTask(t, hs[t].uid)
  /\ IF hs[t].uid \in ctrl THEN Goto(t, "save") ELSE Finish(t)
  /\ UNCHANGED history

(* saveParseFiles() in the forked child; on failure the child exits (as it *)
(* does not exist at all when the fork fails).                             *)
SaveFiles(t) ==
  /\ At(t, "save")
  /\ \/ hs[t].uid \in home /\ Goto(t, "extra")
     \/ Finish(t)
  /\ UNCHANGED <<store, history>>

(* setExtraInfo(): the limits of the request.                              *)
ExtraInfo(t) ==
  /\ At(t, "extra")
  /\ IF ReadInfoOK(hs[t].uid) THEN Goto(t, "compiler") ELSE Finish(t)
  /\ UNCHANGED <<store, history>>

(* Variant: CLEANING is not looked at.                                     *)
RegisterCompilerUnchecked(t) ==
  /\ At(t, "compiler")
  /\ IF cfg[hs[t].uid].task # NoTask
     THEN SetCompiler(t, hs[t].uid) /\ Goto(t, "launchCompiler")
     ELSE UNCHANGED store /\ Finish(t)
  /\ UNCHANGED history

RegisterCompiler(t) ==
  /\ At(t, "compiler")
  /\ IF ReadInfoOK(hs[t].uid)
     THEN SetCompiler(t, hs[t].uid) /\ Goto(t, "launchCompiler")
     ELSE UNCHANGED store /\ Finish(t)
  /\ UNCHANGED history

-----------------------------------------------------------------------------
(* Jail::run and Jail::runTerminal: a program in the jail                  *)

LoopOf == [launchCompiler |-> "compiling", launch |-> "running"]

AfterLoop(h) ==
  IF hs[h].pc \in {"launchCompiler", "compiling"} THEN "saveCompilation"
  ELSE IF h \in Tasks THEN "saveExecution"
  ELSE IF At(h, "launch") THEN "ending" ELSE "ran"

(* fork and executeInJail().  The first disjunct is a program that starts  *)
(* (it needs its home directory); the second is openpty or fork failing,   *)
(* a child that ends at once, or commandExecute finding nothing to run.    *)
Launch(h) ==
  /\ hs[h].pc \in DOMAIN LoopOf
  /\ \/ /\ hs[h].uid \in home
        /\ h \in Executors => hs[h].uid \in prog
        /\ procs' = [procs EXCEPT ![hs[h].uid] = @ \cup {hs[h].task}]
        /\ late' = IF ReadInfoOK(hs[h].uid) THEN late ELSE late \cup {hs[h].task}
        /\ Goto(h, LoopOf[hs[h].pc])
     \/ UNCHANGED <<procs, late>> /\ Goto(h, AfterLoop(h))
  /\ UNCHANGED <<ctrl, home, prog, cfg, comp, exec, tickets, age, released>>

InLoop(h) == hs[h].pc \in {"compiling", "running"}

(* The redirector loop ends: waitpid() reports the end of the program, its *)
(* terminal is closed, or (runTerminal) the client closes the websocket.   *)
(* Processes the program left in the background go on.                     *)
LoopEnds(h) ==
  /\ InLoop(h)
  /\ Goto(h, AfterLoop(h))
  /\ UNCHANGED <<store, history>>

(* The check made every second.  After JAIL_MONITORSTART_TIMEOUT it calls  *)
(* isMonitored(), which throws when the config has gone or says CLEANING.  *)
CheckThrows(u) == age[u] >= 1 /\ u \in ctrl /\ ~ReadInfoOK(u)

(* Not monitored, out of time or out of memory.  First try: SIGTERM.       *)
LoopWarns(h) ==
  /\ InLoop(h)
  /\ ~CheckThrows(hs[h].uid)
  /\ StopPrisonerProcess(hs[h].uid, TRUE)
  /\ UNCHANGED <<hs, history>>

(* Second try: SIGKILL, and the redirector is stopped.  In Jail::run the   *)
(* processes of a task without monitor get a second SIGTERM instead.       *)
LoopKills(h) ==
  /\ InLoop(h)
  /\ ~CheckThrows(hs[h].uid)
  /\ \E soft \in BOOLEAN : StopPrisonerProcess(hs[h].uid, soft)
  /\ Goto(h, AfterLoop(h))
  /\ UNCHANGED history

(* The exception leaves Jail::run and ends the forked child, its program   *)
(* still running; Jail::runTerminal catches it and kills its program.      *)
LoopThrows(h) ==
  /\ InLoop(h)
  /\ CheckThrows(hs[h].uid)
  /\ IF h \in Tasks THEN Finish(h) ELSE Goto(h, AfterLoop(h))
  /\ UNCHANGED <<store, history>>

(* The compilation script leaves an executable in the home directory.      *)
ProgramBuilds(t, u) ==
  /\ t \in procs[u]
  /\ At(t, "compiling")
  /\ u \in home \ prog
  /\ prog' = prog \cup {u}
  /\ UNCHANGED <<ctrl, home, cfg, comp, exec, tickets, procs, age, hs, history>>

(* The last process of the program ends by itself.                         *)
ProgramEnds(t, u) ==
  /\ t \in procs[u]
  /\ procs' = [procs EXCEPT ![u] = @ \ {t}]
  /\ UNCHANGED <<ctrl, home, prog, cfg, comp, exec, tickets, age, hs, history>>

-----------------------------------------------------------------------------
(* The rest of the forked child                                            *)

SaveCompilation(t) ==
  /\ At(t, "saveCompilation")
  /\ IF ReadInfoOK(hs[t].uid) /\ comp[hs[t].uid] = NoTask
     THEN SetCompilationOutput(t, hs[t].uid) /\ Goto(t, "compiled")
     ELSE UNCHANGED store /\ Finish(t)
  /\ UNCHANGED history

(* FileExists(vpl_execution), deleteFilesMarkedForDeletion, setExtraInfo.  *)
Compiled(t) ==
  /\ At(t, "compiled")
  /\ \/ /\ hs[t].uid \in prog
        /\ IF ReadInfoOK(hs[t].uid) /\ ~Interactive(t) THEN Goto(t, "runner") ELSE Finish(t)
     \/ /\ hs[t].uid \notin prog
        /\ IF HasMonitorTicket(t) THEN Goto(t, "waitMonitor") ELSE Finish(t)
  /\ UNCHANGED <<store, history>>

(* Until isMonitored(), three seconds at most.                             *)
WaitMonitor(t) ==
  /\ At(t, "waitMonitor")
  /\ Finish(t)
  /\ UNCHANGED <<store, history>>

RegisterRunner(h) ==
  /\ At(h, "runner")
  /\ IF ReadInfoOK(hs[h].uid)
     THEN SetRunner(h, hs[h].uid) /\ Goto(h, "launch")
     ELSE UNCHANGED store /\ Finish(h)
  /\ UNCHANGED history

(* Variant: saved even when the compilation is missing.                    *)
SaveExecutionUnchecked(t) ==
  /\ At(t, "saveExecution")
  /\ IF ReadInfoOK(hs[t].uid) /\ exec[hs[t].uid] = NoTask
     THEN SetExecutionOutput(t, hs[t].uid)
     ELSE UNCHANGED store
  /\ Finish(t)
  /\ UNCHANGED history

SaveExecution(t) ==
  /\ At(t, "saveExecution")
  /\ IF /\ ReadInfoOK(hs[t].uid)
        /\ comp[hs[t].uid] # NoTask
        /\ exec[hs[t].uid] = NoTask
     THEN SetExecutionOutput(t, hs[t].uid)
     ELSE UNCHANGED store
  /\ Finish(t)
  /\ UNCHANGED history

-----------------------------------------------------------------------------
(* Opening a ticket                                                        *)

Open(h, k, l) ==
  /\ At(h, "idle")
  /\ k \in tickets
  /\ UseTicket(k, h)
  /\ IF TicketAccepted(k)
     THEN hs' = [hs EXCEPT ![h] = Attached(l, k.uid, k.task)]
     ELSE Finish(h)

OpenMonitor(h, k) == k.sec = "monitor" /\ Open(h, k, "poll") /\ UNCHANGED history

OpenExecute(h, k) == k.sec = "execute" /\ Open(h, k, "poll") /\ UNCHANGED history

OpenRunning(h, k) == k.sec = "admin" /\ Open(h, k, "poll") /\ UNCHANGED history

OpenStop(h, k) ==
  k.sec = "admin" /\ Open(h, k, "mark") /\ released' = released \cup {k.task} /\ UNCHANGED late

OpenGetResult(h, k) == k.sec = "admin" /\ Open(h, k, "result") /\ UNCHANGED history

OpenUpdate(h, k) == k.sec = "admin" /\ Open(h, k, "update") /\ UNCHANGED history

(* A request that carries the ticket of the web application, in its URL or *)
(* its cookie.                                                             *)
OpenVisit(h, k) == k.sec = "httppassthrough" /\ Open(h, k, "visit") /\ UNCHANGED history

(* getResult(): refused for an interactive task.                           *)
GetResult(h) ==
  /\ At(h, "result")
  /\ IF Interactive(hs[h].task)
     THEN UNCHANGED <<store, released>>
     ELSE TakeResult(hs[h].uid) /\ released' = released \cup {hs[h].task}
  /\ Finish(h)
  /\ UNCHANGED late

(* saveParseFiles() and deleteFilesMarkedForDeletion(): files of the home  *)
(* directory, which are not in the model, or a refusal.                    *)
Update(h) ==
  /\ At(h, "update")
  /\ Finish(h)
  /\ UNCHANGED <<store, history>>

-----------------------------------------------------------------------------
(* getState(): the config is read under the lock, everything else is       *)
(* observed afterwards.                                                    *)

ReadState(h) ==
  /\ hs[h].pc \in {"poll", "visit"}
  /\ hs' = [hs EXCEPT ![h] = [@ EXCEPT !.pc = IF At(h, "poll") THEN "decide" ELSE "visited",
       !.snap = [cfg |-> cfg[hs[h].uid], age |-> age[hs[h].uid]]]]
  /\ UNCHANGED <<store, history>>

Observed(h) == GetState(hs[h].snap, hs[h].uid, Alive)

(* Variant: getState() does not return stopped after cleaning.             *)
MonitorKeepsWatchingExpired(h) ==
  /\ Observed(h) # "stopped"
  /\ ~(Observed(h) = "beforeRunning" /\ hs[h].seen # "beforeRunning"
       /\ hs[h].uid \notin prog)

MonitorKeepsWatching(h) ==
  /\ Observed(h) \notin {"stopped", "expired"}
  /\ ~(Observed(h) = "beforeRunning" /\ hs[h].seen # "beforeRunning"
       /\ hs[h].uid \notin prog)

(* An interactive task that starts to run may be a web application.        *)
MonitorDecides(h) ==
  IF MonitorKeepsWatching(h)
  THEN \E l \in {"poll"} \cup
                (IF Observed(h) = "running" /\ hs[h].seen = "beforeRunning"
                 THEN {"browser"} ELSE {}) :
         hs' = [hs EXCEPT ![h] = [@ EXCEPT !.pc = l, !.seen = Observed(h),
                                           !.snap = NoSnapshot]]
  ELSE Clean(h, IF Observed(h) = "expired" THEN "mark" ELSE "done")

ExecuteDecides(h) ==
  \/ /\ Observed(h) \in {"starting", "compiling"}
     /\ Continue(h, "poll")
  \/ /\ Observed(h) = "beforeRunning"
     /\ Continue(h, "runner")
  \/ /\ Observed(h) = "expired"
     /\ Clean(h, "done")
  \/ /\ Observed(h) \in {"running", "retrieve", "stopped"}
     /\ Finish(h)

RunningDecides(h) ==
  IF Observed(h) \in {"stopped", "expired"}
  THEN Clean(h, IF Observed(h) = "expired" THEN "mark" ELSE "done")
  ELSE Finish(h)

(* commandExecute waits maxtime + JAIL_HARVEST_TIMEOUT at most.             *)
ExecuteGivesUp(h) ==
  /\ At(h, "decide")
  /\ Observed(h) \in {"starting", "compiling"}
  /\ hs[h].snap.age = 2
  /\ Finish(h)
  /\ UNCHANGED <<store, history>>

JanitorDecides(h) == IF Observed(h) = "expired" THEN Clean(h, "done") ELSE Finish(h)

Decide(h) ==
  /\ At(h, "decide")
  /\ \/ h \in Monitors /\ MonitorDecides(h)
     \/ h \in Executors /\ ExecuteDecides(h)
     \/ h \in Admins /\ RunningDecides(h)
     \/ h \in Janitors /\ JanitorDecides(h)
  /\ released' = IF Observed(h) = "expired" THEN released \cup {hs[h].task}
                 ELSE released
  /\ UNCHANGED <<store, late>>

-----------------------------------------------------------------------------
(* commandSetPassthroughCookie and httpPassthrough                         *)

(* Only a running task is visited; any other answer of getState(), which   *)
(* has cleaned a task out of time by then, is "false".                     *)
VisitDecides(h) ==
  /\ At(h, "visited")
  /\ \/ Observed(h) = "running" /\ Continue(h, "session")
     \/ Observed(h) = "expired" /\ Clean(h, "done")
     \/ Observed(h) \notin {"running", "expired"} /\ Finish(h)
  /\ released' = IF Observed(h) = "expired" THEN released \cup {hs[h].task}
                 ELSE released
  /\ UNCHANGED <<store, late>>

(* The cookie is set; or getLocalWebServer() throws, or the redirector of  *)
(* module Relay has ended, which does not look at the task.                *)
VisitEnds(h) ==
  /\ At(h, "session")
  /\ Finish(h)
  /\ UNCHANGED <<store, history>>

-----------------------------------------------------------------------------
(* The other events of commandMonitor and commandExecute                   *)

Watching(h) == h \in Monitors /\ At(h, "poll") /\ hs[h].seen # "prestarting"

(* Variant: a closed websocket always ends the monitor.                    *)
ClientClosesAlways(h) ==
  /\ Watching(h)
  /\ Clean(h, "done")
  /\ UNCHANGED <<store, history>>

(* The client closes the websocket (or memory runs out).  Not heeded while *)
(* the client is expected to come for its result.                          *)
ClientCloses(h) ==
  /\ Watching(h)
  /\ hs[h].seen # "retrieve"
  /\ Clean(h, "done")
  /\ UNCHANGED <<store, history>>

(* Anything the client sends ends the monitor.                             *)
ClientSends(h) ==
  /\ Watching(h)
  /\ Clean(h, "done")
  /\ released' = released \cup {hs[h].task}
  /\ UNCHANGED <<store, late>>

MonitorTimeout(h) ==
  /\ Watching(h)
  /\ hs[h].seen # "starting"
  /\ age[hs[h].uid] >= 1
  /\ Clean(h, "done")
  /\ released' = released \cup {hs[h].task}
  /\ UNCHANGED <<store, late>>

(* The web application is up: the client gets a passthrough ticket.        *)
PassthroughTicket(h) ==
  /\ At(h, "browser")
  /\ IF ReadInfoOK(hs[h].uid)
     THEN AddPassthroughTicket(hs[h].uid) /\ Goto(h, "poll")
     ELSE UNCHANGED store /\ Finish(h)
  /\ UNCHANGED history

(* End of runTerminal: if its program has not ended, its process group is  *)
(* killed; a task without monitor is cleaned here.                         *)
ExecuteEnds(h) ==
  /\ At(h, "ran")
  /\ \E killed \in SUBSET {hs[h].task} :
       procs' = [procs EXCEPT ![hs[h].uid] = @ \ killed]
  /\ IF HasMonitorTicket(hs[h].task) THEN Goto(h, "ending") ELSE Clean(h, "ending")
  /\ UNCHANGED <<ctrl, home, prog, cfg, comp, exec, tickets, age, history>>

(* hasActiveMonitor(); it throws when the config has gone.                 *)
MonitorIsActive(u) ==
  u \in ctrl /\ \/ ~ReadInfoOK(u)
                \/ HasMonitorTicket(cfg[u].task) /\ cfg[u].monitor \in Alive

ExecuteLeaves(h) ==
  /\ At(h, "ending")
  /\ IF MonitorIsActive(hs[h].uid) THEN Finish(h) ELSE Clean(h, "done")
  /\ UNCHANGED <<store, history>>

-----------------------------------------------------------------------------
(* cleanTask()                                                             *)

Mark(h) ==
  /\ At(h, "mark")
  /\ MarkCleaning(hs[h].uid, hs[h].task)
  /\ Goto(h, "kill")
  /\ UNCHANGED history

Kill(h) ==
  /\ At(h, "kill")
  /\ StopPrisonerProcess(hs[h].uid, FALSE)
  /\ Goto(h, "check")
  /\ UNCHANGED history

ReturnFromClean(h) ==
  IF hs[h].next = "done" THEN Finish(h)
  ELSE hs' = [hs EXCEPT ![h] = [@ EXCEPT !.pc = hs[h].next, !.next = "done"]]

(* Variant: the files are removed whatever processes remain.               *)
CheckIgnoresProcesses(h) ==
  /\ At(h, "check")
  /\ Goto(h, "remove")
  /\ UNCHANGED <<store, history>>

(* Processes remain: everything is left as it is.                          *)
Check(h) ==
  /\ At(h, "check")
  /\ IF procs[hs[h].uid] = {} THEN Goto(h, "remove") ELSE ReturnFromClean(h)
  /\ UNCHANGED <<store, history>>

Remove(h) ==
  /\ At(h, "remove")
  /\ CleanPrisonerFiles(hs[h].uid)
  /\ ReturnFromClean(h)
  /\ UNCHANGED history

-----------------------------------------------------------------------------
(* cleanZombieTasks()                                                      *)

(* A control directory without home.                                       *)
JanitorNoHome(z, u) ==
  /\ At(z, "idle")
  /\ u \in ctrl \ home
  /\ age[u] >= 1
  /\ CleanPrisonerFiles(u)
  /\ UNCHANGED <<hs, history>>

(* A control directory with home: the task is opened with its admin ticket *)
(* and asked for its state, which cleans it if it has expired.             *)
JanitorOpens(z, u) ==
  /\ At(z, "idle")
  /\ u \in ctrl \cap home
  /\ age[u] >= 1
  /\ hs' = [hs EXCEPT ![z] =
       IF ReadInfoOK(u) /\ \E k \in TicketsOf(cfg[u].task) : k.sec = "admin"
       THEN Attached("poll", u, cfg[u].task)
       ELSE Attached("zombie", u, NoTask)]
  /\ UNCHANGED <<store, history>>

(* It could not be opened: removed once it is old enough, without looking  *)
(* for processes.                                                          *)
JanitorRemoves(z) ==
  /\ At(z, "zombie")
  /\ IF hs[z].uid \in ctrl /\ age[hs[z].uid] = 2
     THEN CleanPrisonerFiles(hs[z].uid)
     ELSE UNCHANGED store
  /\ Finish(z)
  /\ UNCHANGED history

(* A home without config.                                                  *)
JanitorOrphanHome(z, u) ==
  /\ ~KeepHomes
  /\ At(z, "idle")
  /\ u \in home
  /\ cfg[u].task = NoTask
  /\ age[u] >= 1
  /\ CleanPrisonerFiles(u)
  /\ UNCHANGED <<hs, history>>

-----------------------------------------------------------------------------
(* Time and failures                                                       *)

(* Steps that follow each other with no wait between them, and the loops   *)
(* that Jail::run ends at maxtime.                                         *)
Brief == {"create", "extra", "compiler", "launchCompiler", "saveCompilation",
          "compiled", "runner", "launch", "saveExecution", "browser",
          "mark", "check", "remove"}
Limited == Brief \cup {"compiling", "waitMonitor", "running", "ran", "kill"}

Tick(u) ==
  /\ u \in ctrl \cup home
  /\ age[u] < 2
  /\ Timely => \A h \in Handlers :
       hs[h].uid = u => hs[h].pc \notin (IF age[u] = 0 THEN Brief ELSE Limited)
  /\ age' = [age EXCEPT ![u] = @ + 1]
  /\ UNCHANGED <<ctrl, home, prog, cfg, comp, exec, tickets, procs, hs, history>>

Crash(h) ==
  /\ Live(h)
  /\ Finish(h)
  /\ UNCHANGED <<store, history>>

-----------------------------------------------------------------------------
TaskStep(t) ==
  \/ Create(t) \/ SaveFiles(t) \/ ExtraInfo(t) \/ RegisterCompiler(t)
  \/ SaveCompilation(t) \/ Compiled(t) \/ WaitMonitor(t) \/ SaveExecution(t)

RunStep(h) ==
  \/ RegisterRunner(h) \/ Launch(h) \/ LoopEnds(h)
  \/ LoopWarns(h) \/ LoopKills(h) \/ LoopThrows(h)

PollStep(h) == ReadState(h) \/ Decide(h)

ExecuteStep(h) == ExecuteEnds(h) \/ ExecuteLeaves(h)

AdminStep(h) == GetResult(h) \/ Update(h) \/ VisitDecides(h) \/ VisitEnds(h)

CleanStep(h) == Mark(h) \/ Kill(h) \/ Check(h) \/ Remove(h)

JanitorVisit(z, u) == JanitorNoHome(z, u) \/ JanitorOpens(z, u) \/ JanitorOrphanHome(z, u)

Next ==
  \/ \E t \in Tasks, u \in Uids :
       Request(t, u) \/ RequestSkipsHome(t, u) \/ RequestFails(t, u)
  \/ \E t \in Tasks, u \in Uids : ProgramBuilds(t, u) \/ ProgramEnds(t, u)
  \/ \E t \in Tasks : TaskStep(t)
  \/ \E h \in Tasks \cup Executors : RunStep(h)
  \/ \E h \in Monitors, k \in tickets : OpenMonitor(h, k)
  \/ \E h \in Executors, k \in tickets : OpenExecute(h, k)
  \/ \E h \in Admins, k \in tickets :
       \/ OpenRunning(h, k) \/ OpenStop(h, k) \/ OpenGetResult(h, k)
       \/ OpenUpdate(h, k) \/ OpenVisit(h, k)
  \/ \E h \in Handlers : PollStep(h) \/ CleanStep(h)
  \/ \E h \in Monitors :
       ClientCloses(h) \/ ClientSends(h) \/ MonitorTimeout(h) \/ PassthroughTicket(h)
  \/ \E h \in Executors : ExecuteGivesUp(h) \/ ExecuteStep(h)
  \/ \E h \in Admins : AdminStep(h)
  \/ \E z \in Janitors, u \in Uids : JanitorVisit(z, u)
  \/ \E z \in Janitors : JanitorRemoves(z)
  \/ \E u \in Uids : Tick(u)
  \/ \E h \in CanCrash : Crash(h)

Spec == Init /\ [][Next]_vars

(* The kernel runs every process; a lost process is one that crashed.  The *)
(* janitor visits every directory each time it runs, time passes, and a    *)
(* monitor heeds its timeout.                                              *)
Fairness ==
  /\ \A t \in Tasks : WF_vars(TaskStep(t))
  /\ \A h \in Tasks \cup Executors : WF_vars(RunStep(h))
  /\ \A h \in Handlers : WF_vars(PollStep(h)) /\ WF_vars(CleanStep(h))
  /\ \A h \in Monitors : WF_vars(PassthroughTicket(h)) /\ SF_vars(MonitorTimeout(h))
  /\ \A h \in Executors : WF_vars(ExecuteStep(h))
  /\ \A h \in Admins : WF_vars(AdminStep(h))
  /\ \A h \in Executors : SF_vars(ExecuteGivesUp(h))
  /\ \A z \in Janitors, u \in Uids : SF_vars(JanitorVisit(z, u))
  /\ \A z \in Janitors : WF_vars(JanitorRemoves(z))
  /\ \A u \in Uids : WF_vars(Tick(u))

FairSpec == Spec /\ Fairness

-----------------------------------------------------------------------------
(* Properties                                                              *)

(* A ticket file always leads to the task it was made for, and never to a  *)
(* task that is being cleaned: cleanTask() and cleanPrisonerFilesLocked()  *)
(* remove the tickets before the uid can be given to another task.         *)
TicketsLeadToTheirTask ==
  \A k \in tickets : cfg[k.uid].task = k.task /\ ~cfg[k.uid].cleaning

(* A process that works for a task never finds another task under its uid: *)
(* setCompiler, setRunner, setCompilationOutput, getResult and cleanTask   *)
(* act on the task the process was started for or fail.                    *)
HandlersMeetTheirTask ==
  \A h \in Handlers : Live(h) /\ hs[h].task # NoTask =>
    cfg[hs[h].uid].task \in {NoTask, hs[h].task}

(* cleanTask() stops the processes of a task before the uid is free again: *)
(* none of them runs beside the next task that selectPrisoner() gives the  *)
(* uid to.                                                                 *)
ForeignProcesses(u) ==
  IF cfg[u].task # NoTask THEN procs[u] \ {cfg[u].task}
  ELSE IF \E t \in Tasks : At(t, "create") /\ hs[t].uid = u THEN procs[u]
  ELSE {}

NoForeignProcess == \A u \in Uids : ForeignProcesses(u) = {}

(* The one way a program outlives its task, unless the janitor removes a   *)
(* task whose processes are still there: it was forked after cleanTask()   *)
(* had marked the task, in the window between setCompiler() or setRunner() *)
(* and the fork.                                                           *)
OnlyLateLaunchesSurvive == \A u \in Uids : ForeignProcesses(u) \subseteq late

(* What "compilation" and "execution" hold was written by the task that    *)
(* owns the uid, and an execution is never there without its compilation.  *)
ResultsBelongToTask ==
  \A u \in Uids :
    /\ comp[u] \in {NoTask, cfg[u].task}
    /\ exec[u] \in {NoTask, comp[u]}

(* A client that was told "retrieve:" finds its result and its ticket      *)
(* until it takes the result, stops the task or lets its time run out,     *)
(* even if it closes the monitor first.                                    *)
RetrieveHasResult ==
  \A h \in Monitors :
    /\ Live(h)
    /\ hs[h].seen = "retrieve"
    /\ hs[h].task \notin released
    => /\ comp[hs[h].uid] = hs[h].task
       /\ cfg[hs[h].uid].runner # NoPid => exec[hs[h].uid] = hs[h].task
       /\ \E k \in tickets : k.task = hs[h].task /\ k.sec = "admin"

(* Once CLEANING=1 is in the config nothing else is written there: no      *)
(* registration that was under way brings the task back.                   *)
CleaningIsFinal ==
  [][\A u \in Uids : cfg[u].cleaning => cfg'[u] \in {cfg[u], NoConfig}]_vars

(* A pid registered in the config stays until the task is removed: no      *)
(* process takes the place of the compiler, the runner or the monitor.     *)
RegistrationsAreFinal ==
  [][\A u \in Uids : cfg[u].task # NoTask /\ cfg'[u].task # NoTask =>
       \A f \in {"task", "compiler", "runner", "monitor"} :
         cfg[u][f] = NoPid \/ cfg'[u][f] = cfg[u][f]]_vars

(* The states a monitor announces to its client never go back: not after   *)
(* retrieve to running, not after running to beforeRunning.                *)
StateRank == [prestarting |-> 0, starting |-> 1, compiling |-> 2, beforeRunning |-> 3,
              running |-> 4, retrieve |-> 5, stopped |-> 6]

AnnouncedStatesAdvance ==
  [][\A h \in Monitors : Live(h) /\ hs'[h].pc # "done" =>
       StateRank[hs'[h].seen] >= StateRank[hs[h].seen]]_vars

(* What is left of a task under its uid, and without one.                  *)
Unborn(t) == hs[t].pc \in {"idle", "create"}

Result(u) ==
  IF comp[u] = NoTask THEN "none"
  ELSE IF exec[u] = NoTask THEN "compilation" ELSE "execution"

LifeAt(u) ==
  [phase |-> IF cfg[u].cleaning THEN "condemned" ELSE "open",
   compiler |-> cfg[u].compiler, runner |-> cfg[u].runner, monitor |-> cfg[u].monitor,
   web |-> cfg[u].http, result |-> Result(u)]

LifeWithout(t) ==
  [phase |-> IF Unborn(t) THEN "new" ELSE "gone",
   compiler |-> NoPid, runner |-> NoPid, monitor |-> NoPid, web |-> FALSE, result |-> "none"]

LifeOf(t) ==
  IF \E u \in Uids : cfg[u].task = t
  THEN LifeAt(CHOOSE u \in Uids : cfg[u].task = t)
  ELSE LifeWithout(t)

(* A task is asked for, compiled, run, watched, published, fetched from,   *)
(* condemned and removed as TaskLife says: no process revives it, repeats  *)
(* or skips a part of it or touches another task, also when one task       *)
(* follows another under the same uid, and it goes only after cleanTask()  *)
(* has marked it.                                                          *)
Life == INSTANCE TaskLife WITH life <- [t \in Tasks |-> LifeOf(t)]
TaskLifeSpec == Life!Spec

(* A task whose compiler was registered is removed in the end, whatever    *)
(* processes crash and whether or not a client ever comes.                 *)
CompiledTasksAreRemoved ==
  \A u \in Uids : cfg[u].compiler # NoPid ~> cfg[u].task = NoTask

(* Every task is removed in the end.                                       *)
EveryTaskIsRemoved ==
  \A u \in Uids : cfg[u].task # NoTask ~> cfg[u].task = NoTask
=============================================================================
