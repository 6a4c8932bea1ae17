----------------------------- MODULE JailProofs -----------------------------
(***************************************************************************)
(* Theorems about module JailCommands, for any number of uids, requests    *)
(* and processes: types; then tickets, marked tasks and the tasks that     *)
(* processes find under their uid, when selectPrisoner() does not draw a   *)
(* uid that a process of an earlier task still works with and no process   *)
(* is delayed for as long as the timeouts.                                 *)
(***************************************************************************)
EXTENDS JailCommands, TLAPS

(* A process at work has a uid and, but for a janitor that could not open  *)
(* the task, a task.                                                       *)
Working == Pcs \ {"idle", "done"}

HandlersAreAttached ==
  \A h \in Handlers :
    /\ hs[h].pc \in Working => hs[h].uid \in Uids
    /\ hs[h].pc \in Working \ {"zombie"} => hs[h].task \in Tasks

TInv == TypeOK /\ HandlersAreAttached

HsOK == hs \in [Handlers -> HandlerState] /\ HandlersAreAttached

-----------------------------------------------------------------------------
(* What moving a process preserves.                                        *)

LEMMA MoveOK ==
  ASSUME HsOK, NEW h \in Handlers, NEW r \in HandlerState,
         r.pc \in Working => r.uid \in Uids,
         r.pc \in Working \ {"zombie"} => r.task \in Tasks,
         hs' = [hs EXCEPT ![h] = r]
  PROVE HsOK'
  BY DEF HsOK, HandlersAreAttached

(* The state of a process that goes on with the same uid and task.         *)
LEMMA SameTaskOK ==
  ASSUME HsOK, NEW h \in Handlers, hs[h].pc \in Working \ {"zombie"},
         NEW r \in HandlerState, r.uid = hs[h].uid, r.task = hs[h].task,
         hs' = [hs EXCEPT ![h] = r]
  PROVE HsOK'
  BY MoveOK DEF HsOK, HandlersAreAttached

LEMMA NoSnapshotOK == NoSnapshot \in Snapshot
  BY StoreAssumption DEF NoSnapshot, Snapshot, NoConfig, NewConfig, Config

LEMMA GotoOK ==
  ASSUME HsOK, NEW h \in Handlers, NEW l \in Pcs, Goto(h, l),
         hs[h].pc \in Working \ {"zombie"}
  PROVE HsOK'
<1> DEFINE r == [hs[h] EXCEPT !.pc = l]
<1>1. r \in HandlerState /\ r.uid = hs[h].uid /\ r.task = hs[h].task
  BY DEF HsOK, HandlerState
<1>2. hs' = [hs EXCEPT ![h] = r]
  BY DEF Goto
<1> HIDE DEF r
<1>3. QED
  BY <1>1, <1>2, SameTaskOK

LEMMA AtPcOK ==
  ASSUME NEW l \in Pcs
  PROVE AtPc(l) \in HandlerState /\ AtPc(l).pc = l
  BY NoSnapshotOK DEF AtPc, HandlerState, ProcessStates

LEMMA FinishOK ==
  ASSUME HsOK, NEW h \in Handlers, Finish(h)
  PROVE HsOK'
  BY AtPcOK, MoveOK DEF Working, Finish, Pcs

LEMMA AttachedOK ==
  ASSUME HsOK, NEW h \in Handlers, NEW l \in Working, NEW u \in Uids,
         NEW t \in Tasks \cup {NoTask}, l # "zombie" => t \in Tasks,
         hs' = [hs EXCEPT ![h] = Attached(l, u, t)]
  PROVE HsOK'
<1>1. AtPc(l) \in HandlerState /\ AtPc(l).pc = l
  BY AtPcOK DEF Working
<1>2. /\ Attached(l, u, t) \in HandlerState
      /\ Attached(l, u, t).pc = l
      /\ Attached(l, u, t).uid = u
      /\ Attached(l, u, t).task = t
  BY <1>1 DEF Attached, HandlerState
<1>3. QED
  BY <1>2, MoveOK

LEMMA CleanOK ==
  ASSUME HsOK, NEW h \in Handlers, NEW l \in {"done", "mark", "ending"}, Clean(h, l),
         hs[h].pc \in Working \ {"zombie"}
  PROVE HsOK'
<1> DEFINE r == [hs[h] EXCEPT !.pc = "mark", !.next = l, !.snap = NoSnapshot]
<1>1. r \in HandlerState /\ r.uid = hs[h].uid /\ r.task = hs[h].task
  BY ZenonT(60), NoSnapshotOK DEF HsOK, HandlerState, Pcs
<1>2. hs' = [hs EXCEPT ![h] = r]
  BY DEF Clean
<1> HIDE DEF r
<1>3. QED
  BY <1>1, <1>2, SameTaskOK

LEMMA ContinueOK ==
  ASSUME HsOK, NEW h \in Handlers, NEW l \in Pcs, Continue(h, l),
         hs[h].pc \in Working \ {"zombie"}
  PROVE HsOK'
<1> DEFINE r == [hs[h] EXCEPT !.pc = l, !.snap = NoSnapshot]
<1>1. r \in HandlerState /\ r.uid = hs[h].uid /\ r.task = hs[h].task
  BY NoSnapshotOK DEF HsOK, HandlerState
<1>2. hs' = [hs EXCEPT ![h] = r]
  BY DEF Continue
<1> HIDE DEF r
<1>3. QED
  BY <1>1, <1>2, SameTaskOK

LEMMA ReturnFromCleanOK ==
  ASSUME HsOK, NEW h \in Handlers, ReturnFromClean(h),
         hs[h].pc \in Working \ {"zombie"}
  PROVE HsOK'
<1>1. CASE hs[h].next = "done"
  BY <1>1, FinishOK DEF ReturnFromClean
<1>2. CASE hs[h].next # "done"
  <2> DEFINE r == [hs[h] EXCEPT !.pc = hs[h].next, !.next = "done"]
  <2>1. r \in HandlerState /\ r.uid = hs[h].uid /\ r.task = hs[h].task
    BY ZenonT(60) DEF HsOK, HandlerState, Pcs
  <2>2. hs' = [hs EXCEPT ![h] = r]
    BY <1>2 DEF ReturnFromClean
  <2> HIDE DEF r
  <2>3. QED
    BY <2>1, <2>2, SameTaskOK
<1>3. QED
  BY <1>1, <1>2

(* A process at a pc the action names is at work.                          *)
LEMMA AttachedAt ==
  ASSUME HsOK, NEW h \in Handlers, hs[h].pc \in Working \ {"zombie"}
  PROVE hs[h].uid \in Uids /\ hs[h].task \in Tasks
  BY DEF HsOK, HandlersAreAttached, Working

-----------------------------------------------------------------------------
(* What the operations of the store preserve.                              *)

LEMMA NewConfigOK ==
  ASSUME NEW t \in Tasks \cup {NoTask}
  PROVE NewConfig(t) \in Config
  BY DEF NewConfig, Config

LEMMA CreateTaskOK ==
  ASSUME StoreTypeOK, NEW t \in Tasks, NEW u \in Uids, CreateTask(t, u)
  PROVE StoreTypeOK'
  BY NewConfigOK DEF StoreTypeOK, CreateTask, NewTickets

LEMMA SetCompilerOK ==
  ASSUME StoreTypeOK, NEW p \in Tasks, NEW u \in Uids, SetCompiler(p, u)
  PROVE StoreTypeOK'
<1>1. [cfg[u] EXCEPT !.compiler = p] \in Config
  BY SMTT(30) DEF StoreTypeOK, Config
<1>2. QED
  BY <1>1 DEF StoreTypeOK, SetCompiler

LEMMA SetRunnerOK ==
  ASSUME StoreTypeOK, NEW p \in Tasks \cup Executors, NEW u \in Uids, SetRunner(p, u)
  PROVE StoreTypeOK'
<1>1. [cfg[u] EXCEPT !.runner = p] \in Config
  BY SMTT(30) DEF StoreTypeOK, Config
<1>2. QED
  BY <1>1 DEF StoreTypeOK, SetRunner

LEMMA UseTicketOK ==
  ASSUME StoreTypeOK, NEW k \in tickets, NEW p,
         k.sec = "monitor" => p \in Monitors, UseTicket(k, p)
  PROVE StoreTypeOK'
<1>1. k.uid \in Uids
  BY DEF StoreTypeOK, Ticket
<1>2. p \in Monitors => [cfg[k.uid] EXCEPT !.monitor = p] \in Config
  BY <1>1 DEF StoreTypeOK, Config
<1>3. tickets' \subseteq Ticket
  BY DEF StoreTypeOK, UseTicket
<1> DEFINE new == k.sec = "monitor" /\ ReadInfoOK(k.uid) /\ cfg[k.uid].monitor = NoPid
<1>4. CASE new
  <2>1. [cfg[k.uid] EXCEPT !.monitor = p] \in Config
    BY <1>2, <1>4
  <2>2. cfg' \in [Uids -> Config]
    BY <1>1, <1>4, <2>1 DEF StoreTypeOK, UseTicket
  <2>3. QED
    BY <1>3, <2>2 DEF StoreTypeOK, UseTicket
<1>5. CASE ~new
  BY <1>3, <1>5 DEF StoreTypeOK, UseTicket
<1>6. QED
  BY <1>4, <1>5

LEMMA AddPassthroughTicketOK ==
  ASSUME StoreTypeOK, NEW u \in Uids, ReadInfoOK(u), AddPassthroughTicket(u)
  PROVE StoreTypeOK'
<1>1. [cfg[u] EXCEPT !.http = TRUE] \in Config
  BY ZenonT(60) DEF StoreTypeOK, Config
<1>2. cfg[u].task \in Tasks
  BY DEF StoreTypeOK, Config, ReadInfoOK
<1>3. [task |-> cfg[u].task, sec |-> "httppassthrough", uid |-> u] \in Ticket
  BY <1>2 DEF Ticket, Security
<1>4. QED
  BY <1>1, <1>3 DEF StoreTypeOK, AddPassthroughTicket

LEMMA MarkCleaningOK ==
  ASSUME StoreTypeOK, NEW t, NEW u \in Uids, MarkCleaning(u, t)
  PROVE StoreTypeOK'
<1>1. [cfg[u] EXCEPT !.cleaning = TRUE] \in Config
  BY ZenonT(60) DEF StoreTypeOK, Config
<1>2. tickets' \subseteq Ticket
  BY DEF StoreTypeOK, MarkCleaning
<1>3. CASE cfg[u].task # NoTask
  <2>1. cfg' \in [Uids -> Config]
    BY <1>1, <1>3 DEF StoreTypeOK, MarkCleaning
  <2>2. age' \in [Uids -> 0 .. 2]
    BY <1>3 DEF StoreTypeOK, MarkCleaning
  <2>3. QED
    BY <1>2, <2>1, <2>2 DEF StoreTypeOK, MarkCleaning
<1>4. CASE cfg[u].task = NoTask
  BY <1>2, <1>4 DEF StoreTypeOK, MarkCleaning
<1>5. QED
  BY <1>3, <1>4

LEMMA StopPrisonerProcessOK ==
  ASSUME StoreTypeOK, NEW u \in Uids, NEW soft \in BOOLEAN,
         StopPrisonerProcess(u, soft)
  PROVE StoreTypeOK'
  BY DEF StoreTypeOK, StopPrisonerProcess

LEMMA CleanPrisonerFilesOK ==
  ASSUME StoreTypeOK, NEW u \in Uids, CleanPrisonerFiles(u)
  PROVE StoreTypeOK'
<1>1. NoConfig \in Config
  BY NewConfigOK DEF NoConfig
<1>2. QED
  BY <1>1 DEF StoreTypeOK, CleanPrisonerFiles

LEMMA UnchangedStoreOK ==
  ASSUME StoreTypeOK, UNCHANGED store
  PROVE StoreTypeOK'
  BY DEF StoreTypeOK, store

-----------------------------------------------------------------------------
(* Every action preserves TInv.                                            *)

HistoryOK == late \subseteq Tasks /\ released \subseteq Tasks

LEMMA TInvParts ==
  /\ TInv => StoreTypeOK /\ HsOK /\ HistoryOK
  /\ (StoreTypeOK /\ HsOK /\ HistoryOK)' => TInv'
  BY DEF TInv, TypeOK, HsOK, HistoryOK

(* The requests and their children.                                        *)
LEMMA TaskStepOK ==
  ASSUME TInv, NEW t \in Tasks, TaskStep(t)
  PROVE TInv'
<1> USE TInvParts
<1>h. t \in Handlers /\ HistoryOK'
  BY DEF TaskStep, Create, SaveFiles, ExtraInfo, RegisterCompiler, SaveCompilation,
         Compiled, WaitMonitor, SaveExecution, history, HistoryOK, Handlers
<1>1. CASE Create(t)
  <2>1. hs[t].uid \in Uids /\ hs[t].pc \in Working \ {"zombie"}
    BY <1>h, <1>1, AttachedAt DEF Create, At, Working, Pcs
  <2>2. StoreTypeOK'
    BY <1>1, <2>1, CreateTaskOK DEF Create
  <2>3. HsOK'
    BY <1>h, <1>1, <2>1, GotoOK, FinishOK DEF Create, Pcs
  <2>4. QED
    BY <1>h, <2>2, <2>3
<1>2. CASE SaveFiles(t)
  BY <1>h, <1>2, GotoOK, FinishOK, UnchangedStoreOK DEF SaveFiles, At, Working, Pcs
<1>3. CASE ExtraInfo(t)
  BY <1>h, <1>3, GotoOK, FinishOK, UnchangedStoreOK DEF ExtraInfo, At, Working, Pcs
<1>4. CASE RegisterCompiler(t)
  <2>1. hs[t].uid \in Uids /\ hs[t].pc \in Working \ {"zombie"}
    BY <1>h, <1>4, AttachedAt DEF RegisterCompiler, At, Working, Pcs
  <2>2. StoreTypeOK'
    BY <1>4, <2>1, SetCompilerOK, UnchangedStoreOK DEF RegisterCompiler
  <2>3. HsOK'
    BY <1>h, <1>4, <2>1, GotoOK, FinishOK DEF RegisterCompiler, Pcs
  <2>4. QED
    BY <1>h, <2>2, <2>3
<1>5. CASE SaveCompilation(t)
  <2>1. hs[t].uid \in Uids /\ hs[t].pc \in Working \ {"zombie"}
    BY <1>h, <1>5, AttachedAt DEF SaveCompilation, At, Working, Pcs
  <2>2. StoreTypeOK'
    BY <1>5, <2>1, UnchangedStoreOK
       DEF SaveCompilation, SetCompilationOutput, StoreTypeOK
  <2>3. HsOK'
    BY <1>h, <1>5, <2>1, GotoOK, FinishOK DEF SaveCompilation, Pcs
  <2>4. QED
    BY <1>h, <2>2, <2>3
<1>6. CASE Compiled(t)
  BY <1>h, <1>6, GotoOK, FinishOK, UnchangedStoreOK DEF Compiled, At, Working, Pcs
<1>7. CASE WaitMonitor(t)
  BY <1>h, <1>7, FinishOK, UnchangedStoreOK DEF WaitMonitor
<1>8. CASE SaveExecution(t)
  <2>1. hs[t].uid \in Uids /\ hs[t].pc \in Working \ {"zombie"}
    BY <1>h, <1>8, AttachedAt DEF SaveExecution, At, Working, Pcs
  <2>2. StoreTypeOK'
    BY <1>8, <2>1, UnchangedStoreOK
       DEF SaveExecution, SetExecutionOutput, StoreTypeOK
  <2>3. HsOK'
    BY <1>h, <1>8, FinishOK DEF SaveExecution
  <2>4. QED
    BY <1>h, <2>2, <2>3
<1>9. QED
  BY <1>1, <1>2, <1>3, <1>4, <1>5, <1>6, <1>7, <1>8 DEF TaskStep

(* Requests that look for a uid, and programs.                             *)
LEMMA RequestStepOK ==
  ASSUME TInv, NEW t \in Tasks, NEW u \in Uids,
         \/ Request(t, u) \/ RequestSkipsHome(t, u) \/ RequestFails(t, u)
         \/ ProgramBuilds(t, u) \/ ProgramEnds(t, u)
  PROVE TInv'
<1> USE TInvParts
<1>h. t \in Handlers
  BY DEF Handlers
<1>1. CASE Request(t, u)
  <2>1. StoreTypeOK' /\ HistoryOK'
    BY <1>1 DEF Request, SelectPrisoner, StoreTypeOK, HistoryOK, history
  <2>2. HsOK'
    BY <1>h, <1>1, AttachedOK DEF Request, Working, Pcs
  <2>3. QED
    BY <2>1, <2>2
<1>2. CASE RequestSkipsHome(t, u)
  BY <1>2 DEF RequestSkipsHome, SelectOrphanHome, StoreTypeOK, HsOK, HandlersAreAttached,
              HistoryOK, history
<1>3. CASE RequestFails(t, u)
  <2>1. StoreTypeOK' /\ HistoryOK'
    BY <1>3 DEF RequestFails, SelectFails, StoreTypeOK, HistoryOK, history
  <2>2. HsOK'
    BY <1>h, <1>3, FinishOK DEF RequestFails
  <2>3. QED
    BY <2>1, <2>2
<1>4. CASE ProgramBuilds(t, u)
  BY <1>4 DEF ProgramBuilds, StoreTypeOK, HsOK, HandlersAreAttached, HistoryOK, history
<1>5. CASE ProgramEnds(t, u)
  BY <1>5 DEF ProgramEnds, StoreTypeOK, HsOK, HandlersAreAttached, HistoryOK, history
<1>6. QED
  BY <1>1, <1>2, <1>3, <1>4, <1>5

(* The run loops.                                                          *)
LEMMA RunStepOK ==
  ASSUME TInv, NEW h \in Tasks \cup Executors, RunStep(h)
  PROVE TInv'
<1> USE TInvParts
<1>h. h \in Handlers
  BY DEF Handlers
<1>w. /\ hs[h].pc \in Working \ {"zombie"}
      /\ hs[h].uid \in Uids
      /\ hs[h].task \in Tasks
  <2>1. hs[h].pc \in Working \ {"zombie"}
    BY DEF RunStep, RegisterRunner, Launch, LoopOf, LoopEnds, LoopKills, LoopThrows,
           InLoop, At, Working, Pcs, LoopWarns
  <2>2. QED
    BY <1>h, <2>1, AttachedAt
<1>a. AfterLoop(h) \in Pcs
  BY DEF AfterLoop, Pcs
<1>1. CASE RegisterRunner(h)
  <2>1. StoreTypeOK' /\ HistoryOK'
    BY <1>w, <1>1, SetRunnerOK, UnchangedStoreOK DEF RegisterRunner, HistoryOK, history
  <2>2. HsOK'
    BY <1>h, <1>w, <1>1, GotoOK, FinishOK DEF RegisterRunner, Pcs
  <2>3. QED
    BY <2>1, <2>2
<1>2. CASE Launch(h)
  <2>1. StoreTypeOK' /\ HistoryOK'
    BY <1>w, <1>2 DEF Launch, StoreTypeOK, HistoryOK
  <2>2. hs[h].pc \in DOMAIN LoopOf => LoopOf[hs[h].pc] \in Pcs
    BY DEF LoopOf, Pcs
  <2>3. HsOK'
    BY <1>h, <1>w, <1>a, <1>2, <2>2, GotoOK DEF Launch
  <2>4. QED
    BY <2>1, <2>3
<1>3. CASE LoopEnds(h)
  BY <1>h, <1>w, <1>a, <1>3, GotoOK, UnchangedStoreOK DEF LoopEnds, HistoryOK, history
<1>4. CASE LoopWarns(h)
  BY <1>w, <1>4, StopPrisonerProcessOK
     DEF LoopWarns, HsOK, HandlersAreAttached, HistoryOK, history
<1>k. CASE LoopKills(h)
  BY <1>h, <1>w, <1>a, <1>k, GotoOK, StopPrisonerProcessOK DEF LoopKills, HistoryOK, history
<1>5. CASE LoopThrows(h)
  BY <1>h, <1>w, <1>a, <1>5, GotoOK, FinishOK, UnchangedStoreOK
     DEF LoopThrows, HistoryOK, history
<1>6. QED
  BY <1>1, <1>2, <1>3, <1>4, <1>k, <1>5 DEF RunStep

(* A ticket is opened.                                                     *)
LEMMA OpenOK ==
  ASSUME TInv, NEW h \in Handlers, NEW k \in tickets, NEW l \in Working \ {"zombie"},
         k.sec = "monitor" => h \in Monitors, Open(h, k, l)
  PROVE StoreTypeOK' /\ HsOK'
<1> USE TInvParts
<1>1. StoreTypeOK'
  BY UseTicketOK DEF Open
<1>2. k.uid \in Uids /\ k.task \in Tasks
  BY DEF StoreTypeOK, Ticket
<1>3. HsOK'
  BY <1>2, AttachedOK, FinishOK DEF Open
<1>4. QED
  BY <1>1, <1>3

LEMMA OpenStepOK ==
  ASSUME TInv, NEW h \in Handlers, NEW k \in tickets,
         \/ h \in Monitors /\ OpenMonitor(h, k)
         \/ OpenExecute(h, k) \/ OpenRunning(h, k) \/ OpenStop(h, k)
         \/ OpenGetResult(h, k) \/ OpenUpdate(h, k) \/ OpenVisit(h, k)
  PROVE TInv'
<1> USE TInvParts
<1>1. PICK l \in Working \ {"zombie"} : Open(h, k, l)
  BY DEF OpenMonitor, OpenExecute, OpenRunning, OpenStop, OpenGetResult, OpenUpdate,
         OpenVisit, Working, Pcs
<1>2. k.sec = "monitor" => h \in Monitors
  BY DEF OpenMonitor, OpenExecute, OpenRunning, OpenStop, OpenGetResult, OpenUpdate,
         OpenVisit
<1>3. HistoryOK'
  BY DEF OpenMonitor, OpenExecute, OpenRunning, OpenStop, OpenGetResult, OpenUpdate,
         OpenVisit, HistoryOK, history, StoreTypeOK, Ticket
<1>4. QED
  BY <1>1, <1>2, <1>3, OpenOK

(* getState() and what each caller does with its answer.                   *)
LEMMA ObservedOK ==
  ASSUME NEW h
  PROVE Observed(h) \in ProcessStates \cup {"expired"}
  BY DEF Observed, GetState, NoRunnerState, DeadRunnerState, ProcessStates

LEMMA PollStepOK ==
  ASSUME TInv, NEW h \in Handlers, PollStep(h)
  PROVE TInv'
<1> USE TInvParts
<1>w. /\ hs[h].pc \in Working \ {"zombie"}
      /\ hs[h].uid \in Uids
      /\ hs[h].task \in Tasks
  <2>1. hs[h].pc \in Working \ {"zombie"}
    BY DEF PollStep, ReadState, Decide, At, Working, Pcs
  <2>2. QED
    BY <2>1, AttachedAt
<1>1. CASE ReadState(h)
  <2> DEFINE s == [cfg |-> cfg[hs[h].uid], age |-> age[hs[h].uid]]
             r == [hs[h] EXCEPT !.pc = IF At(h, "poll") THEN "decide" ELSE "visited", !.snap = s]
  <2>1. s \in Snapshot
    BY <1>w DEF StoreTypeOK, Snapshot
  <2>2. r \in HandlerState /\ r.uid = hs[h].uid /\ r.task = hs[h].task
    <3> HIDE DEF s
    <3> QED BY ZenonT(60), <2>1 DEF HsOK, HandlerState, Pcs
  <2>3. hs' = [hs EXCEPT ![h] = r]
    BY <1>1 DEF ReadState
  <2> HIDE DEF r
  <2>4. HsOK'
    BY <1>w, <2>2, <2>3, SameTaskOK
  <2>5. QED
    BY <1>1, <2>4, UnchangedStoreOK DEF ReadState, HistoryOK, history
<1>2. CASE Decide(h)
  <2>1. StoreTypeOK' /\ HistoryOK'
    BY <1>w, <1>2, UnchangedStoreOK DEF Decide, HistoryOK
  <2>2. CASE MonitorDecides(h)
    <3>1. CASE MonitorKeepsWatching(h)
      <4>1. PICK l \in {"poll", "browser"} :
              hs' = [hs EXCEPT ![h] = [@ EXCEPT !.pc = l, !.seen = Observed(h),
                                                !.snap = NoSnapshot]]
        BY <2>2, <3>1 DEF MonitorDecides
      <4> DEFINE r == [hs[h] EXCEPT !.pc = l, !.seen = Observed(h), !.snap = NoSnapshot]
      <4>2. Observed(h) \in ProcessStates
        BY <3>1, ObservedOK DEF MonitorKeepsWatching
      <4>3. r \in HandlerState /\ r.uid = hs[h].uid /\ r.task = hs[h].task
        BY ZenonT(60), <4>2, NoSnapshotOK DEF HsOK, HandlerState, Pcs
      <4>4. hs' = [hs EXCEPT ![h] = r]
        BY <4>1
      <4> HIDE DEF r
      <4>5. HsOK'
        BY <1>w, <4>3, <4>4, SameTaskOK
      <4>6. QED
        BY <2>1, <4>5
    <3>2. CASE ~MonitorKeepsWatching(h)
      BY <1>w, <2>1, <2>2, <3>2, CleanOK DEF MonitorDecides
    <3>3. QED
      BY <3>1, <3>2
  <2>3. CASE ExecuteDecides(h)
    BY <1>w, <2>1, <2>3, ContinueOK, CleanOK, FinishOK DEF ExecuteDecides, Pcs
  <2>4. CASE RunningDecides(h)
    BY <1>w, <2>1, <2>4, CleanOK, FinishOK DEF RunningDecides
  <2>5. CASE JanitorDecides(h)
    BY <1>w, <2>1, <2>5, CleanOK, FinishOK DEF JanitorDecides
  <2>6. QED
    BY <1>2, <2>2, <2>3, <2>4, <2>5 DEF Decide
<1>3. QED
  BY <1>1, <1>2 DEF PollStep

(* The other events of a monitor.                                          *)
LEMMA MonitorEventOK ==
  ASSUME TInv, NEW h \in Monitors,
         ClientCloses(h) \/ ClientSends(h) \/ MonitorTimeout(h) \/ PassthroughTicket(h)
  PROVE TInv'
<1> USE TInvParts
<1>h. h \in Handlers
  BY DEF Handlers
<1>w. /\ hs[h].pc \in Working \ {"zombie"}
      /\ hs[h].uid \in Uids
      /\ hs[h].task \in Tasks
  <2>1. hs[h].pc \in Working \ {"zombie"}
    BY DEF ClientCloses, ClientSends, MonitorTimeout, Watching, PassthroughTicket, At,
           Working, Pcs
  <2>2. QED
    BY <1>h, <2>1, AttachedAt
<1>1. CASE ClientCloses(h) \/ ClientSends(h) \/ MonitorTimeout(h)
  <2>1. StoreTypeOK' /\ HistoryOK'
    BY <1>w, <1>1, UnchangedStoreOK
       DEF ClientCloses, ClientSends, MonitorTimeout, HistoryOK, history
  <2>2. HsOK'
    BY <1>h, <1>w, <1>1, CleanOK DEF ClientCloses, ClientSends, MonitorTimeout
  <2>3. QED
    BY <2>1, <2>2
<1>2. CASE PassthroughTicket(h)
  <2>1. StoreTypeOK' /\ HistoryOK'
    BY <1>w, <1>2, AddPassthroughTicketOK, UnchangedStoreOK
       DEF PassthroughTicket, HistoryOK, history
  <2>2. HsOK'
    BY <1>h, <1>w, <1>2, GotoOK, FinishOK DEF PassthroughTicket, Pcs
  <2>3. QED
    BY <2>1, <2>2
<1>3. QED
  BY <1>1, <1>2

(* The end of an execute websocket, getresult, update and visits.          *)
LEMMA ExecuteEventOK ==
  ASSUME TInv, NEW h \in Handlers,
         ExecuteGivesUp(h) \/ ExecuteStep(h) \/ AdminStep(h)
  PROVE TInv'
<1> USE TInvParts
<1>w. /\ hs[h].pc \in Working \ {"zombie"}
      /\ hs[h].uid \in Uids
      /\ hs[h].task \in Tasks
  <2>1. hs[h].pc \in Working \ {"zombie"}
    BY DEF ExecuteGivesUp, ExecuteStep, ExecuteEnds, ExecuteLeaves, AdminStep, GetResult,
           Update, VisitDecides, VisitEnds, At, Working, Pcs
  <2>2. QED
    BY <2>1, AttachedAt
<1>1. CASE ExecuteGivesUp(h)
  BY <1>1, FinishOK, UnchangedStoreOK DEF ExecuteGivesUp, HistoryOK, history
<1>2. CASE ExecuteEnds(h)
  <2>1. StoreTypeOK' /\ HistoryOK'
    BY <1>w, <1>2 DEF ExecuteEnds, StoreTypeOK, HistoryOK, history
  <2>2. HsOK'
    BY <1>w, <1>2, GotoOK, CleanOK DEF ExecuteEnds, Pcs
  <2>3. QED
    BY <2>1, <2>2
<1>3. CASE ExecuteLeaves(h)
  BY <1>w, <1>3, FinishOK, CleanOK, UnchangedStoreOK DEF ExecuteLeaves, HistoryOK, history
<1>4. CASE GetResult(h)
  <2>1. StoreTypeOK' /\ HistoryOK'
    BY <1>w, <1>4, UnchangedStoreOK DEF GetResult, TakeResult, StoreTypeOK, HistoryOK, store
  <2>2. HsOK'
    BY <1>4, FinishOK DEF GetResult
  <2>3. QED
    BY <2>1, <2>2
<1>5. CASE Update(h) \/ VisitEnds(h)
  BY <1>5, FinishOK, UnchangedStoreOK DEF Update, VisitEnds, HistoryOK, history
<1>6. CASE VisitDecides(h)
  <2>1. StoreTypeOK' /\ HistoryOK'
    BY <1>w, <1>6, UnchangedStoreOK DEF VisitDecides, HistoryOK
  <2>2. HsOK'
    BY <1>w, <1>6, ContinueOK, CleanOK, FinishOK DEF VisitDecides, Pcs
  <2>3. QED
    BY <2>1, <2>2
<1>7. QED
  BY <1>1, <1>2, <1>3, <1>4, <1>5, <1>6 DEF ExecuteStep, AdminStep

(* cleanTask().                                                            *)
LEMMA CleanStepOK ==
  ASSUME TInv, NEW h \in Handlers, CleanStep(h)
  PROVE TInv'
<1> USE TInvParts
<1>w. /\ hs[h].pc \in Working \ {"zombie"}
      /\ hs[h].uid \in Uids
      /\ HistoryOK'
  <2>1. hs[h].pc \in Working \ {"zombie"}
    BY DEF CleanStep, Mark, Kill, Check, Remove, At, Working, Pcs
  <2>2. HistoryOK'
    BY DEF CleanStep, Mark, Kill, Check, Remove, HistoryOK, history
  <2>3. QED
    BY <2>1, <2>2, AttachedAt
<1>1. CASE Mark(h)
  BY <1>w, <1>1, MarkCleaningOK, GotoOK DEF Mark, Pcs
<1>2. CASE Kill(h)
  BY <1>w, <1>2, StopPrisonerProcessOK, GotoOK DEF Kill, Pcs
<1>3. CASE Check(h)
  BY <1>w, <1>3, UnchangedStoreOK, GotoOK, ReturnFromCleanOK DEF Check, Pcs
<1>4. CASE Remove(h)
  BY <1>w, <1>4, CleanPrisonerFilesOK, ReturnFromCleanOK DEF Remove
<1>5. QED
  BY <1>1, <1>2, <1>3, <1>4 DEF CleanStep

(* The janitor.                                                            *)
LEMMA JanitorVisitOK ==
  ASSUME TInv, NEW z \in Janitors, NEW u \in Uids, JanitorVisit(z, u)
  PROVE TInv'
<1> USE TInvParts
<1>h. z \in Handlers /\ HistoryOK'
  BY DEF Handlers, JanitorVisit, JanitorNoHome, JanitorOpens, JanitorOrphanHome,
         HistoryOK, history
<1>1. CASE JanitorNoHome(z, u)
  BY <1>h, <1>1, CleanPrisonerFilesOK DEF JanitorNoHome, HsOK, HandlersAreAttached
<1>2. CASE JanitorOpens(z, u)
  <2>1. cfg[u].task \in Tasks \cup {NoTask}
    BY DEF StoreTypeOK, Config
  <2>2. CASE ReadInfoOK(u) /\ \E k \in TicketsOf(cfg[u].task) : k.sec = "admin"
    <3>1. cfg[u].task \in Tasks
      BY <2>1, <2>2 DEF ReadInfoOK
    <3>2. hs' = [hs EXCEPT ![z] = Attached("poll", u, cfg[u].task)]
      BY <1>2, <2>2 DEF JanitorOpens
    <3>3. HsOK'
      BY <1>h, <3>1, <3>2, AttachedOK DEF Working, Pcs
    <3>4. QED
      BY <1>h, <1>2, <3>3, UnchangedStoreOK DEF JanitorOpens
  <2>3. CASE ~(ReadInfoOK(u) /\ \E k \in TicketsOf(cfg[u].task) : k.sec = "admin")
    <3>1. hs' = [hs EXCEPT ![z] = Attached("zombie", u, NoTask)]
      BY <1>2, <2>3 DEF JanitorOpens
    <3>2. HsOK'
      BY <1>h, <3>1, AttachedOK DEF Working, Pcs
    <3>3. QED
      BY <1>h, <1>2, <3>2, UnchangedStoreOK DEF JanitorOpens
  <2>4. QED
    BY <2>2, <2>3
<1>3. CASE JanitorOrphanHome(z, u)
  BY <1>h, <1>3, CleanPrisonerFilesOK DEF JanitorOrphanHome, HsOK, HandlersAreAttached
<1>4. QED
  BY <1>1, <1>2, <1>3 DEF JanitorVisit

LEMMA JanitorRemovesOK ==
  ASSUME TInv, NEW z \in Janitors, JanitorRemoves(z)
  PROVE TInv'
<1> USE TInvParts
<1>1. z \in Handlers /\ HistoryOK' /\ hs[z].pc = "zombie"
  BY DEF Handlers, JanitorRemoves, HistoryOK, history, At
<1>2. hs[z].uid \in Uids
  BY <1>1 DEF HsOK, HandlersAreAttached, Working, Pcs
<1>3. StoreTypeOK'
  BY <1>2, CleanPrisonerFilesOK, UnchangedStoreOK DEF JanitorRemoves
<1>4. QED
  BY <1>1, <1>3, FinishOK DEF JanitorRemoves

(* Time and crashes.                                                       *)
LEMMA TickOK ==
  ASSUME TInv, NEW u \in Uids, Tick(u)
  PROVE TInv'
<1> USE TInvParts
<1>1. age' \in [Uids -> 0 .. 2]
  BY DEF Tick, StoreTypeOK
<1>2. QED
  BY <1>1 DEF Tick, StoreTypeOK, HsOK, HandlersAreAttached, HistoryOK, history

LEMMA CrashOK ==
  ASSUME TInv, NEW h \in CanCrash, Crash(h)
  PROVE TInv'
<1> USE TInvParts
<1>1. h \in Handlers
  BY HandlersAssumption
<1>2. QED
  BY <1>1, FinishOK, UnchangedStoreOK DEF Crash, HistoryOK, history

LEMMA TInvInit == Init => TInv
<1> SUFFICES ASSUME Init PROVE TInv
  OBVIOUS
<1>1. StoreTypeOK
  BY NewConfigOK DEF Init, StoreInit, StoreTypeOK, NoConfig
<1>2. AtPc("idle") \in HandlerState /\ AtPc("idle").pc = "idle"
  BY AtPcOK DEF Pcs
<1>3. hs \in [Handlers -> HandlerState] /\ HandlersAreAttached
  BY <1>2 DEF Init, HandlersAreAttached, Working
<1>4. QED
  BY <1>1, <1>3 DEF Init, TInv, TypeOK

LEMMA TInvNext == TInv /\ [Next]_vars => TInv'
<1> SUFFICES ASSUME TInv, [Next]_vars PROVE TInv'
  OBVIOUS
<1>1. CASE UNCHANGED vars
  BY <1>1 DEF vars, TInv, TypeOK, StoreTypeOK, HandlersAreAttached
<1>2. CASE Next
  <2>1. Monitors \cup Executors \cup Admins \subseteq Handlers
    BY DEF Handlers
  <2>2. QED
    BY <1>2, <2>1, RequestStepOK, TaskStepOK, RunStepOK, OpenStepOK, PollStepOK,
       CleanStepOK, MonitorEventOK, ExecuteEventOK, JanitorVisitOK, JanitorRemovesOK,
       TickOK, CrashOK DEF Next
<1>3. QED
  BY <1>1, <1>2

(* Every reachable state of the task store and of the processes that work  *)
(* on it is well-formed: no operation of processMonitor.cpp is ever called *)
(* for a process that has no uid.                                          *)
THEOREM JailTypeOK == Spec => []TypeOK
<1>1. TInv => TypeOK
  BY DEF TInv
<1>2. QED
  BY <1>1, TInvInit, TInvNext, PTL DEF Spec

-----------------------------------------------------------------------------
(* Tickets, and processes that meet their task.                            *)

(* Between selectPrisoner() and writeInfo() a request is alone with its    *)
(* uid: no process works with it, and the janitor finds it too young.      *)
CreatingAlone ==
  \A t \in Tasks : At(t, "create") =>
    /\ hs[t].task = t
    /\ hs[t].uid \in ctrl
    /\ cfg[hs[t].uid] = NoConfig
    /\ age[hs[t].uid] = 0
    /\ \A h \in Handlers \ {t} : Live(h) => hs[h].uid # hs[t].uid

(* The config lives in the control directory.                              *)
NoStrayConfig == \A u \in Uids \ ctrl : cfg[u] = NoConfig

JInv ==
  /\ TicketsLeadToTheirTask
  /\ CreatingAlone
  /\ NoStrayConfig
  /\ HandlersMeetTheirTask

(* What CleaningIsFinal says of one step.                                  *)
FinalStep == \A u \in Uids : cfg[u].cleaning => cfg'[u] \in {cfg[u], NoConfig}

(* No request is between selectPrisoner() and writeInfo() with uid u.      *)
Settled(u) == \A t \in Tasks : At(t, "create") => hs[t].uid # u

(* Processes go on with the uid and the task they have, end, or take up    *)
(* the task of a settled uid.                                              *)
Moves ==
  \A h \in Handlers :
    \/ hs'[h] = hs[h]
    \/ ~Live(h)'
    \/ /\ hs'[h].pc # "create"
       /\ Live(h)
       /\ hs'[h].uid = hs[h].uid
       /\ hs'[h].task = hs[h].task
    \/ /\ hs'[h].pc # "create"
       /\ hs'[h].uid \in Uids
       /\ Settled(hs'[h].uid)
       /\ hs'[h].task \in {NoTask, cfg[hs'[h].uid].task}

-----------------------------------------------------------------------------
(* Which moves are such.                                                   *)

LEMMA OneMoves ==
  ASSUME TInv, NEW h \in Handlers, NEW r, hs' = [hs EXCEPT ![h] = r],
         \/ r.pc \in {"idle", "done"}
         \/ /\ r.pc # "create"
            /\ Live(h)
            /\ r.uid = hs[h].uid
            /\ r.task = hs[h].task
  PROVE Moves
  BY DEF TInv, TypeOK, Moves, Live

LEMMA GotoMoves ==
  ASSUME TInv, NEW h \in Handlers, NEW l \in Pcs, l # "create", Live(h),
         Goto(h, l) \/ Continue(h, l)
  PROVE Moves
<1>0. hs[h] \in HandlerState
  BY DEF TInv, TypeOK
<1>1. CASE Goto(h, l)
  <2> DEFINE r == [hs[h] EXCEPT !.pc = l]
  <2>1. r.pc = l /\ r.uid = hs[h].uid /\ r.task = hs[h].task
    BY <1>0 DEF HandlerState
  <2>2. hs' = [hs EXCEPT ![h] = r]
    BY <1>1 DEF Goto
  <2> HIDE DEF r
  <2>3. QED
    BY <2>1, <2>2, OneMoves
<1>2. CASE Continue(h, l)
  <2> DEFINE r == [hs[h] EXCEPT !.pc = l, !.snap = NoSnapshot]
  <2>1. r.pc = l /\ r.uid = hs[h].uid /\ r.task = hs[h].task
    BY <1>0 DEF HandlerState
  <2>2. hs' = [hs EXCEPT ![h] = r]
    BY <1>2 DEF Continue
  <2> HIDE DEF r
  <2>3. QED
    BY <2>1, <2>2, OneMoves
<1>3. QED
  BY <1>1, <1>2

LEMMA FinishMoves ==
  ASSUME TInv, NEW h \in Handlers, Finish(h)
  PROVE Moves
  BY AtPcOK, OneMoves DEF Finish, Pcs

LEMMA CleanMoves ==
  ASSUME TInv, NEW h \in Handlers, NEW l, Live(h), Clean(h, l)
  PROVE Moves
<1>0. hs[h] \in HandlerState
  BY DEF TInv, TypeOK
<1> DEFINE r == [hs[h] EXCEPT !.pc = "mark", !.next = l, !.snap = NoSnapshot]
<1>1. r.pc = "mark" /\ r.uid = hs[h].uid /\ r.task = hs[h].task
  BY <1>0 DEF HandlerState
<1>2. hs' = [hs EXCEPT ![h] = r]
  BY DEF Clean
<1> HIDE DEF r
<1>3. QED
  BY <1>1, <1>2, OneMoves

LEMMA ReturnFromCleanMoves ==
  ASSUME TInv, NEW h \in Handlers, Live(h), ReturnFromClean(h)
  PROVE Moves
<1>0. hs[h] \in HandlerState
  BY DEF TInv, TypeOK
<1>1. CASE hs[h].next = "done"
  BY <1>1, FinishMoves DEF ReturnFromClean
<1>2. CASE hs[h].next # "done"
  <2> DEFINE r == [hs[h] EXCEPT !.pc = hs[h].next, !.next = "done"]
  <2>1. r.pc # "create" /\ r.uid = hs[h].uid /\ r.task = hs[h].task
    BY <1>0 DEF HandlerState
  <2>2. hs' = [hs EXCEPT ![h] = r]
    BY <1>2 DEF ReturnFromClean
  <2> HIDE DEF r
  <2>3. QED
    BY <2>1, <2>2, OneMoves
<1>3. QED
  BY <1>1, <1>2

-----------------------------------------------------------------------------
(* Steps that leave tickets, configs and control directories alone.        *)

LEMMA QuietStep ==
  ASSUME JInv, UNCHANGED <<ctrl, cfg, tickets, age>>, Moves
  PROVE JInv' /\ FinalStep
<1>1. TicketsLeadToTheirTask' /\ NoStrayConfig' /\ FinalStep
  BY DEF JInv, TicketsLeadToTheirTask, NoStrayConfig, FinalStep
<1>2. CreatingAlone'
  <2>1. SUFFICES ASSUME NEW t \in Tasks, At(t, "create")'
                 PROVE /\ hs'[t].task = t
                       /\ hs'[t].uid \in ctrl'
                       /\ cfg'[hs'[t].uid] = NoConfig
                       /\ age'[hs'[t].uid] = 0
                       /\ \A h \in Handlers \ {t} : Live(h)' => hs'[h].uid # hs'[t].uid
    BY DEF CreatingAlone
  <2>2. hs'[t] = hs[t] /\ At(t, "create") /\ t \in Handlers
    BY <2>1 DEF Moves, At, Live, Handlers
  <2>3. QED
    BY <2>2 DEF JInv, CreatingAlone, Moves, Live, Settled
<1>3. HandlersMeetTheirTask'
  BY DEF JInv, HandlersMeetTheirTask, Moves, Live
<1>4. QED
  BY <1>1, <1>2, <1>3 DEF JInv

(* Steps that change what belongs to one uid, not of a request being made. *)
LEMMA StoreStep ==
  ASSUME TInv, JInv, Moves, NEW u \in Uids, Settled(u), NEW c \in Config,
         cfg' = [cfg EXCEPT ![u] = c],
         ctrl' \cup {u} = ctrl \cup {u},
         \A v \in Uids \ {u} : age'[v] = age[v],
         c.task \in {NoTask, cfg[u].task},
         cfg[u].cleaning => c \in {cfg[u], NoConfig},
         u \notin ctrl' => c = NoConfig,
         \A k \in tickets' : k.uid # u => k \in tickets,
         \A k \in tickets' : k.uid = u => k.task = c.task /\ ~c.cleaning
  PROVE JInv' /\ FinalStep
<1>0. tickets \subseteq Ticket /\ cfg \in [Uids -> Config]
  BY DEF TInv, TypeOK, StoreTypeOK
<1>1. FinalStep
  BY <1>0 DEF FinalStep
<1>2. TicketsLeadToTheirTask'
  BY <1>0 DEF JInv, TicketsLeadToTheirTask, Ticket
<1>3. NoStrayConfig'
  BY <1>0 DEF JInv, NoStrayConfig
<1>4. CreatingAlone'
  <2>1. SUFFICES ASSUME NEW t \in Tasks, At(t, "create")'
                 PROVE /\ hs'[t].task = t
                       /\ hs'[t].uid \in ctrl'
                       /\ cfg'[hs'[t].uid] = NoConfig
                       /\ age'[hs'[t].uid] = 0
                       /\ \A h \in Handlers \ {t} : Live(h)' => hs'[h].uid # hs'[t].uid
    BY DEF CreatingAlone
  <2>2. hs'[t] = hs[t] /\ At(t, "create") /\ t \in Handlers
    BY <2>1 DEF Moves, At, Live, Handlers
  <2>3. hs[t].uid # u /\ hs[t].uid \in Uids
    BY <2>2 DEF Settled, TInv, HandlersAreAttached, At, Working, Pcs
  <2>4. \A h \in Handlers \ {t} : Live(h)' => hs'[h].uid # hs'[t].uid
    BY <2>2 DEF JInv, CreatingAlone, Moves, Live, Settled
  <2>5. QED
    BY <1>0, <2>2, <2>3, <2>4 DEF JInv, CreatingAlone
<1>5. HandlersMeetTheirTask'
  <2>1. SUFFICES ASSUME NEW h \in Handlers, Live(h)', hs'[h].task # NoTask
                 PROVE cfg'[hs'[h].uid].task \in {NoTask, hs'[h].task}
    BY DEF HandlersMeetTheirTask
  <2>2. cfg[hs'[h].uid].task \in {NoTask, hs'[h].task}
    BY <2>1 DEF Moves, Live, JInv, HandlersMeetTheirTask
  <2>3. hs'[h].uid \in Uids
    BY <2>1 DEF Moves, TInv, TypeOK, HandlerState, HandlersAreAttached, Working, Live
  <2>4. QED
    BY <1>0, <2>2, <2>3
<1>6. QED
  BY <1>1, <1>2, <1>3, <1>4, <1>5 DEF JInv

(* The uid of a process at work is not that of a request being made.       *)
LEMMA WorkerSettled ==
  ASSUME TInv, JInv, NEW h \in Handlers, Live(h), ~At(h, "create")
  PROVE Settled(hs[h].uid)
  BY DEF JInv, CreatingAlone, Settled

-----------------------------------------------------------------------------
(* The operations of the store.                                            *)

LEMMA RegisterSafe ==
  ASSUME TInv, JInv, Moves, NEW u \in Uids, Settled(u), ReadInfoOK(u),
         \/ \E p \in Tasks : SetCompiler(p, u)
         \/ \E p \in Tasks \cup Executors : SetRunner(p, u)
  PROVE JInv' /\ FinalStep
<1>0. cfg \in [Uids -> Config] /\ tickets \subseteq Ticket /\ age \in [Uids -> 0 .. 2]
  BY DEF TInv, TypeOK, StoreTypeOK
<1>1. PICK c \in Config : /\ cfg' = [cfg EXCEPT ![u] = c]
                          /\ c.task = cfg[u].task
                          /\ c.cleaning = cfg[u].cleaning
  <2>1. CASE \E p \in Tasks : SetCompiler(p, u)
    <3>1. PICK p \in Tasks : SetCompiler(p, u)
      BY <2>1
    <3> DEFINE c == [cfg[u] EXCEPT !.compiler = p]
    <3>2. c \in Config /\ c.task = cfg[u].task /\ c.cleaning = cfg[u].cleaning
      BY <1>0 DEF Config
    <3>3. cfg' = [cfg EXCEPT ![u] = c]
      BY <3>1 DEF SetCompiler
    <3> HIDE DEF c
    <3>4. QED
      BY <3>2, <3>3
  <2>2. CASE \E p \in Tasks \cup Executors : SetRunner(p, u)
    <3>1. PICK p \in Tasks \cup Executors : SetRunner(p, u)
      BY <2>2
    <3> DEFINE c == [cfg[u] EXCEPT !.runner = p]
    <3>2. c \in Config /\ c.task = cfg[u].task /\ c.cleaning = cfg[u].cleaning
      BY <1>0 DEF Config
    <3>3. cfg' = [cfg EXCEPT ![u] = c]
      BY <3>1 DEF SetRunner
    <3> HIDE DEF c
    <3>4. QED
      BY <3>2, <3>3
  <2>3. QED
    BY <2>1, <2>2
<1>2. /\ ctrl' = ctrl
      /\ tickets' = tickets
      /\ \A v \in Uids \ {u} : age'[v] = age[v]
  BY <1>0 DEF SetCompiler, SetRunner
<1>3. u \in ctrl
  BY DEF ReadInfoOK, JInv, NoStrayConfig, NoConfig, NewConfig
<1>4. ~cfg[u].cleaning /\ \A k \in tickets : k.uid = u => k.task = cfg[u].task
  BY DEF ReadInfoOK, JInv, TicketsLeadToTheirTask
<1>5. ~c.cleaning /\ \A k \in tickets' : k.uid = u => k.task = c.task /\ ~c.cleaning
  BY <1>1, <1>2, <1>4
<1>6. QED
  BY <1>1, <1>2, <1>3, <1>4, <1>5, StoreStep

LEMMA PassthroughSafe ==
  ASSUME TInv, JInv, Moves, NEW u \in Uids, Settled(u), ReadInfoOK(u),
         AddPassthroughTicket(u)
  PROVE JInv' /\ FinalStep
<1>0. cfg \in [Uids -> Config] /\ age \in [Uids -> 0 .. 2]
  BY DEF TInv, TypeOK, StoreTypeOK
<1> DEFINE c == [cfg[u] EXCEPT !.http = TRUE]
<1>1. c \in Config /\ c.task = cfg[u].task /\ c.cleaning = cfg[u].cleaning
  BY <1>0 DEF Config
<1>2. cfg' = [cfg EXCEPT ![u] = c] /\ ctrl' = ctrl /\ age' = age
  BY DEF AddPassthroughTicket
<1>3. u \in ctrl
  BY DEF ReadInfoOK, JInv, NoStrayConfig, NoConfig, NewConfig
<1>4. ~cfg[u].cleaning /\ \A k \in tickets : k.uid = u => k.task = cfg[u].task
  BY DEF ReadInfoOK, JInv, TicketsLeadToTheirTask
<1>5. \A k \in tickets' : k \in tickets \/ (k.uid = u /\ k.task = cfg[u].task)
  BY DEF AddPassthroughTicket
<1> HIDE DEF c
<1>6. QED
  BY ZenonT(60), <1>1, <1>2, <1>3, <1>4, <1>5, StoreStep

LEMMA MarkSafe ==
  ASSUME TInv, JInv, Moves, NEW u \in Uids, Settled(u), NEW t, MarkCleaning(u, t)
  PROVE JInv' /\ FinalStep
<1>0. cfg \in [Uids -> Config] /\ tickets \subseteq Ticket /\ age \in [Uids -> 0 .. 2]
  BY DEF TInv, TypeOK, StoreTypeOK
<1>1. /\ ctrl' = ctrl
      /\ tickets' \subseteq tickets
      /\ \A v \in Uids \ {u} : age'[v] = age[v]
  BY <1>0 DEF MarkCleaning
<1>2. \A k \in tickets' : k.uid # u
  BY DEF JInv, TicketsLeadToTheirTask, MarkCleaning, TicketsOf
<1>3. CASE cfg[u].task # NoTask
  <2> DEFINE c == [cfg[u] EXCEPT !.cleaning = TRUE]
  <2>1. c \in Config /\ c.task = cfg[u].task
    BY <1>0 DEF Config
  <2>2. cfg' = [cfg EXCEPT ![u] = c]
    BY <1>3 DEF MarkCleaning
  <2>3. cfg[u].cleaning => c = cfg[u]
    BY <1>0 DEF Config
  <2>4. u \in ctrl
    BY <1>3 DEF JInv, NoStrayConfig, NoConfig, NewConfig
  <2> HIDE DEF c
  <2>5. QED
    BY <1>1, <1>2, <2>1, <2>2, <2>3, <2>4, StoreStep
<1>4. CASE cfg[u].task = NoTask
  <2>1. cfg' = [cfg EXCEPT ![u] = cfg[u]] /\ cfg[u] \in Config
    BY <1>0, <1>4 DEF MarkCleaning
  <2>2. u \notin ctrl => cfg[u] = NoConfig
    BY DEF JInv, NoStrayConfig
  <2>3. QED
    BY <1>1, <1>2, <2>1, <2>2, StoreStep
<1>5. QED
  BY <1>3, <1>4

LEMMA RemoveSafe ==
  ASSUME TInv, JInv, Moves, NEW u \in Uids, Settled(u), CleanPrisonerFiles(u)
  PROVE JInv' /\ FinalStep
<1>0. cfg \in [Uids -> Config] /\ tickets \subseteq Ticket /\ age \in [Uids -> 0 .. 2]
  BY DEF TInv, TypeOK, StoreTypeOK
<1>1. /\ cfg' = [cfg EXCEPT ![u] = NoConfig]
      /\ ctrl' \cup {u} = ctrl \cup {u}
      /\ tickets' \subseteq tickets
      /\ \A v \in Uids \ {u} : age'[v] = age[v]
  BY <1>0 DEF CleanPrisonerFiles
<1>2. \A k \in tickets' : k.uid # u
  BY DEF JInv, TicketsLeadToTheirTask, CleanPrisonerFiles, TicketsOf
<1>3. NoConfig \in Config /\ NoConfig.task = NoTask
  BY NewConfigOK DEF NoConfig, NewConfig
<1>4. QED
  BY <1>1, <1>2, <1>3, StoreStep

-----------------------------------------------------------------------------
(* The actions.                                                            *)

(* selectPrisoner() finds a uid without control directory, hence without   *)
(* config, and (no uid reuse) without processes that work with it.         *)
LEMMA RequestSafe ==
  ASSUME ~UidReuse, TInv, JInv, NEW t \in Tasks, NEW u \in Uids, Request(t, u)
  PROVE JInv' /\ FinalStep
<1>0. hs \in [Handlers -> HandlerState] /\ t \in Handlers /\ age \in [Uids -> 0 .. 2]
  BY DEF TInv, TypeOK, StoreTypeOK, Handlers
<1>1. /\ u \notin ctrl
      /\ ctrl' = ctrl \cup {u}
      /\ age' = [age EXCEPT ![u] = 0]
      /\ UNCHANGED <<cfg, tickets>>
      /\ \A h \in Handlers : Live(h) => hs[h].uid # u
  BY DEF Request, SelectPrisoner, Drawable
<1>2. /\ hs'[t].pc = "create" /\ hs'[t].uid = u /\ hs'[t].task = t
      /\ \A h \in Handlers \ {t} : hs'[h] = hs[h]
  <2>1. AtPc("create") \in HandlerState /\ AtPc("create").pc = "create"
    BY AtPcOK DEF Pcs
  <2>2. /\ Attached("create", u, t).pc = "create"
        /\ Attached("create", u, t).uid = u
        /\ Attached("create", u, t).task = t
    BY <2>1 DEF Attached, HandlerState
  <2>3. QED
    BY <1>0, <2>2 DEF Request
<1>3. cfg[u] = NoConfig
  BY <1>1 DEF JInv, NoStrayConfig
<1>4. TicketsLeadToTheirTask' /\ NoStrayConfig' /\ FinalStep
  BY <1>1 DEF JInv, TicketsLeadToTheirTask, NoStrayConfig, FinalStep
<1>5. HandlersMeetTheirTask'
  BY <1>1, <1>2, <1>3 DEF JInv, HandlersMeetTheirTask, Live, NoConfig, NewConfig
<1>6. CreatingAlone'
  <2>1. SUFFICES ASSUME NEW s \in Tasks, At(s, "create")'
                 PROVE /\ hs'[s].task = s
                       /\ hs'[s].uid \in ctrl'
                       /\ cfg'[hs'[s].uid] = NoConfig
                       /\ age'[hs'[s].uid] = 0
                       /\ \A h \in Handlers \ {s} : Live(h)' => hs'[h].uid # hs'[s].uid
    BY DEF CreatingAlone
  <2>2. CASE s = t
    BY <1>0, <1>1, <1>2, <1>3, <2>2 DEF Live
  <2>3. CASE s # t
    <3>1. hs'[s] = hs[s] /\ At(s, "create") /\ Live(s) /\ s \in Handlers
      BY <1>2, <2>1, <2>3 DEF At, Live, Handlers
    <3>2. /\ hs[s].uid \in ctrl /\ hs[s].uid # u /\ hs[s].task = s
          /\ cfg[hs[s].uid] = NoConfig /\ age[hs[s].uid] = 0
          /\ \A h \in Handlers \ {s} : Live(h) => hs[h].uid # hs[s].uid
      BY <1>1, <3>1 DEF JInv, CreatingAlone
    <3>3. hs[s].uid \in Uids
      BY <1>0, <3>1 DEF TInv, HandlersAreAttached, Working, At, Pcs
    <3>4. \A h \in Handlers \ {s} : Live(h)' => hs'[h].uid # hs'[s].uid
      BY <1>2, <3>1, <3>2 DEF Live
    <3>5. QED
      BY <1>0, <1>1, <3>1, <3>2, <3>3, <3>4
  <2>4. QED
    BY <2>2, <2>3
<1>7. QED
  BY <1>4, <1>5, <1>6 DEF JInv

LEMMA RequestFailsSafe ==
  ASSUME TInv, JInv, NEW t \in Tasks, NEW u \in Uids, RequestFails(t, u)
  PROVE JInv' /\ FinalStep
<1>0. /\ cfg \in [Uids -> Config] /\ age \in [Uids -> 0 .. 2]
      /\ t \in Handlers /\ tickets \subseteq Ticket
  BY DEF TInv, TypeOK, StoreTypeOK, Handlers
<1>1. Moves
  BY <1>0, FinishMoves DEF RequestFails
<1>2. /\ u \notin ctrl
      /\ ctrl' = ctrl \cup {u}
      /\ age' = [age EXCEPT ![u] = 0]
      /\ UNCHANGED <<cfg, tickets>>
  BY DEF RequestFails, SelectFails
<1>3. Settled(u)
  BY <1>2 DEF Settled, JInv, CreatingAlone
<1>4. cfg' = [cfg EXCEPT ![u] = cfg[u]] /\ cfg[u] \in Config
  BY <1>0, <1>2
<1>5. /\ ctrl' \cup {u} = ctrl \cup {u} /\ u \in ctrl'
      /\ \A v \in Uids \ {u} : age'[v] = age[v]
      /\ \A k \in tickets' : k \in tickets
  BY <1>0, <1>2
<1>6. \A k \in tickets' : k.uid = u => k.task = cfg[u].task /\ ~cfg[u].cleaning
  BY <1>5 DEF JInv, TicketsLeadToTheirTask
<1>7. QED
  BY <1>1, <1>3, <1>4, <1>5, <1>6, StoreStep

(* writeInfo() of a new task: nobody else works with the uid.              *)
LEMMA CreateSafe ==
  ASSUME TInv, JInv, NEW t \in Tasks, Create(t)
  PROVE JInv' /\ FinalStep
<1> DEFINE u == hs[t].uid
<1>0. /\ cfg \in [Uids -> Config] /\ age \in [Uids -> 0 .. 2]
      /\ tickets \subseteq Ticket /\ t \in Handlers /\ hs \in [Handlers -> HandlerState]
  BY DEF TInv, TypeOK, StoreTypeOK, Handlers
<1>1. /\ u \in Uids /\ u \in ctrl /\ cfg[u] = NoConfig /\ hs[t].task = t
      /\ At(t, "create") /\ Live(t)
      /\ \A h \in Handlers \ {t} : Live(h) => hs[h].uid # u
  BY <1>0 DEF Create, JInv, CreatingAlone, TInv, HandlersAreAttached, At, Working, Pcs, Live
<1>2. /\ tickets' = tickets \cup NewTickets(t, u)
      /\ cfg' = [cfg EXCEPT ![u] = NewConfig(t)]
      /\ \A v \in Uids \ {u} : age'[v] = age[v]
      /\ ctrl' = ctrl
      /\ Goto(t, "save")
  BY <1>0, <1>1 DEF Create, CreateTask
<1>3. /\ hs'[t].pc = "save" /\ hs'[t].uid = u /\ hs'[t].task = t
      /\ \A h \in Handlers \ {t} : hs'[h] = hs[h]
  BY <1>0, <1>1, <1>2 DEF Goto, HandlerState
<1>n. NewConfig(t).task = t /\ ~NewConfig(t).cleaning /\ NoConfig.task = NoTask
      /\ ~NoConfig.cleaning /\ NoTask \notin Tasks
  BY StoreAssumption DEF NewConfig, NoConfig
<1> HIDE DEF u
<1>4. TicketsLeadToTheirTask'
  <2>1. \A k \in tickets : k.uid # u
    BY <1>0, <1>1, <1>n DEF JInv, TicketsLeadToTheirTask, Ticket
  <2>2. \A k \in NewTickets(t, u) : k.uid = u /\ k.task = t
    BY DEF NewTickets
  <2>3. QED
    BY <1>0, <1>1, <1>2, <1>n, <2>1, <2>2 DEF JInv, TicketsLeadToTheirTask, Ticket
<1>5. NoStrayConfig' /\ FinalStep
  BY <1>0, <1>1, <1>2, <1>n DEF JInv, NoStrayConfig, FinalStep
<1>6. HandlersMeetTheirTask'
  <2>1. SUFFICES ASSUME NEW h \in Handlers, Live(h)', hs'[h].task # NoTask
                 PROVE cfg'[hs'[h].uid].task \in {NoTask, hs'[h].task}
    BY DEF HandlersMeetTheirTask
  <2>2. CASE h = t
    BY <1>0, <1>1, <1>2, <1>3, <1>n, <2>2
  <2>3. CASE h # t
    <3>1. hs'[h] = hs[h] /\ Live(h) /\ hs[h].uid # u
      BY <1>1, <1>3, <2>1, <2>3 DEF Live
    <3>2. cfg[hs[h].uid].task \in {NoTask, hs[h].task}
      BY <2>1, <3>1 DEF JInv, HandlersMeetTheirTask
    <3>3. hs[h].uid \in Uids
      BY <1>0, <3>1 DEF TInv, HandlersAreAttached, Working, Live, HandlerState
    <3>4. QED
      BY <1>0, <1>2, <3>1, <3>2, <3>3
  <2>4. QED
    BY <2>2, <2>3
<1>7. CreatingAlone'
  <2>1. SUFFICES ASSUME NEW s \in Tasks, At(s, "create")'
                 PROVE /\ hs'[s].task = s
                       /\ hs'[s].uid \in ctrl'
                       /\ cfg'[hs'[s].uid] = NoConfig
                       /\ age'[hs'[s].uid] = 0
                       /\ \A h \in Handlers \ {s} : Live(h)' => hs'[h].uid # hs'[s].uid
    BY DEF CreatingAlone
  <2>2. s # t /\ s \in Handlers
    BY <1>3, <2>1 DEF At, Handlers
  <2>3. hs'[s] = hs[s] /\ At(s, "create") /\ Live(s)
    BY <1>3, <2>1, <2>2 DEF At, Live
  <2>4. hs[s].uid # u /\ hs[s].uid \in Uids
    BY <1>0, <1>1, <2>2, <2>3 DEF TInv, HandlersAreAttached, Working, At, Pcs
  <2>5. /\ hs[s].task = s /\ hs[s].uid \in ctrl
        /\ cfg[hs[s].uid] = NoConfig /\ age[hs[s].uid] = 0
        /\ \A h \in Handlers \ {s} : Live(h) => hs[h].uid # hs[s].uid
    BY <2>3 DEF JInv, CreatingAlone
  <2>6. \A h \in Handlers \ {s} : Live(h)' => hs'[h].uid # hs'[s].uid
    BY <1>1, <1>3, <2>3, <2>4, <2>5 DEF Live
  <2>7. QED
    BY <1>0, <1>2, <2>3, <2>4, <2>5, <2>6
<1>8. QED
  BY <1>4, <1>5, <1>6, <1>7 DEF JInv

(* The other steps of a request's child, and the run loops.                *)
LEMMA TaskStepSafe ==
  ASSUME TInv, JInv, NEW t \in Tasks, TaskStep(t)
  PROVE JInv' /\ FinalStep
<1>h. t \in Handlers /\ {"save", "extra", "compiler", "launchCompiler", "compiled",
                          "waitMonitor", "runner"} \subseteq Pcs
  BY DEF Handlers, Pcs
<1>1. CASE Create(t)
  BY <1>1, CreateSafe
<1>2. CASE RegisterCompiler(t)
  <2>1. Live(t) /\ ~At(t, "create") /\ hs[t].uid \in Uids
    BY <1>h, <1>2 DEF RegisterCompiler, At, Live, TInv, HandlersAreAttached, Working, Pcs
  <2>2. Moves
    BY <1>h, <1>2, <2>1, GotoMoves, FinishMoves DEF RegisterCompiler
  <2>3. CASE ReadInfoOK(hs[t].uid)
    BY <1>h, <1>2, <2>1, <2>2, <2>3, WorkerSettled, RegisterSafe DEF RegisterCompiler
  <2>4. CASE ~ReadInfoOK(hs[t].uid)
    BY <1>2, <2>2, <2>4, QuietStep DEF RegisterCompiler, store
  <2>5. QED
    BY <2>3, <2>4
<1>3. CASE SaveFiles(t) \/ ExtraInfo(t) \/ SaveCompilation(t) \/ Compiled(t)
           \/ WaitMonitor(t) \/ SaveExecution(t)
  <2>1. Live(t)
    BY <1>3 DEF SaveFiles, ExtraInfo, SaveCompilation, Compiled, WaitMonitor,
                SaveExecution, At, Live
  <2>2. Moves
    BY <1>h, <1>3, <2>1, GotoMoves, FinishMoves
       DEF SaveFiles, ExtraInfo, SaveCompilation, Compiled, WaitMonitor, SaveExecution
  <2>3. UNCHANGED <<ctrl, cfg, tickets, age>>
    BY <1>3 DEF SaveFiles, ExtraInfo, SaveCompilation, Compiled, WaitMonitor,
                SaveExecution, SetCompilationOutput, SetExecutionOutput, store
  <2>4. QED
    BY <2>2, <2>3, QuietStep
<1>4. QED
  BY <1>1, <1>2, <1>3 DEF TaskStep

LEMMA RunStepSafe ==
  ASSUME TInv, JInv, NEW h \in Tasks \cup Executors, RunStep(h)
  PROVE JInv' /\ FinalStep
<1>h. h \in Handlers
  BY DEF Handlers
<1>w. Live(h) /\ ~At(h, "create") /\ hs[h].uid \in Uids
  BY <1>h DEF RunStep, RegisterRunner, Launch, LoopOf, LoopEnds, LoopKills, LoopThrows,
              InLoop, At, Live, TInv, HandlersAreAttached, Working, Pcs, LoopWarns
<1>a. AfterLoop(h) \in Pcs \ {"create"}
  BY DEF AfterLoop, Pcs
<1>1. CASE RegisterRunner(h)
  <2>1. Moves
    BY <1>h, <1>w, <1>1, GotoMoves, FinishMoves DEF RegisterRunner, Pcs
  <2>2. CASE ReadInfoOK(hs[h].uid)
    BY <1>h, <1>w, <1>1, <2>1, <2>2, WorkerSettled, RegisterSafe DEF RegisterRunner
  <2>3. CASE ~ReadInfoOK(hs[h].uid)
    BY <1>1, <2>1, <2>3, QuietStep DEF RegisterRunner, store
  <2>4. QED
    BY <2>2, <2>3
<1>2. CASE Launch(h)
  <2>1. hs[h].pc \in DOMAIN LoopOf => LoopOf[hs[h].pc] \in Pcs \ {"create"}
    BY DEF LoopOf, Pcs
  <2>2. Moves
    BY <1>h, <1>w, <1>a, <1>2, <2>1, GotoMoves DEF Launch
  <2>3. QED
    BY <1>2, <2>2, QuietStep DEF Launch
<1>3. CASE LoopEnds(h)
  BY <1>h, <1>w, <1>a, <1>3, GotoMoves, QuietStep DEF LoopEnds, store
<1>4. CASE LoopWarns(h) \/ LoopKills(h)
  <2>1. Moves
    BY <1>h, <1>w, <1>a, <1>4, GotoMoves DEF LoopWarns, LoopKills, Moves
  <2>2. UNCHANGED <<ctrl, cfg, tickets, age>>
    BY <1>4 DEF LoopWarns, LoopKills, StopPrisonerProcess
  <2>3. QED
    BY <2>1, <2>2, QuietStep
<1>5. CASE LoopThrows(h)
  BY <1>h, <1>w, <1>a, <1>5, GotoMoves, FinishMoves, QuietStep DEF LoopThrows, store
<1>6. QED
  BY <1>1, <1>2, <1>3, <1>4, <1>5 DEF RunStep

(* getState() and its callers.                                             *)
LEMMA PollStepSafe ==
  ASSUME TInv, JInv, NEW h \in Handlers, PollStep(h)
  PROVE JInv' /\ FinalStep
<1>0. hs[h] \in HandlerState
  BY DEF TInv, TypeOK
<1>1. Live(h) /\ UNCHANGED <<ctrl, cfg, tickets, age>>
  BY DEF PollStep, ReadState, Decide, At, Live, store
<1>2. CASE ReadState(h)
  <2> DEFINE r == [hs[h] EXCEPT !.pc = IF At(h, "poll") THEN "decide" ELSE "visited",
                     !.snap = [cfg |-> cfg[hs[h].uid], age |-> age[hs[h].uid]]]
  <2>1. r.pc \in {"decide", "visited"} /\ r.uid = hs[h].uid /\ r.task = hs[h].task
    BY <1>0 DEF HandlerState
  <2>2. hs' = [hs EXCEPT ![h] = r]
    BY <1>2 DEF ReadState
  <2> HIDE DEF r
  <2>3. QED
    BY <1>1, <2>1, <2>2, OneMoves, QuietStep
<1>3. CASE Decide(h)
  <2>1. CASE MonitorDecides(h) /\ MonitorKeepsWatching(h)
    <3>1. PICK l \in {"poll", "browser"} :
            hs' = [hs EXCEPT ![h] = [@ EXCEPT !.pc = l, !.seen = Observed(h),
                                              !.snap = NoSnapshot]]
      BY <2>1 DEF MonitorDecides
    <3> DEFINE r == [hs[h] EXCEPT !.pc = l, !.seen = Observed(h), !.snap = NoSnapshot]
    <3>2. r.pc = l /\ r.uid = hs[h].uid /\ r.task = hs[h].task
      BY <1>0 DEF HandlerState
    <3>3. hs' = [hs EXCEPT ![h] = r]
      BY <3>1
    <3> HIDE DEF r
    <3>4. QED
      BY <1>1, <3>2, <3>3, OneMoves, QuietStep
  <2>2. CASE MonitorDecides(h) /\ ~MonitorKeepsWatching(h)
    BY <1>1, <2>2, CleanMoves, QuietStep DEF MonitorDecides
  <2>3. CASE ExecuteDecides(h)
    <3>1. Moves
      BY <1>1, <2>3, GotoMoves, CleanMoves, FinishMoves DEF ExecuteDecides, Pcs
    <3>2. QED
      BY <1>1, <3>1, QuietStep
  <2>4. CASE RunningDecides(h)
    BY <1>1, <2>4, CleanMoves, FinishMoves, QuietStep DEF RunningDecides
  <2>5. CASE JanitorDecides(h)
    BY <1>1, <2>5, CleanMoves, FinishMoves, QuietStep DEF JanitorDecides
  <2>6. QED
    BY <1>3, <2>1, <2>2, <2>3, <2>4, <2>5 DEF Decide
<1>4. QED
  BY <1>2, <1>3 DEF PollStep

(* A ticket leads to its task, which is therefore the one the process      *)
(* takes up.                                                               *)
LEMMA OpenSafe ==
  ASSUME TInv, JInv, NEW h \in Handlers, NEW k \in tickets, NEW l \in Pcs \ {"create"},
         k.sec = "monitor" => h \in Monitors, Open(h, k, l)
  PROVE JInv' /\ FinalStep
<1>0. /\ cfg \in [Uids -> Config] /\ tickets \subseteq Ticket /\ NoTask \notin Tasks
      /\ hs \in [Handlers -> HandlerState]
  BY StoreAssumption DEF TInv, TypeOK, StoreTypeOK
<1>1. /\ k.uid \in Uids /\ k.task \in Tasks
      /\ cfg[k.uid].task = k.task /\ ~cfg[k.uid].cleaning
  BY <1>0 DEF JInv, TicketsLeadToTheirTask, Ticket
<1>2. Settled(k.uid) /\ k.uid \in ctrl
  BY <1>0, <1>1 DEF Settled, JInv, CreatingAlone, NoStrayConfig, NoConfig, NewConfig
<1>3. Moves
  <2>1. CASE Finish(h)
    BY <2>1, FinishMoves
  <2>2. CASE hs' = [hs EXCEPT ![h] = Attached(l, k.uid, k.task)]
    <3>1. AtPc(l) \in HandlerState /\ AtPc(l).pc = l
      BY AtPcOK
    <3>2. /\ Attached(l, k.uid, k.task).pc = l
          /\ Attached(l, k.uid, k.task).uid = k.uid
          /\ Attached(l, k.uid, k.task).task = k.task
      BY <3>1 DEF Attached, HandlerState
    <3>3. QED
      BY <1>0, <1>1, <1>2, <2>2, <3>2 DEF Moves
  <2>3. QED
    BY <2>1, <2>2 DEF Open
<1>4. tickets' \subseteq tickets /\ UNCHANGED <<ctrl, age>>
  BY DEF Open, UseTicket
<1>5. PICK c \in Config : /\ cfg' = [cfg EXCEPT ![k.uid] = c]
                          /\ c.task = cfg[k.uid].task
                          /\ c.cleaning = cfg[k.uid].cleaning
  <2>1. CASE cfg' = [cfg EXCEPT ![k.uid].monitor = h] /\ k.sec = "monitor"
    <3> DEFINE c == [cfg[k.uid] EXCEPT !.monitor = h]
    <3>1. c \in Config /\ c.task = cfg[k.uid].task /\ c.cleaning = cfg[k.uid].cleaning
      BY <1>0, <1>1, <2>1 DEF Config
    <3>2. cfg' = [cfg EXCEPT ![k.uid] = c]
      BY <2>1
    <3> HIDE DEF c
    <3>3. QED
      BY <3>1, <3>2
  <2>2. CASE cfg' = cfg
    <3>1. cfg' = [cfg EXCEPT ![k.uid] = cfg[k.uid]] /\ cfg[k.uid] \in Config
      BY <1>0, <1>1, <2>2
    <3>2. QED
      BY <3>1
  <2>3. QED
    BY <2>1, <2>2 DEF Open, UseTicket
<1>6. /\ ~c.cleaning /\ ~cfg[k.uid].cleaning
      /\ \A j \in tickets' : j.uid = k.uid => j.task = c.task /\ ~c.cleaning
  BY <1>1, <1>4, <1>5 DEF JInv, TicketsLeadToTheirTask
<1>7. QED
  BY <1>1, <1>2, <1>3, <1>4, <1>5, <1>6, StoreStep

LEMMA OpenStepSafe ==
  ASSUME TInv, JInv, NEW h \in Handlers, NEW k \in tickets,
         \/ h \in Monitors /\ OpenMonitor(h, k)
         \/ OpenExecute(h, k) \/ OpenRunning(h, k) \/ OpenStop(h, k)
         \/ OpenGetResult(h, k) \/ OpenUpdate(h, k) \/ OpenVisit(h, k)
  PROVE JInv' /\ FinalStep
<1>1. PICK l \in Pcs \ {"create"} : Open(h, k, l)
  BY DEF OpenMonitor, OpenExecute, OpenRunning, OpenStop, OpenGetResult, OpenUpdate,
         OpenVisit, Pcs
<1>2. k.sec = "monitor" => h \in Monitors
  BY DEF OpenMonitor, OpenExecute, OpenRunning, OpenStop, OpenGetResult, OpenUpdate,
         OpenVisit
<1>3. QED
  BY <1>1, <1>2, OpenSafe

(* The other events of monitors, execute websockets and requests.          *)
LEMMA EventSafe ==
  ASSUME TInv, JInv, NEW h \in Handlers,
         \/ ClientCloses(h) \/ ClientSends(h) \/ MonitorTimeout(h)
         \/ ExecuteGivesUp(h) \/ ExecuteStep(h) \/ AdminStep(h)
  PROVE JInv' /\ FinalStep
<1>1. Live(h)
  BY DEF ClientCloses, ClientSends, MonitorTimeout, Watching, ExecuteGivesUp, ExecuteStep,
         ExecuteEnds, ExecuteLeaves, AdminStep, GetResult, Update, VisitDecides, VisitEnds,
         At, Live
<1>2. Moves
  BY <1>1, CleanMoves, FinishMoves, GotoMoves
     DEF ClientCloses, ClientSends, MonitorTimeout, ExecuteGivesUp, ExecuteStep,
         ExecuteEnds, ExecuteLeaves, AdminStep, GetResult, Update, VisitDecides, VisitEnds, Pcs
<1>3. UNCHANGED <<ctrl, cfg, tickets, age>>
  BY DEF ClientCloses, ClientSends, MonitorTimeout, ExecuteGivesUp, ExecuteStep,
         ExecuteEnds, ExecuteLeaves, AdminStep, GetResult, Update, VisitDecides, VisitEnds,
         TakeResult, store
<1>4. QED
  BY <1>2, <1>3, QuietStep

LEMMA PassthroughTicketSafe ==
  ASSUME TInv, JInv, NEW h \in Handlers, PassthroughTicket(h)
  PROVE JInv' /\ FinalStep
<1>1. Live(h) /\ ~At(h, "create") /\ hs[h].uid \in Uids
  BY DEF PassthroughTicket, At, Live, TInv, HandlersAreAttached, Working, Pcs
<1>2. Moves
  BY <1>1, GotoMoves, FinishMoves DEF PassthroughTicket, Pcs
<1>3. CASE ReadInfoOK(hs[h].uid)
  BY <1>1, <1>2, <1>3, WorkerSettled, PassthroughSafe DEF PassthroughTicket
<1>4. CASE ~ReadInfoOK(hs[h].uid)
  BY <1>2, <1>4, QuietStep DEF PassthroughTicket, store
<1>5. QED
  BY <1>3, <1>4

(* cleanTask().                                                            *)
LEMMA CleanStepSafe ==
  ASSUME TInv, JInv, NEW h \in Handlers, CleanStep(h)
  PROVE JInv' /\ FinalStep
<1>1. Live(h) /\ ~At(h, "create") /\ hs[h].uid \in Uids
  BY DEF CleanStep, Mark, Kill, Check, Remove, At, Live, TInv, HandlersAreAttached,
         Working, Pcs
<1>2. Settled(hs[h].uid)
  BY <1>1, WorkerSettled
<1>3. Moves
  BY <1>1, GotoMoves, ReturnFromCleanMoves DEF CleanStep, Mark, Kill, Check, Remove, Pcs
<1>4. CASE Mark(h)
  BY <1>1, <1>2, <1>3, <1>4, MarkSafe DEF Mark
<1>5. CASE Remove(h)
  BY <1>1, <1>2, <1>3, <1>5, RemoveSafe DEF Remove
<1>6. CASE Kill(h) \/ Check(h)
  <2>1. UNCHANGED <<ctrl, cfg, tickets, age>>
    BY <1>6 DEF Kill, Check, StopPrisonerProcess, store
  <2>2. QED
    BY <1>3, <2>1, QuietStep
<1>7. QED
  BY <1>4, <1>5, <1>6 DEF CleanStep

(* The janitor only touches directories that are not young any more.       *)
LEMMA JanitorSafe ==
  ASSUME TInv, JInv, NEW z \in Janitors, NEW u \in Uids, JanitorVisit(z, u)
  PROVE JInv' /\ FinalStep
<1>0. /\ z \in Handlers /\ hs \in [Handlers -> HandlerState]
      /\ age \in [Uids -> 0 .. 2]
  BY DEF TInv, TypeOK, StoreTypeOK, Handlers
<1>1. age[u] >= 1
  BY DEF JanitorVisit, JanitorNoHome, JanitorOpens, JanitorOrphanHome
<1>2. Settled(u)
  BY <1>1 DEF Settled, JInv, CreatingAlone
<1>3. CASE JanitorNoHome(z, u) \/ JanitorOrphanHome(z, u)
  <2>1. Moves /\ CleanPrisonerFiles(u)
    BY <1>3 DEF JanitorNoHome, JanitorOrphanHome, Moves
  <2>2. QED
    BY <1>2, <2>1, RemoveSafe
<1>4. CASE JanitorOpens(z, u)
  <2>1. PICK l \in {"poll", "zombie"}, t \in {NoTask, cfg[u].task} :
          hs' = [hs EXCEPT ![z] = Attached(l, u, t)]
    BY <1>4 DEF JanitorOpens
  <2>2. AtPc(l) \in HandlerState /\ AtPc(l).pc = l
    BY AtPcOK DEF Pcs
  <2>3. /\ Attached(l, u, t).pc = l
        /\ Attached(l, u, t).uid = u
        /\ Attached(l, u, t).task = t
    BY <2>2 DEF Attached, HandlerState
  <2>4. Moves
    BY <1>0, <1>2, <2>1, <2>3 DEF Moves
  <2>5. QED
    BY <1>4, <2>4, QuietStep DEF JanitorOpens, store
<1>5. QED
  BY <1>3, <1>4 DEF JanitorVisit

LEMMA JanitorRemovesSafe ==
  ASSUME TInv, JInv, NEW z \in Janitors, JanitorRemoves(z)
  PROVE JInv' /\ FinalStep
<1>1. z \in Handlers /\ Live(z) /\ ~At(z, "create") /\ hs[z].uid \in Uids
  BY DEF Handlers, JanitorRemoves, At, Live, TInv, HandlersAreAttached, Working, Pcs
<1>2. Moves
  BY <1>1, FinishMoves DEF JanitorRemoves
<1>3. CASE CleanPrisonerFiles(hs[z].uid)
  BY <1>1, <1>2, <1>3, WorkerSettled, RemoveSafe
<1>4. CASE UNCHANGED store
  BY <1>2, <1>4, QuietStep DEF store
<1>5. QED
  BY <1>3, <1>4 DEF JanitorRemoves

(* Timely: a request does not stay for long between selectPrisoner() and   *)
(* writeInfo().                                                            *)
LEMMA TickSafe ==
  ASSUME Timely, TInv, JInv, NEW u \in Uids, Tick(u)
  PROVE JInv' /\ FinalStep
<1>0. /\ cfg \in [Uids -> Config] /\ age \in [Uids -> 0 .. 2]
      /\ cfg' = cfg /\ ctrl' = ctrl /\ tickets' = tickets
  BY DEF TInv, TypeOK, StoreTypeOK, Tick
<1>1. Settled(u)
  <2>1. SUFFICES ASSUME NEW t \in Tasks, At(t, "create"), hs[t].uid = u
                 PROVE FALSE
    BY DEF Settled
  <2>2. age[u] = 0
    BY <2>1 DEF JInv, CreatingAlone
  <2>3. t \in Handlers
    BY DEF Handlers
  <2>4. hs[t].pc \notin Brief
    BY <2>1, <2>2, <2>3 DEF Tick
  <2>5. QED
    BY <2>1, <2>4 DEF At, Brief
<1>2. Moves
  BY DEF Tick, Moves
<1>3. cfg' = [cfg EXCEPT ![u] = cfg[u]] /\ cfg[u] \in Config
  BY <1>0
<1>4. \A v \in Uids \ {u} : age'[v] = age[v]
  BY <1>0 DEF Tick
<1>5. u \notin ctrl' => cfg[u] = NoConfig
  BY <1>0 DEF JInv, NoStrayConfig
<1>6. \A k \in tickets' : k.uid = u => k.task = cfg[u].task /\ ~cfg[u].cleaning
  BY <1>0 DEF JInv, TicketsLeadToTheirTask
<1>7. QED
  BY <1>0, <1>1, <1>2, <1>3, <1>4, <1>5, <1>6, StoreStep

-----------------------------------------------------------------------------
LEMMA JInvInit == Init => JInv
<1> SUFFICES ASSUME Init PROVE JInv
  OBVIOUS
<1>1. \A h \in Handlers : hs[h].pc = "idle"
  BY AtPcOK DEF Init, Pcs
<1>2. TicketsLeadToTheirTask /\ NoStrayConfig
  BY DEF Init, StoreInit, TicketsLeadToTheirTask, NoStrayConfig
<1>3. CreatingAlone /\ HandlersMeetTheirTask
  BY <1>1 DEF CreatingAlone, HandlersMeetTheirTask, At, Live, Handlers
<1>4. QED
  BY <1>2, <1>3 DEF JInv

LEMMA JInvNext ==
  ASSUME ~UidReuse, Timely, TInv, JInv, [Next]_vars
  PROVE JInv' /\ (FinalStep \/ UNCHANGED vars)
<1>1. CASE UNCHANGED vars
  <2>1. Moves /\ UNCHANGED <<ctrl, cfg, tickets, age>>
    BY <1>1 DEF vars, Moves
  <2>2. QED
    BY <2>1, QuietStep
<1>2. CASE Next
  <2>1. Monitors \cup Executors \cup Admins \subseteq Handlers /\ CanCrash \subseteq Handlers
    BY HandlersAssumption DEF Handlers
  <2>2. CASE \E t \in Tasks, u \in Uids :
               RequestSkipsHome(t, u) \/ ProgramBuilds(t, u) \/ ProgramEnds(t, u)
    <3>1. Moves /\ UNCHANGED <<ctrl, cfg, tickets, age>>
      BY <2>2 DEF RequestSkipsHome, SelectOrphanHome, ProgramBuilds, ProgramEnds, Moves
    <3>2. QED
      BY <3>1, QuietStep
  <2>3. CASE \E h \in CanCrash : Crash(h)
    <3>1. Moves /\ UNCHANGED <<ctrl, cfg, tickets, age>>
      BY <2>1, <2>3, FinishMoves DEF Crash, store
    <3>2. QED
      BY <3>1, QuietStep
  <2>4. QED
    BY <1>2, <2>1, <2>2, <2>3, RequestSafe, RequestFailsSafe, TaskStepSafe, RunStepSafe,
       OpenStepSafe, PollStepSafe, CleanStepSafe, EventSafe, PassthroughTicketSafe,
       JanitorSafe, JanitorRemovesSafe, TickSafe DEF Next
<1>3. QED
  BY <1>1, <1>2

(* A ticket file leads to the task it was made for, and never to one that  *)
(* cleanTask() has marked: whatever requests, monitors, executions, stops  *)
(* and janitors do, however many there are, and whichever crash.           *)
THEOREM TicketsAreSafe ==
  ASSUME ~UidReuse, Timely
  PROVE Spec => []TicketsLeadToTheirTask
<1>1. Init => TInv /\ JInv
  BY TInvInit, JInvInit
<1>2. (TInv /\ JInv) /\ [Next]_vars => (TInv /\ JInv)'
  BY TInvNext, JInvNext
<1>3. JInv => TicketsLeadToTheirTask
  BY DEF JInv
<1>4. QED
  BY <1>1, <1>2, <1>3, PTL DEF Spec

(* Unless selectPrisoner() draws a uid that some process still holds, no   *)
(* process ever acts on a task other than its own: among timely processes  *)
(* the reuse of uids is the only way to act on another one.                *)
THEOREM HandlersAreSafe ==
  ASSUME ~UidReuse, Timely
  PROVE Spec => []HandlersMeetTheirTask
<1>1. Init => TInv /\ JInv
  BY TInvInit, JInvInit
<1>2. (TInv /\ JInv) /\ [Next]_vars => (TInv /\ JInv)'
  BY TInvNext, JInvNext
<1>3. JInv => HandlersMeetTheirTask
  BY DEF JInv
<1>4. QED
  BY <1>1, <1>2, <1>3, PTL DEF Spec

(* Once a task is marked, nothing is written to its config until it is     *)
(* removed: setCompiler(), setRunner(), monitorize() and                   *)
(* getHttpPassthroughTicket() all read CLEANING under the lock, and no     *)
(* other request is given the uid.                                         *)
THEOREM CleaningStaysFinal ==
  ASSUME ~UidReuse, Timely
  PROVE Spec => CleaningIsFinal
<1>1. Init => TInv /\ JInv
  BY TInvInit, JInvInit
<1>2. (TInv /\ JInv) /\ [Next]_vars => (TInv /\ JInv)'
  BY TInvNext, JInvNext
<1>3. TInv /\ JInv /\ [Next]_vars =>
        [\A u \in Uids : cfg[u].cleaning => cfg'[u] \in {cfg[u], NoConfig}]_vars
  BY JInvNext DEF FinalStep
<1>4. QED
  BY <1>1, <1>2, <1>3, PTL DEF Spec, CleaningIsFinal
=============================================================================
