---------------------------- MODULE ResultProofs ----------------------------
(***************************************************************************)
(* More theorems about module JailCommands, on top of those of JailProofs  *)
(* and under the same assumptions: the processes registered in the config, *)
(* the results, the programs that outlive their task, what a monitor tells *)
(* its client, and that the jail implements TaskLife.                      *)
(***************************************************************************)
EXTENDS JailProofs

-----------------------------------------------------------------------------
(* Registrations and results.  The invariant that they need says who may   *)
(* stand in the config, and that an execute ticket admits one process.     *)

Workers == Tasks \cup Executors
Early == {"poll", "decide", "runner"}

OwnTask == \A t \in Tasks : Live(t) => hs[t].task = t

CompilerInv == \A u \in Uids : cfg[u].compiler \in {NoPid, cfg[u].task}

RunnerInv ==
  \A u \in Uids :
    /\ cfg[u].runner \in Tasks => cfg[u].runner = cfg[u].task /\ ~Interactive(cfg[u].task)
    /\ cfg[u].runner \in Executors => Interactive(cfg[u].task)

OnePlace == \A u, v \in Uids : cfg[u].task # NoTask /\ cfg[u].task = cfg[v].task => u = v

(* A request that has not written its config yet has no config, no execute *)
(* ticket and no process that came with one.                               *)
FreshInv ==
  \A t \in Tasks : hs[t].pc \in {"idle", "create"} =>
    /\ \A u \in Uids : cfg[u].task # t
    /\ \A k \in tickets : k.sec = "execute" => k.task # t
    /\ \A h \in Executors : Live(h) => hs[h].task # t

TicketInv ==
  \A k \in tickets : k.sec = "execute" =>
    /\ cfg[k.uid].runner \notin Executors
    /\ \A h \in Executors : Live(h) => hs[h].task # k.task

OneExecutor ==
  \A h, g \in Executors : Live(h) /\ Live(g) /\ hs[h].task = hs[g].task => h = g

EarlyInv ==
  \A h \in Executors :
    hs[h].pc \in Early /\ cfg[hs[h].uid].task = hs[h].task
      => cfg[hs[h].uid].runner \notin Executors

PlaceInv ==
  /\ \A h \in Executors : At(h, "decide") => hs[h].snap.cfg.task \in {NoTask, hs[h].task}
  /\ \A h \in Executors : At(h, "runner") => Interactive(hs[h].task)
  /\ \A t \in Tasks : At(t, "runner") => ~Interactive(t)

RInv ==
  /\ OwnTask /\ OnePlace /\ CompilerInv /\ RunnerInv /\ FreshInv
  /\ TicketInv /\ OneExecutor /\ EarlyInv /\ PlaceInv

(* What RegistrationsAreFinal says of one step.                            *)
RegisteredStep ==
  \A u \in Uids : cfg[u].task # NoTask /\ cfg'[u].task # NoTask =>
    \A f \in {"task", "compiler", "runner", "monitor"} :
      cfg[u][f] = NoPid \/ cfg'[u][f] = cfg[u][f]

-----------------------------------------------------------------------------
(* The kinds of steps, by what they do to registrations and results.       *)

AtWork(h) == hs[h].pc \in Working \ {"zombie"}

GoesOn(h) ==
  \/ hs'[h] = hs[h]
  \/ hs'[h].pc = "done"
  \/ /\ Live(h)
     /\ hs'[h].uid = hs[h].uid
     /\ hs'[h].task = hs[h].task
     /\ hs'[h].pc \notin {"idle", "create"}
     /\ h \in Executors =>
          /\ hs'[h].pc \in Early => hs[h].pc \in Early
          /\ hs'[h].pc = "decide" => hs'[h].snap.cfg.task \in {NoTask, hs[h].task}
          /\ hs'[h].pc = "runner" => Interactive(hs[h].task)
     /\ h \in Tasks => (hs'[h].pc = "runner" => ~Interactive(h))

AllGoOn == \A h \in Workers : GoesOn(h)

ConfigGoesOn(u) ==
  /\ cfg'[u].task = cfg[u].task
  /\ cfg'[u].compiler = cfg[u].compiler
  /\ cfg'[u].runner = cfg[u].runner
  /\ cfg[u].monitor = NoPid \/ cfg'[u].monitor = cfg[u].monitor

(* No execute ticket is made.                                              *)
TicketsGoOn == \A k \in tickets' : k.sec = "execute" => k \in tickets

Quiet ==
  /\ AllGoOn /\ TicketsGoOn
  /\ \A u \in Uids : ConfigGoesOn(u)
  /\ UNCHANGED <<comp, exec>>

Removes == AllGoOn /\ \E u \in Uids : CleanPrisonerFiles(u)

Saves ==
  /\ AllGoOn
  /\ \E t \in Tasks :
       /\ AtWork(t) /\ ReadInfoOK(hs[t].uid)
       /\ \/ comp[hs[t].uid] = NoTask /\ SetCompilationOutput(t, hs[t].uid)
          \/ /\ comp[hs[t].uid] # NoTask /\ exec[hs[t].uid] = NoTask
             /\ SetExecutionOutput(t, hs[t].uid)

Takes == AllGoOn /\ \E u \in Uids : TakeResult(u)

Registers ==
  /\ AllGoOn
  /\ \/ \E t \in Tasks : AtWork(t) /\ ReadInfoOK(hs[t].uid) /\ SetCompiler(t, hs[t].uid)
     \/ \E h \in Workers : /\ At(h, "runner") /\ ReadInfoOK(hs[h].uid)
                           /\ SetRunner(h, hs[h].uid) /\ hs'[h].pc \notin Early

Kind ==
  \/ Quiet \/ Removes \/ Saves \/ Takes \/ Registers
  \/ \E t \in Tasks, u \in Uids : Request(t, u)
  \/ \E t \in Tasks : Create(t)
  \/ \E h \in Executors, k \in tickets : OpenExecute(h, k)

-----------------------------------------------------------------------------
(* Which moves go on.                                                      *)

LEMMA OneGoesOn ==
  ASSUME TInv, NEW h \in Handlers, NEW r, hs' = [hs EXCEPT ![h] = r],
         \/ h \notin Workers
         \/ r.pc = "done"
         \/ /\ Live(h) /\ r.uid = hs[h].uid /\ r.task = hs[h].task
            /\ r.pc \notin {"idle", "create"}
            /\ h \in Executors =>
                 /\ r.pc \in Early => hs[h].pc \in Early
                 /\ r.pc = "decide" => r.snap.cfg.task \in {NoTask, hs[h].task}
                 /\ r.pc = "runner" => Interactive(hs[h].task)
            /\ h \in Tasks => (r.pc = "runner" => ~Interactive(h))
  PROVE AllGoOn
<1> SUFFICES ASSUME NEW g \in Workers PROVE GoesOn(g)
  BY DEF AllGoOn
<1>1. hs \in [Handlers -> HandlerState] /\ g \in Handlers
  BY DEF TInv, TypeOK, Workers, Handlers
<1>2. CASE g = h
  BY <1>1, <1>2 DEF GoesOn
<1>3. CASE g # h
  BY <1>1, <1>3 DEF GoesOn
<1>4. QED
  BY <1>2, <1>3

LEMMA GotoGoesOn ==
  ASSUME TInv, NEW h \in Handlers, NEW l \in Pcs, Live(h), Goto(h, l) \/ Continue(h, l),
         h \in Workers => l \notin {"idle", "create", "decide"},
         h \in Executors => (l \in Early => hs[h].pc \in Early),
         h \in Executors => (l = "runner" => Interactive(hs[h].task)),
         h \in Tasks => (l = "runner" => ~Interactive(h))
  PROVE AllGoOn
<1>0. hs[h] \in HandlerState
  BY DEF TInv, TypeOK
<1>1. PICK r \in HandlerState : /\ r.pc = l /\ r.uid = hs[h].uid /\ r.task = hs[h].task
                                /\ hs' = [hs EXCEPT ![h] = r]
  <2>1. CASE Goto(h, l)
    <3> DEFINE r == [hs[h] EXCEPT !.pc = l]
    <3>1. r \in HandlerState /\ r.pc = l /\ r.uid = hs[h].uid /\ r.task = hs[h].task
      BY <1>0 DEF HandlerState
    <3>2. hs' = [hs EXCEPT ![h] = r]
      BY <2>1 DEF Goto
    <3> HIDE DEF r
    <3>3. QED
      BY <3>1, <3>2
  <2>2. CASE Continue(h, l)
    <3> DEFINE r == [hs[h] EXCEPT !.pc = l, !.snap = NoSnapshot]
    <3>1. r \in HandlerState /\ r.pc = l /\ r.uid = hs[h].uid /\ r.task = hs[h].task
      BY <1>0, NoSnapshotOK DEF HandlerState
    <3>2. hs' = [hs EXCEPT ![h] = r]
      BY <2>2 DEF Continue
    <3> HIDE DEF r
    <3>3. QED
      BY <3>1, <3>2
  <2>3. QED
    BY <2>1, <2>2
<1>2. QED
  BY <1>1, OneGoesOn DEF Early, Workers

LEMMA FinishGoesOn ==
  ASSUME TInv, NEW h \in Handlers, Finish(h)
  PROVE AllGoOn
<1>1. CASE h \in Janitors
  <2>1. h \notin Workers
    BY <1>1, HandlersAssumption DEF Workers
  <2>2. QED
    BY <2>1, OneGoesOn DEF Finish
<1>2. CASE h \notin Janitors
  <2>1. AtPc("done").pc = "done" /\ hs' = [hs EXCEPT ![h] = AtPc("done")]
    BY <1>2, AtPcOK DEF Finish, Pcs
  <2>2. QED
    BY <2>1, OneGoesOn
<1>3. QED
  BY <1>1, <1>2

LEMMA CleanGoesOn ==
  ASSUME TInv, NEW h \in Handlers, NEW l, Live(h), Clean(h, l)
  PROVE AllGoOn
<1>0. hs[h] \in HandlerState
  BY DEF TInv, TypeOK
<1> DEFINE r == [hs[h] EXCEPT !.pc = "mark", !.next = l, !.snap = NoSnapshot]
<1>1. r.pc = "mark" /\ r.uid = hs[h].uid /\ r.task = hs[h].task
  BY <1>0 DEF HandlerState
<1>2. hs' = [hs EXCEPT ![h] = r]
  BY DEF Clean
<1> HIDE DEF r
<1>3. QED
  BY <1>1, <1>2, OneGoesOn DEF Early

LEMMA ReturnFromCleanGoesOn ==
  ASSUME TInv, NEW h \in Handlers, Live(h), ReturnFromClean(h)
  PROVE AllGoOn
<1>0. hs[h] \in HandlerState
  BY DEF TInv, TypeOK
<1>1. CASE hs[h].next = "done"
  BY <1>1, FinishGoesOn DEF ReturnFromClean
<1>2. CASE hs[h].next # "done"
  <2> DEFINE r == [hs[h] EXCEPT !.pc = hs[h].next, !.next = "done"]
  <2>1. r.pc \in {"mark", "ending"} /\ r.uid = hs[h].uid /\ r.task = hs[h].task
    BY <1>0, <1>2 DEF HandlerState
  <2>2. hs' = [hs EXCEPT ![h] = r]
    BY <1>2 DEF ReturnFromClean
  <2> HIDE DEF r
  <2>3. QED
    BY <2>1, <2>2, OneGoesOn DEF Early
<1>3. QED
  BY <1>1, <1>2

(* Monitors, requests with an admin ticket and the janitor.                *)
LEMMA OthersGoOn ==
  ASSUME TInv, NEW h \in Monitors \cup Admins \cup Janitors,
         \/ \E r : hs' = [hs EXCEPT ![h] = r]
         \/ hs' = hs
  PROVE AllGoOn
<1>1. h \in Handlers /\ h \notin Workers
  BY HandlersAssumption DEF Handlers, Workers
<1>2. CASE hs' = hs
  BY <1>2 DEF AllGoOn, GoesOn
<1>3. QED
  BY <1>1, <1>2, OneGoesOn

-----------------------------------------------------------------------------
(* What the kinds preserve of RInv.                                        *)

RegQuiet ==
  /\ AllGoOn /\ TicketsGoOn
  /\ \A u \in Uids : ConfigGoesOn(u) \/ cfg'[u] = NoConfig

LEMMA NoConfigFacts ==
  /\ NoConfig.task = NoTask /\ NoConfig.compiler = NoPid /\ NoConfig.runner = NoPid
  /\ NoPid \notin Tasks /\ NoPid \notin Executors /\ NoTask \notin Tasks
  BY StoreAssumption DEF NoConfig, NewConfig, Pids

(* A process at work after such a step was at work before, with its task.  *)
LEMMA LiveBefore ==
  ASSUME AllGoOn, NEW h \in Workers, Live(h)'
  PROVE  /\ Live(h) /\ hs'[h].uid = hs[h].uid /\ hs'[h].task = hs[h].task
         /\ h \in Executors => (hs'[h].pc \in Early => hs[h].pc \in Early)
  BY DEF AllGoOn, GoesOn, Live

LEMMA LiveUid ==
  ASSUME TInv, NEW h \in Handlers, Live(h)
  PROVE  hs[h].uid \in Uids
  BY DEF TInv, TypeOK, HandlersAreAttached, Working, Live, HandlerState

LEMMA HandlersKeep ==
  ASSUME RInv, AllGoOn, TicketsGoOn,
         \A u \in Uids : cfg'[u].task \in {cfg[u].task, NoTask}
  PROVE  OwnTask' /\ OnePlace' /\ FreshInv' /\ OneExecutor' /\ PlaceInv'
<1>w. Tasks \subseteq Workers /\ Executors \subseteq Workers
  BY DEF Workers
<1>1. OwnTask' /\ OneExecutor'
  BY <1>w, LiveBefore DEF RInv, OwnTask, OneExecutor
<1>p. OnePlace'
  BY DEF RInv, OnePlace
<1>2. FreshInv'
  <2> SUFFICES ASSUME NEW t \in Tasks, hs'[t].pc \in {"idle", "create"}
               PROVE  /\ \A u \in Uids : cfg'[u].task # t
                      /\ \A k \in tickets' : k.sec = "execute" => k.task # t
                      /\ \A h \in Executors : Live(h)' => hs'[h].task # t
    BY DEF FreshInv
  <2>1. hs[t].pc \in {"idle", "create"}
    BY <1>w DEF AllGoOn, GoesOn
  <2>2. QED
    BY <1>w, <2>1, LiveBefore, NoConfigFacts DEF TicketsGoOn, RInv, FreshInv
<1>3. PlaceInv'
  <2>1. ASSUME NEW h \in Executors, At(h, "decide")'
        PROVE  hs'[h].snap.cfg.task \in {NoTask, hs'[h].task}
    BY <1>w, <2>1 DEF AllGoOn, GoesOn, RInv, PlaceInv, At
  <2>2. ASSUME NEW h \in Executors, At(h, "runner")' PROVE Interactive(hs'[h].task)
    BY <1>w, <2>2 DEF AllGoOn, GoesOn, RInv, PlaceInv, At
  <2>3. ASSUME NEW t \in Tasks, At(t, "runner")' PROVE ~Interactive(t)
    BY <1>w, <2>3 DEF AllGoOn, GoesOn, RInv, PlaceInv, At
  <2>4. QED
    BY <2>1, <2>2, <2>3 DEF PlaceInv
<1>4. QED
  BY <1>1, <1>p, <1>2, <1>3

LEMMA RunnersKeep ==
  ASSUME TInv, RInv, AllGoOn, TicketsGoOn,
         \A u \in Uids : \/ cfg'[u].task = cfg[u].task /\ cfg'[u].runner = cfg[u].runner
                        \/ cfg'[u] = NoConfig
  PROVE  RunnerInv' /\ TicketInv' /\ EarlyInv'
<1>w. Workers \subseteq Handlers /\ Tasks \subseteq Workers /\ Executors \subseteq Workers
  BY DEF Workers, Handlers
<1>1. RunnerInv'
  BY NoConfigFacts DEF RInv, RunnerInv
<1>2. TicketInv'
  <2> SUFFICES ASSUME NEW k \in tickets', k.sec = "execute"
               PROVE  /\ cfg'[k.uid].runner \notin Executors
                      /\ \A h \in Executors : Live(h)' => hs'[h].task # k.task
    BY DEF TicketInv
  <2>1. k \in tickets /\ k.uid \in Uids
    BY DEF TicketsGoOn, TInv, TypeOK, StoreTypeOK, Ticket
  <2>2. cfg'[k.uid].runner \in {cfg[k.uid].runner, NoPid}
    BY <2>1, NoConfigFacts
  <2>3. QED
    BY <1>w, <2>1, <2>2, LiveBefore, NoConfigFacts DEF RInv, TicketInv
<1>3. EarlyInv'
  <2> SUFFICES ASSUME NEW h \in Executors, hs'[h].pc \in Early,
                      cfg'[hs'[h].uid].task = hs'[h].task
               PROVE  cfg'[hs'[h].uid].runner \notin Executors
    BY DEF EarlyInv
  <2>1. Live(h)'
    BY DEF Early, Live
  <2>2. /\ Live(h) /\ hs'[h].uid = hs[h].uid /\ hs'[h].task = hs[h].task
        /\ hs[h].pc \in Early
    BY <1>w, <2>1, LiveBefore
  <2>3. hs[h].uid \in Uids
    BY <1>w, <2>2, LiveUid
  <2>4. CASE cfg'[hs[h].uid] = NoConfig
    BY <2>2, <2>4, NoConfigFacts
  <2>5. CASE cfg'[hs[h].uid] # NoConfig
    BY <2>2, <2>3, <2>5 DEF RInv, EarlyInv
  <2>6. QED
    BY <2>4, <2>5
<1>4. QED
  BY <1>1, <1>2, <1>3

LEMMA RegQuietKeeps ==
  ASSUME TInv, RInv, RegQuiet
  PROVE  RInv' /\ RegisteredStep
<1>1. CompilerInv'
  BY NoConfigFacts DEF RegQuiet, RInv, CompilerInv, ConfigGoesOn
<1>2. OwnTask' /\ OnePlace' /\ FreshInv' /\ OneExecutor' /\ PlaceInv'
  BY HandlersKeep, NoConfigFacts DEF RegQuiet, ConfigGoesOn
<1>3. RunnerInv' /\ TicketInv' /\ EarlyInv'
  BY RunnersKeep DEF RegQuiet, ConfigGoesOn
<1>4. RegisteredStep
  BY NoConfigFacts DEF RegQuiet, ConfigGoesOn, RegisteredStep
<1>5. QED
  BY <1>1, <1>2, <1>3, <1>4 DEF RInv

LEMMA RequestKeeps ==
  ASSUME TInv, RInv, NEW t \in Tasks, NEW u \in Uids, Request(t, u)
  PROVE  RInv' /\ RegisteredStep
<1>w. t \in Handlers /\ t \notin Executors /\ Tasks \subseteq Handlers
  BY HandlersAssumption DEF Handlers
<1>1. /\ hs[t].pc = "idle" /\ UNCHANGED <<cfg, tickets>>
      /\ hs' = [hs EXCEPT ![t] = Attached("create", u, t)]
  BY DEF Request, SelectPrisoner, At
<1>2. /\ Attached("create", u, t).pc = "create" /\ Attached("create", u, t).task = t
  BY AtPcOK DEF Attached, HandlerState, Pcs
<1>3. hs'[t].pc = "create" /\ hs'[t].task = t /\ \A h \in Handlers \ {t} : hs'[h] = hs[h]
  BY <1>w, <1>1, <1>2 DEF TInv, TypeOK
<1>4. \A h \in Executors : hs'[h] = hs[h]
  BY <1>w, <1>3 DEF Handlers
<1>5. OwnTask'
  BY <1>w, <1>3 DEF RInv, OwnTask, Live
<1>6. FreshInv'
  <2> SUFFICES ASSUME NEW s \in Tasks, hs'[s].pc \in {"idle", "create"}
               PROVE  /\ \A v \in Uids : cfg'[v].task # s
                      /\ \A k \in tickets' : k.sec = "execute" => k.task # s
                      /\ \A h \in Executors : Live(h)' => hs'[h].task # s
    BY DEF FreshInv
  <2>1. hs[s].pc \in {"idle", "create"}
    BY <1>w, <1>1, <1>3
  <2>2. QED
    BY <1>1, <1>4, <2>1 DEF RInv, FreshInv, Live
<1>7. TicketInv' /\ OneExecutor' /\ EarlyInv'
  BY <1>1, <1>4 DEF RInv, TicketInv, OneExecutor, EarlyInv, Live
<1>8. PlaceInv'
  BY <1>w, <1>3, <1>4 DEF RInv, PlaceInv, At
<1>9. OnePlace' /\ CompilerInv' /\ RunnerInv' /\ RegisteredStep
  BY <1>1 DEF RInv, OnePlace, CompilerInv, RunnerInv, RegisteredStep
<1>10. QED
  BY <1>5, <1>6, <1>7, <1>8, <1>9 DEF RInv

LEMMA CreateKeeps ==
  ASSUME TInv, JInv, RInv, NEW t \in Tasks, Create(t)
  PROVE  RInv' /\ RegisteredStep
<1> DEFINE u == hs[t].uid
<1>w. /\ t \in Handlers /\ t \notin Executors /\ Tasks \subseteq Handlers
      /\ cfg \in [Uids -> Config] /\ tickets \subseteq Ticket
      /\ hs \in [Handlers -> HandlerState]
  BY HandlersAssumption DEF Handlers, TInv, TypeOK, StoreTypeOK
<1>1. At(t, "create") /\ u \in ctrl /\ cfg[u] = NoConfig /\ u \in Uids
  BY <1>w DEF Create, JInv, CreatingAlone, TInv, HandlersAreAttached, At, Working, Pcs
<1>2. /\ tickets' = tickets \cup NewTickets(t, u)
      /\ cfg' = [cfg EXCEPT ![u] = NewConfig(t)]
      /\ Goto(t, "save")
  BY <1>1 DEF Create, CreateTask
<1>3. /\ hs'[t].pc = "save" /\ hs'[t].task = hs[t].task
      /\ \A h \in Handlers \ {t} : hs'[h] = hs[h]
  BY <1>w, <1>2 DEF Goto, HandlerState
<1>4. \A h \in Executors : hs'[h] = hs[h]
  BY <1>w, <1>3 DEF Handlers
<1>5. /\ cfg'[u].task = t /\ cfg'[u].compiler = NoPid /\ cfg'[u].runner = NoPid
      /\ \A v \in Uids \ {u} : cfg'[v] = cfg[v]
  BY <1>w, <1>1, <1>2 DEF NewConfig
<1>6. \A k \in tickets' : k \in tickets \/ (k.task = t /\ k.uid = u)
  BY <1>2 DEF NewTickets
<1>7. /\ \A v \in Uids : cfg[v].task # t
      /\ \A k \in tickets : k.sec = "execute" => k.task # t
      /\ \A h \in Executors : Live(h) => hs[h].task # t
  BY <1>1 DEF RInv, FreshInv, At
<1> HIDE DEF u
<1>8. OwnTask'
  BY <1>1, <1>3, <1>w DEF RInv, OwnTask, Live, At
<1>9. CompilerInv' /\ RunnerInv' /\ OnePlace'
  BY <1>5, <1>7, NoConfigFacts DEF RInv, CompilerInv, RunnerInv, OnePlace
<1>10. FreshInv'
  <2> SUFFICES ASSUME NEW s \in Tasks, hs'[s].pc \in {"idle", "create"}
               PROVE  /\ \A v \in Uids : cfg'[v].task # s
                      /\ \A k \in tickets' : k.sec = "execute" => k.task # s
                      /\ \A h \in Executors : Live(h)' => hs'[h].task # s
    BY DEF FreshInv
  <2>1. s # t /\ hs[s].pc \in {"idle", "create"}
    BY <1>w, <1>3
  <2>2. QED
    BY <1>4, <1>5, <1>6, <2>1 DEF RInv, FreshInv, Live
<1>11. TicketInv'
  <2> SUFFICES ASSUME NEW k \in tickets', k.sec = "execute"
               PROVE  /\ cfg'[k.uid].runner \notin Executors
                      /\ \A h \in Executors : Live(h)' => hs'[h].task # k.task
    BY DEF TicketInv
  <2>1. CASE k \in tickets
    <3>1. k.uid \in Uids /\ cfg[k.uid].runner \notin Executors
      BY <1>w, <2>1 DEF Ticket, RInv, TicketInv
    <3>2. cfg'[k.uid].runner \notin Executors
      BY <1>5, <3>1, NoConfigFacts
    <3>3. QED
      BY <1>4, <2>1, <3>2 DEF RInv, TicketInv, Live
  <2>2. CASE k \notin tickets
    BY <1>4, <1>5, <1>6, <1>7, <2>2, NoConfigFacts DEF Live
  <2>3. QED
    BY <2>1, <2>2
<1>12. OneExecutor' /\ PlaceInv'
  BY <1>w, <1>3, <1>4 DEF RInv, OneExecutor, PlaceInv, Live, At
<1>13. EarlyInv'
  <2> SUFFICES ASSUME NEW h \in Executors, hs'[h].pc \in Early,
                      cfg'[hs'[h].uid].task = hs'[h].task
               PROVE  cfg'[hs'[h].uid].runner \notin Executors
    BY DEF EarlyInv
  <2>1. hs'[h] = hs[h] /\ h \in Handlers /\ Live(h)
    BY <1>4 DEF Handlers, Early, Live
  <2>2. hs[h].uid \in Uids
    BY <2>1, LiveUid
  <2>3. hs[h].uid # u
    BY <1>5, <1>7, <2>1
  <2>4. QED
    BY <1>5, <2>1, <2>2, <2>3 DEF RInv, EarlyInv
<1>14. RegisteredStep
  BY <1>1, <1>5, NoConfigFacts DEF RegisteredStep
<1>15. QED
  BY <1>8, <1>9, <1>10, <1>11, <1>12, <1>13, <1>14 DEF RInv

(* The config that a process finds is that of its task.                    *)
LEMMA WorkerConfig ==
  ASSUME TInv, JInv, NEW h \in Workers, AtWork(h), ReadInfoOK(hs[h].uid)
  PROVE  hs[h].uid \in Uids /\ cfg[hs[h].uid].task = hs[h].task /\ hs[h].task \in Tasks
<1>1. h \in Handlers /\ Live(h) /\ hs[h].task \in Tasks
  BY DEF Workers, Handlers, AtWork, Working, Live, TInv, HandlersAreAttached
<1>2. hs[h].uid \in Uids
  BY <1>1, LiveUid
<1>3. cfg[hs[h].uid].task \in {NoTask, hs[h].task}
  BY <1>1, NoConfigFacts DEF JInv, HandlersMeetTheirTask
<1>4. QED
  BY <1>1, <1>2, <1>3 DEF ReadInfoOK

LEMMA RegistersKeeps ==
  ASSUME TInv, JInv, RInv, Registers
  PROVE  RInv' /\ RegisteredStep
<1>w. /\ Workers \subseteq Handlers /\ Tasks \subseteq Workers /\ Executors \subseteq Workers
      /\ cfg \in [Uids -> Config] /\ tickets \subseteq Ticket
      /\ Tasks \cap Executors = {}
  BY HandlersAssumption DEF Workers, Handlers, TInv, TypeOK, StoreTypeOK
<1>1. CASE \E t \in Tasks : AtWork(t) /\ ReadInfoOK(hs[t].uid) /\ SetCompiler(t, hs[t].uid)
  <2>1. PICK t \in Tasks : AtWork(t) /\ ReadInfoOK(hs[t].uid) /\ SetCompiler(t, hs[t].uid)
    BY <1>1
  <2>2. PICK u \in Uids : u = hs[t].uid /\ cfg[u].task = t
    <3>1. hs[t].uid \in Uids /\ cfg[hs[t].uid].task = hs[t].task
      BY <1>w, <2>1, WorkerConfig
    <3>2. hs[t].task = t
      BY <2>1 DEF RInv, OwnTask, AtWork, Working, Live
    <3>3. QED
      BY <3>1, <3>2
  <2>3. /\ cfg' = [cfg EXCEPT ![u].compiler = t] /\ UNCHANGED tickets
    BY <2>1, <2>2 DEF SetCompiler
  <2>4. /\ cfg'[u] = [cfg[u] EXCEPT !.compiler = t]
        /\ \A v \in Uids \ {u} : cfg'[v] = cfg[v]
    BY <1>w, <2>3
  <2>5. /\ cfg'[u].task = cfg[u].task /\ cfg'[u].compiler = t
        /\ cfg'[u].runner = cfg[u].runner /\ cfg'[u].monitor = cfg[u].monitor
    BY <1>w, <2>4 DEF Config
  <2>6. \A v \in Uids : cfg'[v].task = cfg[v].task /\ cfg'[v].runner = cfg[v].runner
    BY <2>4, <2>5
  <2>7. CompilerInv'
    BY <2>2, <2>4, <2>5 DEF RInv, CompilerInv
  <2>8. RegisteredStep
    BY <2>2, <2>4, <2>5 DEF RInv, CompilerInv, RegisteredStep
  <2>9. AllGoOn /\ TicketsGoOn
    BY <2>3 DEF Registers, TicketsGoOn
  <2>10. RunnerInv' /\ TicketInv' /\ EarlyInv'
    BY <2>6, <2>9, RunnersKeep
  <2>11. QED
    BY <2>6, <2>7, <2>8, <2>9, <2>10, HandlersKeep DEF RInv
<1>2. CASE \E h \in Workers : /\ At(h, "runner") /\ ReadInfoOK(hs[h].uid)
                             /\ SetRunner(h, hs[h].uid) /\ hs'[h].pc \notin Early
  <2>1. PICK h \in Workers : /\ At(h, "runner") /\ ReadInfoOK(hs[h].uid)
                             /\ SetRunner(h, hs[h].uid) /\ hs'[h].pc \notin Early
    BY <1>2
  <2>2. PICK u \in Uids : u = hs[h].uid /\ cfg[u].task = hs[h].task /\ cfg[u].task \in Tasks
    BY <2>1, WorkerConfig DEF AtWork, At, Working, Pcs
  <2>3. /\ cfg' = [cfg EXCEPT ![u].runner = h] /\ UNCHANGED tickets
    BY <2>1, <2>2 DEF SetRunner
  <2>4. /\ cfg'[u] = [cfg[u] EXCEPT !.runner = h]
        /\ \A v \in Uids \ {u} : cfg'[v] = cfg[v]
    BY <1>w, <2>3
  <2>5. /\ cfg'[u].task = cfg[u].task /\ cfg'[u].compiler = cfg[u].compiler
        /\ cfg'[u].runner = h /\ cfg'[u].monitor = cfg[u].monitor
    BY <1>w, <2>4 DEF Config
  <2>6. \A v \in Uids : cfg'[v].task = cfg[v].task /\ cfg'[v].compiler = cfg[v].compiler
    BY <2>4, <2>5
  <2>7. CompilerInv'
    BY <2>6 DEF RInv, CompilerInv
  <2>8. h \in Tasks => h = cfg[u].task /\ ~Interactive(cfg[u].task)
    BY <2>1, <2>2 DEF RInv, OwnTask, PlaceInv, At, Live
  <2>9. h \in Executors => Interactive(cfg[u].task) /\ cfg[u].runner \notin Executors
    BY <2>1, <2>2 DEF RInv, PlaceInv, EarlyInv, Early, At
  <2>10. cfg[u].runner \in {NoPid, h}
    <3>1. cfg[u].runner \in Tasks \cup Executors \cup {NoPid}
      BY <1>w DEF Config
    <3>2. QED
      BY <3>1, <2>8, <2>9 DEF RInv, RunnerInv, Workers
  <2>11. RunnerInv'
    BY <1>w, <2>4, <2>5, <2>8, <2>9 DEF RInv, RunnerInv, Workers
  <2>12. RegisteredStep
    BY <2>4, <2>5, <2>10 DEF RegisteredStep
  <2>13. OwnTask' /\ OnePlace' /\ FreshInv' /\ OneExecutor' /\ PlaceInv'
    BY <2>3, <2>6, HandlersKeep DEF Registers, TicketsGoOn
  <2>14. TicketInv'
    <3> SUFFICES ASSUME NEW k \in tickets, k.sec = "execute"
                 PROVE  /\ cfg'[k.uid].runner \notin Executors
                        /\ \A g \in Executors : Live(g)' => hs'[g].task # k.task
      BY <2>3 DEF TicketInv
    <3>1. /\ k.uid \in Uids /\ cfg[k.uid].runner \notin Executors
          /\ \A g \in Executors : Live(g) => hs[g].task # k.task
      BY <1>w DEF RInv, TicketInv, Ticket
    <3>2. cfg[k.uid].task = k.task
      BY DEF JInv, TicketsLeadToTheirTask
    <3>3. h \in Executors => k.uid # u
      BY <2>1, <2>2, <3>1, <3>2 DEF At, Live
    <3>4. cfg'[k.uid].runner \notin Executors
      BY <1>w, <2>4, <2>5, <3>1, <3>3 DEF Workers
    <3>5. QED
      BY <1>w, <3>1, <3>4, LiveBefore DEF Registers
  <2>15. EarlyInv'
    <3> SUFFICES ASSUME NEW g \in Executors, hs'[g].pc \in Early,
                        cfg'[hs'[g].uid].task = hs'[g].task
                 PROVE  cfg'[hs'[g].uid].runner \notin Executors
      BY DEF EarlyInv
    <3>1. g # h
      BY <2>1
    <3>2. Live(g)'
      BY DEF Early, Live
    <3>3. /\ Live(g) /\ hs'[g].uid = hs[g].uid /\ hs'[g].task = hs[g].task
          /\ hs[g].pc \in Early
      BY <1>w, <3>2, LiveBefore DEF Registers
    <3>4. hs[g].uid \in Uids
      BY <1>w, <3>3, LiveUid
    <3>5. cfg[hs[g].uid].task = hs[g].task /\ cfg[hs[g].uid].runner \notin Executors
      BY <2>6, <3>3, <3>4 DEF RInv, EarlyInv
    <3>6. CASE hs[g].uid = u
      <4>1. h \notin Executors
        BY <2>1, <2>2, <3>1, <3>3, <3>5, <3>6 DEF RInv, OneExecutor, At, Live
      <4>2. QED
        BY <2>5, <3>3, <3>6, <4>1
    <3>7. CASE hs[g].uid # u
      BY <2>4, <3>3, <3>4, <3>5, <3>7
    <3>8. QED
      BY <3>6, <3>7
  <2>16. QED
    BY <2>7, <2>11, <2>12, <2>13, <2>14, <2>15 DEF RInv
<1>3. QED
  BY <1>1, <1>2 DEF Registers

(* An execute ticket is deleted when it is opened.                         *)
LEMMA OpenExecuteKeeps ==
  ASSUME TInv, JInv, RInv, NEW h \in Executors, NEW k \in tickets, OpenExecute(h, k)
  PROVE  RInv' /\ RegisteredStep
<1>w. /\ h \in Handlers /\ h \notin Tasks /\ h \notin Janitors /\ tickets \subseteq Ticket
      /\ Tasks \subseteq Handlers /\ Executors \subseteq Handlers
      /\ hs \in [Handlers -> HandlerState]
  BY HandlersAssumption DEF Handlers, TInv, TypeOK, StoreTypeOK
<1>1. /\ hs[h].pc = "idle" /\ k.sec = "execute" /\ cfg' = cfg /\ tickets' = tickets \ {k}
      /\ k.uid \in Uids /\ k.task \in Tasks /\ cfg[k.uid].task = k.task
  BY <1>w DEF OpenExecute, Open, UseTicket, At, Ticket, JInv, TicketsLeadToTheirTask
<1>2. CASE Finish(h)
  <2>1. AllGoOn
    BY <1>w, <1>2, FinishGoesOn
  <2>2. RegQuiet
    BY <1>1, <2>1 DEF RegQuiet, ConfigGoesOn, TicketsGoOn
  <2>3. QED
    BY <2>2, RegQuietKeeps
<1>3. CASE hs' = [hs EXCEPT ![h] = Attached("poll", k.uid, k.task)]
  <2>1. /\ Attached("poll", k.uid, k.task).pc = "poll"
        /\ Attached("poll", k.uid, k.task).uid = k.uid
        /\ Attached("poll", k.uid, k.task).task = k.task
    BY AtPcOK DEF Attached, HandlerState, Pcs
  <2>2. /\ hs'[h].pc = "poll" /\ hs'[h].uid = k.uid /\ hs'[h].task = k.task
        /\ \A g \in Handlers \ {h} : hs'[g] = hs[g]
    BY <1>w, <1>3, <2>1
  <2>3. \A t \in Tasks : hs'[t] = hs[t]
    BY <1>w, <2>2
  <2>4. /\ cfg[k.uid].runner \notin Executors
        /\ \A g \in Executors : Live(g) => hs[g].task # k.task
    BY <1>1 DEF RInv, TicketInv
  <2>5. OwnTask' /\ OnePlace' /\ CompilerInv' /\ RunnerInv' /\ RegisteredStep
    BY <1>1, <2>3 DEF RInv, OwnTask, OnePlace, CompilerInv, RunnerInv, RegisteredStep, Live
  <2>6. FreshInv'
    BY <1>w, <1>1, <2>2, <2>3 DEF RInv, FreshInv, Live
  <2>7. TicketInv'
    <3> SUFFICES ASSUME NEW j \in tickets', j.sec = "execute"
                 PROVE  /\ cfg[j.uid].runner \notin Executors
                        /\ \A g \in Executors : Live(g)' => hs'[g].task # j.task
      BY <1>1 DEF TicketInv
    <3>1. j \in tickets /\ j # k /\ j \in Ticket /\ k \in Ticket
      BY <1>w, <1>1
    <3>2. cfg[j.uid].task = j.task /\ j.uid \in Uids /\ j.task \in Tasks
      BY <3>1 DEF JInv, TicketsLeadToTheirTask, Ticket
    <3>3. j.task # k.task
      <4>1. j.task = k.task => j.uid = k.uid
        BY <1>1, <3>2, NoConfigFacts DEF RInv, OnePlace
      <4>2. QED
        BY <1>1, <3>1, <4>1 DEF Ticket
    <3>4. QED
      BY <1>w, <2>2, <3>1, <3>3 DEF RInv, TicketInv, Live
  <2>8. OneExecutor'
    BY <1>w, <2>2, <2>4 DEF RInv, OneExecutor, Live
  <2>9. EarlyInv'
    BY <1>w, <1>1, <2>2, <2>4 DEF RInv, EarlyInv
  <2>10. PlaceInv'
    BY <1>w, <2>2, <2>3 DEF RInv, PlaceInv, At
  <2>11. QED
    BY <2>5, <2>6, <2>7, <2>8, <2>9, <2>10 DEF RInv
<1>4. QED
  BY <1>2, <1>3 DEF OpenExecute, Open

LEMMA KindKeepsRegistrations ==
  ASSUME TInv, JInv, RInv, Kind
  PROVE  RInv' /\ RegisteredStep
<1>1. CASE Quiet
  <2>1. RegQuiet
    BY <1>1 DEF Quiet, RegQuiet
  <2>2. QED
    BY <2>1, RegQuietKeeps
<1>2. CASE Removes
  <2>1. PICK u \in Uids : CleanPrisonerFiles(u)
    BY <1>2 DEF Removes
  <2>2. cfg' = [cfg EXCEPT ![u] = NoConfig] /\ tickets' \subseteq tickets
    BY <2>1 DEF CleanPrisonerFiles
  <2>3. RegQuiet
    BY <1>2, <2>2 DEF Removes, RegQuiet, TicketsGoOn, ConfigGoesOn, TInv, TypeOK, StoreTypeOK
  <2>4. QED
    BY <2>3, RegQuietKeeps
<1>3. CASE Saves \/ Takes
  <2>1. UNCHANGED <<cfg, tickets>> /\ AllGoOn
    BY <1>3 DEF Saves, Takes, SetCompilationOutput, SetExecutionOutput, TakeResult
  <2>2. RegQuiet
    BY <2>1 DEF RegQuiet, TicketsGoOn, ConfigGoesOn
  <2>3. QED
    BY <2>2, RegQuietKeeps
<1>4. QED
  BY <1>1, <1>2, <1>3, RegistersKeeps, RequestKeeps, CreateKeeps, OpenExecuteKeeps DEF Kind

-----------------------------------------------------------------------------
(* What the kinds do to the results.                                       *)

LEMMA SameTasksKeepResults ==
  ASSUME ResultsBelongToTask, UNCHANGED <<comp, exec>>,
         \A u \in Uids : cfg'[u].task = cfg[u].task \/ comp[u] = NoTask
  PROVE  ResultsBelongToTask'
  BY DEF ResultsBelongToTask

LEMMA SavesKeepResults ==
  ASSUME TInv, JInv, RInv, ResultsBelongToTask, Saves
  PROVE  ResultsBelongToTask'
<1>0. comp \in [Uids -> Tasks \cup {NoTask}] /\ exec \in [Uids -> Tasks \cup {NoTask}]
  BY DEF TInv, TypeOK, StoreTypeOK
<1>1. PICK t \in Tasks :
        /\ AtWork(t) /\ ReadInfoOK(hs[t].uid)
        /\ \/ comp[hs[t].uid] = NoTask /\ SetCompilationOutput(t, hs[t].uid)
           \/ /\ comp[hs[t].uid] # NoTask /\ exec[hs[t].uid] = NoTask
              /\ SetExecutionOutput(t, hs[t].uid)
  BY DEF Saves
<1>2. hs[t].uid \in Uids /\ cfg[hs[t].uid].task = hs[t].task
  BY <1>1, WorkerConfig DEF Workers
<1>3. hs[t].task = t
  BY <1>1 DEF RInv, OwnTask, AtWork, Working, Live
<1>4. PICK u \in Uids : u = hs[t].uid /\ cfg[u].task = t
  BY <1>2, <1>3
<1>5. CASE comp[u] = NoTask /\ SetCompilationOutput(t, u)
  BY <1>0, <1>4, <1>5 DEF SetCompilationOutput, ResultsBelongToTask
<1>6. CASE comp[u] # NoTask /\ SetExecutionOutput(t, u)
  BY <1>0, <1>4, <1>6 DEF SetExecutionOutput, ResultsBelongToTask
<1>7. QED
  BY <1>1, <1>4, <1>5, <1>6

LEMMA KindKeepsResults ==
  ASSUME TInv, JInv, RInv, ResultsBelongToTask, Kind
  PROVE  ResultsBelongToTask'
<1>0. /\ comp \in [Uids -> Tasks \cup {NoTask}] /\ exec \in [Uids -> Tasks \cup {NoTask}]
      /\ cfg \in [Uids -> Config]
  BY DEF TInv, TypeOK, StoreTypeOK
<1>1. CASE Quiet
  BY <1>1, SameTasksKeepResults DEF Quiet, ConfigGoesOn
<1>2. CASE Removes
  <2>1. PICK u \in Uids : CleanPrisonerFiles(u)
    BY <1>2 DEF Removes
  <2>2. QED
    BY <1>0, <2>1 DEF CleanPrisonerFiles, ResultsBelongToTask
<1>3. CASE Takes
  <2>1. PICK u \in Uids : TakeResult(u)
    BY <1>3 DEF Takes
  <2>2. QED
    BY <1>0, <2>1 DEF TakeResult, ResultsBelongToTask
<1>4. CASE Registers
  <2>1. PICK u, c : UNCHANGED <<comp, exec>> /\ cfg' = [cfg EXCEPT ![u] = c]
                    /\ (u \in Uids => c.task = cfg[u].task)
    <3>1. CASE \E t \in Tasks : AtWork(t) /\ ReadInfoOK(hs[t].uid) /\ SetCompiler(t, hs[t].uid)
      <4>1. PICK t \in Tasks : SetCompiler(t, hs[t].uid)
        BY <3>1
      <4> DEFINE c == [cfg[hs[t].uid] EXCEPT !.compiler = t]
      <4>2. hs[t].uid \in Uids => c.task = cfg[hs[t].uid].task
        BY <1>0 DEF Config
      <4>3. cfg' = [cfg EXCEPT ![hs[t].uid] = c] /\ UNCHANGED <<comp, exec>>
        BY <4>1 DEF SetCompiler
      <4> HIDE DEF c
      <4>4. QED
        BY <4>2, <4>3
    <3>2. CASE \E h \in Workers : SetRunner(h, hs[h].uid)
      <4>1. PICK h \in Workers : SetRunner(h, hs[h].uid)
        BY <3>2
      <4> DEFINE c == [cfg[hs[h].uid] EXCEPT !.runner = h]
      <4>2. hs[h].uid \in Uids => c.task = cfg[hs[h].uid].task
        BY <1>0 DEF Config
      <4>3. cfg' = [cfg EXCEPT ![hs[h].uid] = c] /\ UNCHANGED <<comp, exec>>
        BY <4>1 DEF SetRunner
      <4> HIDE DEF c
      <4>4. QED
        BY <4>2, <4>3
    <3>3. QED
      BY <1>4, <3>1, <3>2 DEF Registers
  <2>2. \A v \in Uids : cfg'[v].task = cfg[v].task
    BY <1>0, <2>1
  <2>3. QED
    BY <2>1, <2>2, SameTasksKeepResults
<1>5. CASE \E t \in Tasks, u \in Uids : Request(t, u)
  BY <1>5, SameTasksKeepResults DEF Request, SelectPrisoner
<1>6. CASE \E t \in Tasks : Create(t)
  <2>1. PICK t \in Tasks : Create(t)
    BY <1>6
  <2>2. hs[t].uid \in ctrl /\ cfg[hs[t].uid] = NoConfig
    BY <2>1 DEF Create, JInv, CreatingAlone
  <2>3. cfg' = [cfg EXCEPT ![hs[t].uid] = NewConfig(t)] /\ UNCHANGED <<comp, exec>>
    BY <2>1, <2>2 DEF Create, CreateTask
  <2>4. hs[t].uid \in Uids => comp[hs[t].uid] = NoTask
    BY <2>2, NoConfigFacts DEF ResultsBelongToTask
  <2>5. QED
    BY <1>0, <2>3, <2>4, SameTasksKeepResults
<1>7. CASE \E h \in Executors, k \in tickets : OpenExecute(h, k)
  BY <1>7, SameTasksKeepResults DEF OpenExecute, Open, UseTicket
<1>8. QED
  BY <1>1, <1>2, <1>3, <1>4, <1>5, <1>6, <1>7, SavesKeepResults DEF Kind

-----------------------------------------------------------------------------
(* Every step is of one of the kinds.                                      *)

LEMMA IsQuiet ==
  ASSUME AllGoOn, UNCHANGED <<cfg, comp, exec, tickets>>
  PROVE  Kind
  BY DEF Kind, Quiet, ConfigGoesOn, TicketsGoOn

LEMMA TaskStepKind ==
  ASSUME TInv, NEW t \in Tasks, TaskStep(t)
  PROVE  Kind
<1>h. t \in Handlers /\ t \in Workers /\ t \notin Executors
  BY HandlersAssumption DEF Handlers, Workers
<1>p. {"save", "extra", "compiler", "launchCompiler", "compiled", "waitMonitor", "runner"}
        \subseteq Pcs
  BY DEF Pcs
<1>1. CASE Create(t)
  BY <1>1 DEF Kind
<1>2. CASE RegisterCompiler(t)
  <2>1. Live(t) /\ AtWork(t)
    BY <1>2 DEF RegisterCompiler, At, Live, AtWork, Working, Pcs
  <2>2. AllGoOn
    BY <1>h, <1>p, <1>2, <2>1, GotoGoesOn, FinishGoesOn DEF RegisterCompiler, Early
  <2>3. CASE ReadInfoOK(hs[t].uid)
    BY <1>2, <2>1, <2>2, <2>3 DEF RegisterCompiler, Kind, Registers
  <2>4. CASE ~ReadInfoOK(hs[t].uid)
    BY <1>2, <2>2, <2>4, IsQuiet DEF RegisterCompiler, store
  <2>5. QED
    BY <2>3, <2>4
<1>3. CASE SaveCompilation(t) \/ SaveExecution(t)
  <2>1. Live(t) /\ AtWork(t)
    BY <1>3 DEF SaveCompilation, SaveExecution, At, Live, AtWork, Working, Pcs
  <2>2. AllGoOn
    BY <1>h, <1>p, <1>3, <2>1, GotoGoesOn, FinishGoesOn DEF SaveCompilation, SaveExecution, Early
  <2>3. CASE UNCHANGED store
    BY <2>2, <2>3, IsQuiet DEF store
  <2>4. CASE ~UNCHANGED store
    BY <1>3, <2>1, <2>2, <2>4 DEF SaveCompilation, SaveExecution, Kind, Saves
  <2>5. QED
    BY <2>3, <2>4
<1>4. CASE SaveFiles(t) \/ ExtraInfo(t) \/ Compiled(t) \/ WaitMonitor(t)
  <2>1. Live(t)
    BY <1>4 DEF SaveFiles, ExtraInfo, Compiled, WaitMonitor, At, Live
  <2>2. AllGoOn
    BY <1>h, <1>p, <1>4, <2>1, GotoGoesOn, FinishGoesOn
       DEF SaveFiles, ExtraInfo, Compiled, WaitMonitor, Early
  <2>3. UNCHANGED <<cfg, comp, exec, tickets>>
    BY <1>4 DEF SaveFiles, ExtraInfo, Compiled, WaitMonitor, store
  <2>4. QED
    BY <2>2, <2>3, IsQuiet
<1>5. QED
  BY <1>1, <1>2, <1>3, <1>4 DEF TaskStep

LEMMA RunStepKind ==
  ASSUME TInv, NEW h \in Workers, RunStep(h)
  PROVE  Kind
<1>h. h \in Handlers
  BY DEF Handlers, Workers
<1>w. Live(h)
  BY DEF RunStep, RegisterRunner, Launch, LoopOf, LoopEnds, LoopKills, LoopThrows,
         InLoop, At, Live, LoopWarns
<1>a. AfterLoop(h) \in {"saveCompilation", "saveExecution", "ending", "ran"}
  BY DEF AfterLoop
<1>p. {"saveCompilation", "saveExecution", "ending", "ran", "launch", "compiling", "running"}
        \subseteq Pcs
  BY DEF Pcs
<1>1. CASE RegisterRunner(h)
  <2>1. AllGoOn
    BY <1>h, <1>w, <1>p, <1>1, GotoGoesOn, FinishGoesOn DEF RegisterRunner, Early
  <2>2. CASE ReadInfoOK(hs[h].uid)
    <3>1. hs'[h].pc = "launch"
      BY <1>h, <1>1, <2>2 DEF RegisterRunner, Goto, TInv, TypeOK, HandlerState
    <3>2. QED
      BY <1>1, <2>1, <2>2, <3>1 DEF RegisterRunner, Kind, Registers, Early
  <2>3. CASE ~ReadInfoOK(hs[h].uid)
    BY <1>1, <2>1, <2>3, IsQuiet DEF RegisterRunner, store
  <2>4. QED
    BY <2>2, <2>3
<1>2. CASE Launch(h)
  <2>1. hs[h].pc \in DOMAIN LoopOf => LoopOf[hs[h].pc] \in {"compiling", "running"}
    BY DEF LoopOf
  <2>2. AllGoOn
    BY <1>h, <1>w, <1>a, <1>p, <1>2, <2>1, GotoGoesOn DEF Launch, Early
  <2>3. QED
    BY <1>2, <2>2, IsQuiet DEF Launch
<1>3. CASE LoopEnds(h) \/ LoopWarns(h) \/ LoopKills(h) \/ LoopThrows(h)
  <2>1. UNCHANGED <<cfg, comp, exec, tickets>>
    BY <1>3 DEF LoopEnds, LoopWarns, LoopKills, LoopThrows, StopPrisonerProcess, store
  <2>2. CASE hs' = hs
    <3>1. AllGoOn
      BY <2>2 DEF AllGoOn, GoesOn
    <3>2. QED
      BY <2>1, <3>1, IsQuiet
  <2>3. CASE Goto(h, AfterLoop(h)) \/ Finish(h)
    <3>1. AllGoOn
      BY <1>h, <1>w, <1>a, <1>p, <2>3, GotoGoesOn, FinishGoesOn DEF Early
    <3>2. QED
      BY <2>1, <3>1, IsQuiet
  <2>4. QED
    BY <1>3, <2>2, <2>3 DEF LoopEnds, LoopWarns, LoopKills, LoopThrows
<1>4. QED
  BY <1>1, <1>2, <1>3 DEF RunStep

(* A snapshot that getState() took of the task says beforeRunning only of  *)
(* an interactive task.                                                    *)
LEMMA BeforeRunningIsInteractive ==
  ASSUME RInv, NEW h \in Executors, At(h, "decide"), Observed(h) = "beforeRunning"
  PROVE  Interactive(hs[h].task)
<1>1. hs[h].snap.cfg.task \in {NoTask, hs[h].task}
  BY DEF RInv, PlaceInv
<1>2. hs[h].snap.cfg.task # NoTask /\ Interactive(hs[h].snap.cfg.task)
  BY DEF Observed, GetState, NoRunnerState, DeadRunnerState
<1>3. QED
  BY <1>1, <1>2

LEMMA PollStepKind ==
  ASSUME TInv, JInv, RInv, NEW h \in Handlers, PollStep(h)
  PROVE  Kind
<1>0. hs[h] \in HandlerState /\ cfg \in [Uids -> Config]
  BY DEF TInv, TypeOK, StoreTypeOK
<1>1. Live(h) /\ UNCHANGED <<cfg, comp, exec, tickets>>
  BY DEF PollStep, ReadState, Decide, At, Live, store
<1>2. CASE ReadState(h)
  <2> DEFINE r == [hs[h] EXCEPT !.pc = IF At(h, "poll") THEN "decide" ELSE "visited",
                     !.snap = [cfg |-> cfg[hs[h].uid], age |-> age[hs[h].uid]]]
  <2>1. /\ r.pc = IF At(h, "poll") THEN "decide" ELSE "visited"
        /\ r.uid = hs[h].uid /\ r.task = hs[h].task
        /\ r.snap = [cfg |-> cfg[hs[h].uid], age |-> age[hs[h].uid]]
    BY <1>0 DEF HandlerState
  <2>2. hs' = [hs EXCEPT ![h] = r]
    BY <1>2 DEF ReadState
  <2>3. hs[h].task \in Tasks
    BY <1>2 DEF ReadState, TInv, HandlersAreAttached, Working, Pcs
  <2>4. cfg[hs[h].uid].task \in {NoTask, hs[h].task}
    BY <1>1, <2>3, NoConfigFacts DEF JInv, HandlersMeetTheirTask
  <2> HIDE DEF r
  <2>5. r.snap.cfg.task \in {NoTask, hs[h].task}
    BY <2>1, <2>4
  <2>6. r.pc \in {"decide", "visited"} /\ (r.pc = "decide" => hs[h].pc = "poll")
    BY <2>1 DEF At
  <2>7. AllGoOn
    BY <1>1, <2>1, <2>2, <2>5, <2>6, OneGoesOn DEF Early
  <2>8. QED
    BY <1>1, <2>7, IsQuiet
<1>3. CASE Decide(h)
  <2>1. CASE h \in Monitors \cup Admins \cup Janitors
    <3>1. (\E r : hs' = [hs EXCEPT ![h] = r]) \/ hs' = hs
      BY <1>3, HandlersAssumption, <2>1
         DEF Decide, MonitorDecides, RunningDecides, JanitorDecides, Clean, Finish
    <3>2. AllGoOn
      BY <2>1, <3>1, OthersGoOn
    <3>3. QED
      BY <1>1, <3>2, IsQuiet
  <2>2. CASE h \in Executors /\ ExecuteDecides(h)
    <3>1. At(h, "decide") /\ h \in Workers /\ h \notin Tasks
      BY <1>3, <2>2, HandlersAssumption DEF Decide, Workers
    <3>2. AllGoOn
      <4>1. CASE Continue(h, "poll")
        BY <1>1, <3>1, <4>1, GotoGoesOn DEF Pcs, Early, At
      <4>2. CASE Observed(h) = "beforeRunning" /\ Continue(h, "runner")
        <5>1. Interactive(hs[h].task)
          BY <2>2, <3>1, <4>2, BeforeRunningIsInteractive
        <5>2. QED
          BY <1>1, <3>1, <4>2, <5>1, GotoGoesOn DEF Pcs, Early, At
      <4>3. CASE Clean(h, "done") \/ Finish(h)
        BY <1>1, <4>3, CleanGoesOn, FinishGoesOn
      <4>4. QED
        BY <2>2, <4>1, <4>2, <4>3 DEF ExecuteDecides
    <3>3. QED
      BY <1>1, <3>2, IsQuiet
  <2>3. QED
    BY <1>3, <2>1, <2>2 DEF Decide
<1>4. QED
  BY <1>2, <1>3 DEF PollStep

(* Monitors register themselves when they open their ticket; the other     *)
(* tickets but an execute ticket change nothing but tickets.               *)
LEMMA OpenKind ==
  ASSUME TInv, NEW h \in Monitors \cup Admins, NEW k \in tickets, NEW l,
         k.sec # "execute", Open(h, k, l)
  PROVE  Kind
<1>0. cfg \in [Uids -> Config] /\ h \notin Janitors
  BY HandlersAssumption DEF TInv, TypeOK, StoreTypeOK
<1>1. AllGoOn
  <2>1. \E r : hs' = [hs EXCEPT ![h] = r]
    BY DEF Open, Finish
  <2>2. QED
    BY <2>1, OthersGoOn
<1>2. TicketsGoOn /\ UNCHANGED <<comp, exec>>
  BY DEF TicketsGoOn, Open, UseTicket
<1>3. \A u \in Uids : ConfigGoesOn(u)
  <2>1. CASE cfg' = cfg
    BY <2>1 DEF ConfigGoesOn
  <2>2. CASE cfg[k.uid].monitor = NoPid /\ cfg' = [cfg EXCEPT ![k.uid].monitor = h]
    <3> SUFFICES ASSUME NEW u \in Uids PROVE ConfigGoesOn(u)
      OBVIOUS
    <3>1. CASE u = k.uid
      <4>1. cfg'[u] = [cfg[u] EXCEPT !.monitor = h]
        BY <1>0, <2>2, <3>1
      <4>2. cfg[u] \in Config /\ cfg[u].monitor = NoPid
        BY <1>0, <2>2, <3>1
      <4>3. QED
        BY <4>1, <4>2 DEF ConfigGoesOn, Config
    <3>2. CASE u # k.uid
      BY <1>0, <2>2, <3>2 DEF ConfigGoesOn
    <3>3. QED
      BY <3>1, <3>2
  <2>3. QED
    BY <2>1, <2>2 DEF Open, UseTicket
<1>4. QED
  BY <1>1, <1>2, <1>3 DEF Kind, Quiet

LEMMA OpenStepKind ==
  ASSUME TInv, NEW k \in tickets,
         \/ \E h \in Monitors : OpenMonitor(h, k)
         \/ \E h \in Executors : OpenExecute(h, k)
         \/ \E h \in Admins : \/ OpenRunning(h, k) \/ OpenStop(h, k) \/ OpenGetResult(h, k)
                              \/ OpenUpdate(h, k) \/ OpenVisit(h, k)
  PROVE  Kind
<1>1. CASE \E h \in Executors : OpenExecute(h, k)
  BY <1>1 DEF Kind
<1>2. CASE \E h \in Monitors \cup Admins : \E l : k.sec # "execute" /\ Open(h, k, l)
  BY <1>2, OpenKind
<1>3. QED
  BY <1>1, <1>2
     DEF OpenMonitor, OpenRunning, OpenStop, OpenGetResult, OpenUpdate, OpenVisit

LEMMA EventKind ==
  ASSUME TInv,
         \/ \E h \in Monitors : ClientCloses(h) \/ ClientSends(h) \/ MonitorTimeout(h)
         \/ \E h \in Executors : ExecuteGivesUp(h) \/ ExecuteStep(h)
         \/ \E h \in Admins : Update(h) \/ VisitDecides(h) \/ VisitEnds(h)
  PROVE  Kind
<1>1. PICK h \in Handlers :
        \/ ClientCloses(h) \/ ClientSends(h) \/ MonitorTimeout(h)
        \/ h \in Executors /\ (ExecuteGivesUp(h) \/ ExecuteStep(h))
        \/ h \in Admins /\ (Update(h) \/ VisitDecides(h) \/ VisitEnds(h))
  BY DEF Handlers
<1>2. Live(h)
  BY <1>1 DEF ClientCloses, ClientSends, MonitorTimeout, Watching, ExecuteGivesUp, ExecuteStep,
         ExecuteEnds, ExecuteLeaves, Update, VisitDecides, VisitEnds, At, Live
<1>3. UNCHANGED <<cfg, comp, exec, tickets>>
  BY <1>1 DEF ClientCloses, ClientSends, MonitorTimeout, ExecuteGivesUp, ExecuteStep,
         ExecuteEnds, ExecuteLeaves, Update, VisitDecides, VisitEnds, store
<1>4. CASE (\E l : Clean(h, l)) \/ Finish(h)
  BY <1>2, <1>3, <1>4, CleanGoesOn, FinishGoesOn, IsQuiet
<1>5. CASE Goto(h, "ending") \/ (h \in Admins /\ Continue(h, "session"))
  <2>1. AllGoOn
    <3>1. {"ending", "session"} \subseteq Pcs
      BY DEF Pcs
    <3>2. QED
      BY <1>2, <1>5, <3>1, GotoGoesOn DEF Early
  <2>2. QED
    BY <1>3, <2>1, IsQuiet
<1>6. CASE ClientCloses(h) \/ ClientSends(h) \/ MonitorTimeout(h) \/ ExecuteGivesUp(h)
  BY <1>4, <1>6 DEF ClientCloses, ClientSends, MonitorTimeout, ExecuteGivesUp
<1>7. CASE ExecuteStep(h)
  <2>1. Goto(h, "ending") \/ Clean(h, "ending") \/ Clean(h, "done") \/ Finish(h)
    BY <1>7 DEF ExecuteStep, ExecuteEnds, ExecuteLeaves
  <2>2. QED
    BY <1>4, <1>5, <2>1
<1>8. CASE h \in Admins /\ (Update(h) \/ VisitDecides(h) \/ VisitEnds(h))
  BY <1>4, <1>5, <1>8 DEF Update, VisitDecides, VisitEnds
<1>9. QED
  BY <1>1, <1>6, <1>7, <1>8

LEMMA GetResultKind ==
  ASSUME TInv, NEW h \in Admins, GetResult(h)
  PROVE  Kind
<1>1. h \in Handlers /\ hs[h].uid \in Uids
  BY DEF Handlers, GetResult, At, TInv, HandlersAreAttached, Working, Pcs
<1>2. AllGoOn
  BY <1>1, FinishGoesOn DEF GetResult
<1>3. CASE UNCHANGED store
  BY <1>2, <1>3, IsQuiet DEF store
<1>4. CASE TakeResult(hs[h].uid)
  BY <1>1, <1>2, <1>4 DEF Kind, Takes
<1>5. QED
  BY <1>3, <1>4 DEF GetResult

LEMMA PassthroughTicketKind ==
  ASSUME TInv, NEW h \in Monitors, PassthroughTicket(h)
  PROVE  Kind
<1>1. h \in Handlers /\ Live(h)
  BY DEF Handlers, PassthroughTicket, At, Live
<1>2. AllGoOn
  <2>1. h \notin Workers /\ "poll" \in Pcs
    BY HandlersAssumption DEF Workers, Pcs
  <2>2. QED
    BY <1>1, <2>1, GotoGoesOn, FinishGoesOn DEF PassthroughTicket, Workers
<1>3. CASE UNCHANGED store
  BY <1>2, <1>3, IsQuiet DEF store
<1>4. CASE AddPassthroughTicket(hs[h].uid)
  <2>1. TicketsGoOn /\ UNCHANGED <<comp, exec>>
    BY <1>4 DEF TicketsGoOn, AddPassthroughTicket
  <2>2. ASSUME NEW u \in Uids PROVE ConfigGoesOn(u)
    <3>1. cfg \in [Uids -> Config] /\ cfg' = [cfg EXCEPT ![hs[h].uid].http = TRUE]
      BY <1>4 DEF AddPassthroughTicket, TInv, TypeOK, StoreTypeOK
    <3>2. cfg'[u] = cfg[u] \/ cfg'[u] = [cfg[u] EXCEPT !.http = TRUE]
      BY <3>1
    <3>3. cfg[u] \in Config
      BY <3>1
    <3>4. QED
      BY <3>2, <3>3 DEF ConfigGoesOn, Config
  <2>3. QED
    BY <1>2, <2>1, <2>2 DEF Kind, Quiet
<1>5. QED
  BY <1>3, <1>4 DEF PassthroughTicket

(* cleanTask() marks the config and removes tickets, then kills, then      *)
(* removes the task.                                                       *)
LEMMA CleanStepKind ==
  ASSUME TInv, NEW h \in Handlers, CleanStep(h)
  PROVE  Kind
<1>1. Live(h) /\ hs[h].uid \in Uids
  BY DEF CleanStep, Mark, Kill, Check, Remove, At, Live, TInv, HandlersAreAttached,
         Working, Pcs
<1>2. AllGoOn
  <2>1. {"kill", "check", "remove"} \subseteq Pcs
    BY DEF Pcs
  <2>2. QED
    BY <1>1, <2>1, GotoGoesOn, ReturnFromCleanGoesOn
       DEF CleanStep, Mark, Kill, Check, Remove, Early
<1>3. CASE Mark(h)
  <2>1. TicketsGoOn /\ UNCHANGED <<comp, exec>>
    BY <1>3 DEF Mark, MarkCleaning, TicketsGoOn
  <2>2. ASSUME NEW u \in Uids PROVE ConfigGoesOn(u)
    <3>1. /\ cfg \in [Uids -> Config]
          /\ cfg' = cfg \/ cfg' = [cfg EXCEPT ![hs[h].uid].cleaning = TRUE]
      BY <1>3 DEF Mark, MarkCleaning, TInv, TypeOK, StoreTypeOK
    <3>2. cfg'[u] = cfg[u] \/ cfg'[u] = [cfg[u] EXCEPT !.cleaning = TRUE]
      BY <3>1
    <3>3. cfg[u] \in Config
      BY <3>1
    <3>4. QED
      BY <3>2, <3>3 DEF ConfigGoesOn, Config
  <2>3. QED
    BY <1>2, <2>1, <2>2 DEF Kind, Quiet
<1>4. CASE Kill(h) \/ Check(h)
  <2>1. UNCHANGED <<cfg, comp, exec, tickets>>
    BY <1>4 DEF Kill, Check, StopPrisonerProcess, store
  <2>2. QED
    BY <1>2, <2>1, IsQuiet
<1>5. CASE Remove(h)
  BY <1>1, <1>2, <1>5 DEF Remove, Kind, Removes
<1>6. QED
  BY <1>3, <1>4, <1>5 DEF CleanStep

LEMMA JanitorKind ==
  ASSUME TInv, NEW z \in Janitors,
         (\E u \in Uids : JanitorVisit(z, u)) \/ JanitorRemoves(z)
  PROVE  Kind
<1>1. AllGoOn
  <2>1. (\E r : hs' = [hs EXCEPT ![z] = r]) \/ hs' = hs
    BY DEF JanitorVisit, JanitorNoHome, JanitorOpens, JanitorOrphanHome, JanitorRemoves, Finish
  <2>2. QED
    BY <2>1, OthersGoOn
<1>2. CASE UNCHANGED <<cfg, comp, exec, tickets>>
  BY <1>1, <1>2, IsQuiet
<1>3. CASE \E u \in Uids : CleanPrisonerFiles(u)
  BY <1>1, <1>3 DEF Kind, Removes
<1>4. ASSUME JanitorRemoves(z) PROVE hs[z].uid \in Uids
  BY <1>4 DEF JanitorRemoves, At, TInv, HandlersAreAttached, Working, Pcs, Handlers
<1>5. QED
  BY <1>2, <1>3, <1>4
     DEF JanitorVisit, JanitorNoHome, JanitorOpens, JanitorOrphanHome, JanitorRemoves, store

LEMMA OtherKind ==
  ASSUME TInv,
         \/ \E t \in Tasks, u \in Uids :
              \/ RequestSkipsHome(t, u) \/ RequestFails(t, u)
              \/ ProgramBuilds(t, u) \/ ProgramEnds(t, u)
         \/ \E u \in Uids : Tick(u)
         \/ \E h \in CanCrash : Crash(h)
         \/ UNCHANGED vars
  PROVE  Kind
<1>1. Tasks \subseteq Handlers /\ CanCrash \subseteq Handlers
  BY HandlersAssumption DEF Handlers
<1>2. hs' = hs \/ \E h \in Handlers : Finish(h)
  BY <1>1 DEF RequestSkipsHome, RequestFails, ProgramBuilds, ProgramEnds, Tick, Crash, vars
<1>3. AllGoOn
  BY <1>2, FinishGoesOn DEF AllGoOn, GoesOn
<1>4. UNCHANGED <<cfg, comp, exec, tickets>>
  BY DEF RequestSkipsHome, SelectOrphanHome, RequestFails, SelectFails, ProgramBuilds,
         ProgramEnds, Tick, Crash, vars, store
<1>5. QED
  BY <1>3, <1>4, IsQuiet

LEMMA Kinds ==
  ASSUME TInv, JInv, RInv, [Next]_vars
  PROVE  Kind
<1>1. CASE \E t \in Tasks, u \in Uids : Request(t, u)
  BY <1>1 DEF Kind
<1>2. CASE \E h \in Workers : RunStep(h)
  BY <1>2, RunStepKind
<1>3. CASE \E h \in Handlers : PollStep(h) \/ CleanStep(h)
  BY <1>3, PollStepKind, CleanStepKind
<1>4. QED
  BY <1>1, <1>2, <1>3, TaskStepKind, OpenStepKind, EventKind, GetResultKind,
     PassthroughTicketKind, JanitorKind, OtherKind DEF Next, AdminStep, Workers

-----------------------------------------------------------------------------
LEMMA RInvInit == Init => RInv /\ ResultsBelongToTask
<1> SUFFICES ASSUME Init PROVE RInv /\ ResultsBelongToTask
  OBVIOUS
<1>1. \A h \in Handlers : hs[h].pc = "idle"
  BY AtPcOK DEF Init, Pcs
<1>2. \A h \in Workers : hs[h].pc = "idle"
  BY <1>1 DEF Workers, Handlers
<1>3. \A u \in Uids : cfg[u] = NoConfig /\ comp[u] = NoTask /\ exec[u] = NoTask
  BY DEF Init, StoreInit
<1>4. tickets = {}
  BY DEF Init, StoreInit
<1>5. CompilerInv /\ RunnerInv /\ OnePlace /\ ResultsBelongToTask
  BY <1>3, NoConfigFacts DEF CompilerInv, RunnerInv, OnePlace, ResultsBelongToTask
<1>6. OwnTask /\ OneExecutor /\ EarlyInv /\ PlaceInv /\ TicketInv
  BY <1>2, <1>4 DEF OwnTask, OneExecutor, EarlyInv, PlaceInv, TicketInv, Workers, Live, At, Early
<1>7. FreshInv
  BY <1>2, <1>3, <1>4, NoConfigFacts DEF FreshInv, Workers, Live
<1>8. QED
  BY <1>5, <1>6, <1>7 DEF RInv

LEMMA AllInvInit == Init => TInv /\ JInv /\ RInv /\ ResultsBelongToTask
  BY TInvInit, JInvInit, RInvInit

LEMMA AllInvNext ==
  ASSUME ~UidReuse, Timely
  PROVE  TInv /\ JInv /\ RInv /\ ResultsBelongToTask /\ [Next]_vars
           => (TInv /\ JInv /\ RInv /\ ResultsBelongToTask)' /\ RegisteredStep
  BY TInvNext, JInvNext, Kinds, KindKeepsRegistrations, KindKeepsResults

(* What commandGetResult() sends as compilation and execution was written  *)
(* by the task that was asked for it: no result outlives its task or       *)
(* reaches the next task under the same uid, and no execution is there     *)
(* without its compilation.                                                *)
THEOREM ResultsStayWithTheirTask ==
  ASSUME ~UidReuse, Timely
  PROVE Spec => []ResultsBelongToTask
<1>1. Init => TInv /\ JInv /\ RInv /\ ResultsBelongToTask
  BY AllInvInit
<1>2. (TInv /\ JInv /\ RInv /\ ResultsBelongToTask) /\ [Next]_vars
        => (TInv /\ JInv /\ RInv /\ ResultsBelongToTask)'
  BY AllInvNext
<1>3. QED
  BY <1>1, <1>2, PTL DEF Spec

(* No process takes the place of the compiler, the runner or the monitor   *)
(* that is registered for a task: an execute ticket, deleted when it is    *)
(* opened, admits one runner, and a batch task only runs itself.           *)
THEOREM RegistrationsStayFinal ==
  ASSUME ~UidReuse, Timely
  PROVE Spec => RegistrationsAreFinal
<1>1. Init => TInv /\ JInv /\ RInv /\ ResultsBelongToTask
  BY AllInvInit
<1>2. (TInv /\ JInv /\ RInv /\ ResultsBelongToTask) /\ [Next]_vars
        => (TInv /\ JInv /\ RInv /\ ResultsBelongToTask)'
  BY AllInvNext
<1>3. TInv /\ JInv /\ RInv /\ ResultsBelongToTask /\ [Next]_vars =>
        [\A u \in Uids : cfg[u].task # NoTask /\ cfg'[u].task # NoTask =>
           \A f \in {"task", "compiler", "runner", "monitor"} :
             cfg[u][f] = NoPid \/ cfg'[u][f] = cfg[u][f]]_vars
  BY AllInvNext DEF RegisteredStep
<1>4. QED
  BY <1>1, <1>2, <1>3, PTL DEF Spec, RegistrationsAreFinal

-----------------------------------------------------------------------------
(* Programs that outlive their task.  The janitor removes an old task that *)
(* it cannot open without looking at its processes: that leaves none that  *)
(* it should have waited for when SIGKILL ends them and nobody is lost     *)
(* between marking a task and killing its processes.                       *)

KillsSucceed == Stubborn = {} /\ CanCrash = {}
CatchesUp == Janitors = {} \/ KillsSucceed

(* The processes with uid u that were launched in time.                    *)
Stray(u) == procs[u] \ late

Marked == {"kill", "check", "remove", "zombie"}

HomeInv ==
  /\ \A u \in Uids : cfg[u].task # NoTask => u \in home
  /\ \A t \in Tasks : At(t, "create") => hs[t].uid \in home

AdminInv ==
  \A u \in Uids : ReadInfoOK(u) => \E k \in tickets : k.task = cfg[u].task /\ k.sec = "admin"

(* The task of a process is under its uid or gone.                         *)
PlaceOfTask ==
  \A h \in Handlers : Live(h) /\ hs[h].task # NoTask =>
    \A u \in Uids : cfg[u].task = hs[h].task => u = hs[h].uid

YoungInv ==
  \A t \in Tasks : hs[t].pc \in {"idle", "create"} =>
    \A h \in Handlers \ {t} : Live(h) => hs[h].task # t

MarkedInv == \A h \in Handlers : hs[h].pc \in Marked => ~ReadInfoOK(hs[h].uid)

RemoveInv == \A h \in Handlers : At(h, "remove") => Stray(hs[h].uid) = {}

LateInv == CatchesUp => \A u \in Uids : Stray(u) \subseteq {cfg[u].task}

KilledInv ==
  Janitors # {} /\ CatchesUp => \A u \in Uids : cfg[u].cleaning =>
    Stray(u) = {} \/ \E h \in Handlers : At(h, "kill") /\ hs[h].uid = u

KillAge ==
  \A h \in Handlers : At(h, "kill") =>
    cfg[hs[h].uid].task = NoTask \/ age[hs[h].uid] <= 1

LInv ==
  /\ HomeInv /\ AdminInv /\ PlaceOfTask /\ YoungInv /\ MarkedInv
  /\ RemoveInv /\ LateInv /\ KilledInv /\ KillAge

-----------------------------------------------------------------------------
(* Steps that keep this invariant.                                         *)

Follows(h) ==
  \/ hs'[h] = hs[h]
  \/ ~Live(h)' /\ (h \in Tasks => hs'[h].pc = "done")
  \/ /\ Live(h)
     /\ hs'[h].uid = hs[h].uid
     /\ hs'[h].task = hs[h].task
     /\ hs'[h].pc \notin {"idle", "create", "kill", "zombie"}
     /\ hs'[h].pc \in Marked => hs[h].pc \in Marked
     /\ hs'[h].pc = "remove" => procs'[hs[h].uid] = {}
  \/ /\ h \notin Tasks
     /\ hs'[h].pc \notin {"create", "kill", "check", "remove"}
     /\ hs'[h].uid \in Uids
     /\ hs'[h].task \in {NoTask, cfg[hs'[h].uid].task}
     /\ hs'[h].pc = "zombie" => ~ReadInfoOK(hs'[h].uid)

AllFollow == \A h \in Handlers : Follows(h)

KillsGoOn ==
  Janitors # {} /\ CatchesUp => \A h \in Handlers : At(h, "kill") =>
    hs'[h] = hs[h] \/ procs'[hs[h].uid] = {}

SameTask(u) == cfg'[u].task = cfg[u].task /\ cfg'[u].cleaning = cfg[u].cleaning

Steady ==
  /\ AllFollow /\ KillsGoOn
  /\ \A u \in Uids : SameTask(u) \/ (cfg'[u] = NoConfig /\ (CatchesUp => Stray(u) = {}))
  /\ \A u \in Uids :
       \/ Stray(u)' \subseteq Stray(u)
       \/ /\ ReadInfoOK(u) /\ SameTask(u)
          /\ Stray(u)' \subseteq Stray(u) \cup {cfg[u].task}
  /\ \A u \in home : u \in home' \/ (cfg'[u] = NoConfig /\ Settled(u))
  /\ \A k \in tickets : k.sec = "admin" =>
       k \in tickets' \/ \E u \in Uids : cfg'[u] = NoConfig /\ cfg[u].task = k.task
  /\ \A u \in Uids :
       \/ age'[u] <= age[u]
       \/ \A h \in Handlers : At(h, "kill") /\ hs[h].uid = u => age'[u] <= 1

LEMMA HandlerFacts ==
  ASSUME TInv
  PROVE  /\ hs \in [Handlers -> HandlerState] /\ Tasks \subseteq Handlers
         /\ cfg \in [Uids -> Config] /\ tickets \subseteq Ticket
         /\ procs \in [Uids -> SUBSET Tasks] /\ age \in [Uids -> 0 .. 2]
         /\ home \subseteq Uids
         /\ \A h \in Handlers : Live(h) => hs[h].uid \in Uids
  BY LiveUid DEF TInv, TypeOK, StoreTypeOK, Handlers

LEMMA SteadyKeeps ==
  ASSUME TInv, TInv', RInv, LInv, Steady
  PROVE  LInv'
<1>f. /\ hs \in [Handlers -> HandlerState] /\ Tasks \subseteq Handlers
      /\ age \in [Uids -> 0 .. 2] /\ age' \in [Uids -> 0 .. 2]
      /\ tickets \subseteq Ticket
      /\ \A h \in Handlers : Live(h) => hs[h].uid \in Uids
  BY HandlerFacts DEF TInv, TypeOK, StoreTypeOK
<1>c. \A u \in Uids : cfg'[u].task # NoTask \/ cfg'[u].cleaning =>
        cfg'[u].task = cfg[u].task /\ cfg'[u].cleaning = cfg[u].cleaning
  BY DEF Steady, SameTask, NoConfig, NewConfig
<1>1. HomeInv'
  <2>1. ASSUME NEW u \in Uids, cfg'[u].task # NoTask PROVE u \in home'
    <3>1. cfg[u].task # NoTask /\ cfg'[u] # NoConfig
      BY <1>c, <2>1, NoConfigFacts
    <3>2. QED
      BY <3>1 DEF LInv, HomeInv, Steady
  <2>2. ASSUME NEW t \in Tasks, At(t, "create")' PROVE hs'[t].uid \in home'
    <3>1. hs'[t] = hs[t]
      BY <1>f, <2>2 DEF Steady, AllFollow, Follows, At, Live
    <3>2. At(t, "create") /\ hs[t].uid \in home
      BY <2>2, <3>1 DEF LInv, HomeInv, At
    <3>3. ~Settled(hs[t].uid)
      BY <3>2 DEF Settled
    <3>4. QED
      BY <3>1, <3>2, <3>3 DEF Steady
  <2>3. QED
    BY <2>1, <2>2 DEF HomeInv
<1>2. AdminInv'
  <2> SUFFICES ASSUME NEW u \in Uids, ReadInfoOK(u)'
               PROVE  \E k \in tickets' : k.task = cfg'[u].task /\ k.sec = "admin"
    BY DEF AdminInv
  <2>1. ReadInfoOK(u) /\ cfg'[u].task = cfg[u].task /\ cfg'[u] # NoConfig
    BY <1>c, NoConfigFacts DEF ReadInfoOK
  <2>2. PICK k \in tickets : k.task = cfg[u].task /\ k.sec = "admin"
    BY <2>1 DEF LInv, AdminInv
  <2>3. ASSUME NEW v \in Uids, cfg'[v] = NoConfig, cfg[v].task = k.task PROVE FALSE
    BY <2>1, <2>2, <2>3 DEF RInv, OnePlace, ReadInfoOK
  <2>4. k \in tickets'
    BY <2>2, <2>3 DEF Steady
  <2>5. QED
    BY <2>1, <2>2, <2>4
<1>3. PlaceOfTask'
  <2> SUFFICES ASSUME NEW h \in Handlers, Live(h)', hs'[h].task # NoTask,
                      NEW u \in Uids, cfg'[u].task = hs'[h].task
               PROVE  u = hs'[h].uid
    BY DEF PlaceOfTask
  <2>1. cfg[u].task = hs'[h].task
    BY <1>c
  <2>2. CASE hs'[h] = hs[h] \/ (Live(h) /\ hs'[h].uid = hs[h].uid /\ hs'[h].task = hs[h].task)
    <3>1. Live(h) /\ hs'[h].uid = hs[h].uid /\ hs'[h].task = hs[h].task
      BY <2>2 DEF Live
    <3>2. QED
      BY <2>1, <3>1 DEF LInv, PlaceOfTask
  <2>3. CASE hs'[h].uid \in Uids /\ hs'[h].task \in {NoTask, cfg[hs'[h].uid].task}
    BY <2>1, <2>3 DEF RInv, OnePlace
  <2>4. QED
    BY <2>2, <2>3 DEF Steady, AllFollow, Follows
<1>4. YoungInv'
  <2> SUFFICES ASSUME NEW t \in Tasks, hs'[t].pc \in {"idle", "create"},
                      NEW h \in Handlers \ {t}, Live(h)', hs'[h].task = t
               PROVE  FALSE
    BY DEF YoungInv
  <2>1. hs'[t] = hs[t]
    BY <1>f DEF Steady, AllFollow, Follows
  <2>2. CASE hs'[h] = hs[h] \/ (Live(h) /\ hs'[h].uid = hs[h].uid /\ hs'[h].task = hs[h].task)
    <3>1. Live(h) /\ hs[h].task = t
      BY <2>2 DEF Live
    <3>2. QED
      BY <2>1, <3>1 DEF LInv, YoungInv
  <2>3. CASE hs'[h].uid \in Uids /\ hs'[h].task \in {NoTask, cfg[hs'[h].uid].task}
    BY <2>1, <2>3, NoConfigFacts DEF RInv, FreshInv
  <2>4. QED
    BY <2>2, <2>3 DEF Steady, AllFollow, Follows
<1>m. ASSUME NEW h \in Handlers, hs'[h].pc \in Marked \ {"zombie"}
      PROVE  /\ hs[h].pc \in Marked /\ hs'[h].uid = hs[h].uid
             /\ hs'[h] = hs[h] \/ hs'[h].pc # "kill"
             /\ hs'[h] = hs[h] \/ (hs'[h].pc = "remove" => procs'[hs[h].uid] = {})
             /\ hs[h].uid \in Uids
  <2>1. Live(h)'
    BY <1>m DEF Marked, Live
  <2>2. /\ hs[h].pc \in Marked /\ hs'[h].uid = hs[h].uid
        /\ hs'[h] = hs[h] \/ hs'[h].pc # "kill"
        /\ hs'[h] = hs[h] \/ (hs'[h].pc = "remove" => procs'[hs[h].uid] = {})
    BY <1>m, <2>1 DEF Steady, AllFollow, Follows, Marked
  <2>3. QED
    BY <1>f, <2>2 DEF Marked, Live
<1>5. MarkedInv'
  <2> SUFFICES ASSUME NEW h \in Handlers, hs'[h].pc \in Marked, ReadInfoOK(hs[h].uid)'
               PROVE  FALSE
    BY DEF MarkedInv
  <2>1. CASE hs'[h].pc \in Marked \ {"zombie"} \/ hs'[h] = hs[h]
    <3>1. hs[h].pc \in Marked /\ hs'[h].uid = hs[h].uid /\ hs[h].uid \in Uids
      BY <1>f, <1>m, <2>1 DEF Marked, Live
    <3>2. ReadInfoOK(hs[h].uid)
      BY <1>c, <3>1 DEF ReadInfoOK
    <3>3. QED
      BY <3>1, <3>2 DEF LInv, MarkedInv
  <2>2. CASE hs'[h].pc = "zombie" /\ hs'[h] # hs[h]
    <3>1. hs'[h].uid \in Uids /\ ~ReadInfoOK(hs'[h].uid)
      BY <2>2 DEF Steady, AllFollow, Follows, Live
    <3>2. QED
      BY <1>c, <3>1 DEF ReadInfoOK
  <2>3. QED
    BY <2>1, <2>2
<1>6. RemoveInv'
  <2> SUFFICES ASSUME NEW h \in Handlers, At(h, "remove")' PROVE Stray(hs[h].uid)' = {}
    BY DEF RemoveInv
  <2>1. /\ hs[h].pc \in Marked /\ hs'[h].uid = hs[h].uid /\ hs[h].uid \in Uids
        /\ hs'[h] = hs[h] \/ procs'[hs[h].uid] = {}
    BY <1>m DEF At, Marked
  <2>2. CASE hs'[h] = hs[h]
    <3>1. Stray(hs[h].uid) = {} /\ ~ReadInfoOK(hs[h].uid)
      BY <2>1, <2>2 DEF LInv, RemoveInv, MarkedInv, At
    <3>2. QED
      BY <2>1, <3>1 DEF Steady
  <2>3. CASE procs'[hs[h].uid] = {}
    BY <2>1, <2>3 DEF Stray
  <2>4. QED
    BY <2>1, <2>2, <2>3
<1>7. LateInv'
  <2> SUFFICES ASSUME CatchesUp, NEW u \in Uids PROVE Stray(u)' \subseteq {cfg'[u].task}
    BY DEF LateInv, CatchesUp, KillsSucceed
  <2>1. Stray(u) \subseteq {cfg[u].task}
    BY DEF LInv, LateInv
  <2>2. CASE SameTask(u)
    BY <2>1, <2>2 DEF Steady, SameTask
  <2>3. CASE cfg'[u] = NoConfig /\ Stray(u) = {} /\ ~SameTask(u)
    BY <2>3 DEF Steady
  <2>4. QED
    BY <2>2, <2>3 DEF Steady
<1>8. KilledInv'
  <2> SUFFICES ASSUME Janitors # {}, CatchesUp, NEW u \in Uids, cfg'[u].cleaning, Stray(u)' # {}
               PROVE  \E h \in Handlers : At(h, "kill")' /\ hs'[h].uid = u
    BY DEF KilledInv, CatchesUp, KillsSucceed
  <2>1. cfg[u].cleaning /\ ~ReadInfoOK(u)
    BY <1>c DEF ReadInfoOK
  <2>2. Stray(u) # {}
    BY <2>1 DEF Steady
  <2>3. PICK h \in Handlers : At(h, "kill") /\ hs[h].uid = u
    BY <2>1, <2>2 DEF LInv, KilledInv
  <2>4. procs'[u] # {}
    BY DEF Stray
  <2>5. hs'[h] = hs[h]
    BY <2>3, <2>4 DEF Steady, KillsGoOn
  <2>6. QED
    BY <2>3, <2>5 DEF At
<1>9. KillAge'
  <2> SUFFICES ASSUME NEW h \in Handlers, At(h, "kill")', cfg'[hs'[h].uid].task # NoTask
               PROVE  age'[hs'[h].uid] <= 1
    BY DEF KillAge
  <2>1. hs'[h] = hs[h] /\ At(h, "kill") /\ hs[h].uid \in Uids
    BY <1>m DEF At, Marked
  <2>2. PICK u \in Uids : u = hs[h].uid
    BY <2>1
  <2>3. cfg[u].task # NoTask
    BY <1>c, <2>1, <2>2
  <2>4. age[u] <= 1
    BY <2>1, <2>2, <2>3 DEF LInv, KillAge
  <2>5. age[u] \in Nat /\ age'[u] \in Nat
    BY <1>f
  <2>6. age'[u] <= age[u] \/ age'[u] <= 1
    BY <2>1, <2>2 DEF Steady
  <2>7. age'[u] <= 1
    BY <2>4, <2>5, <2>6
  <2>8. QED
    BY <2>1, <2>2, <2>7
<1>10. QED
  BY <1>1, <1>2, <1>3, <1>4, <1>5, <1>6, <1>7, <1>8, <1>9 DEF LInv

(* cleanTask() marks a task before it kills its processes.                 *)
LEMMA MarkKeepsLate ==
  ASSUME TInv, RInv, LInv, NEW h \in Handlers, Mark(h)
  PROVE  LInv'
<1> DEFINE x == hs[h].uid
<1>f. /\ hs \in [Handlers -> HandlerState] /\ Tasks \subseteq Handlers
      /\ cfg \in [Uids -> Config] /\ age \in [Uids -> 0 .. 2] /\ tickets \subseteq Ticket
      /\ \A g \in Handlers : Live(g) => hs[g].uid \in Uids
  BY HandlerFacts
<1>1. hs[h].pc = "mark" /\ Live(h) /\ x \in Uids
  BY <1>f DEF Mark, At, Live
<1>2. /\ hs'[h].pc = "kill" /\ hs'[h].uid = x /\ hs'[h].task = hs[h].task
      /\ \A g \in Handlers \ {h} : hs'[g] = hs[g]
  BY <1>f DEF Mark, Goto, HandlerState
<1>3. UNCHANGED <<home, procs, late>> /\ \A u \in Uids : Stray(u)' = Stray(u)
  BY DEF Mark, MarkCleaning, history, Stray
<1>4. /\ \A u \in Uids : cfg'[u].task = cfg[u].task
      /\ \A u \in Uids \ {x} : cfg'[u] = cfg[u] /\ age'[u] = age[u]
      /\ cfg[x].task # NoTask => cfg'[x].cleaning /\ age'[x] = 0
      /\ cfg[x].task = NoTask => cfg'[x] = cfg[x] /\ age'[x] = age[x]
  <2>1. CASE cfg[x].task = NoTask
    BY <2>1 DEF Mark, MarkCleaning
  <2>2. CASE cfg[x].task # NoTask
    <3>1. cfg' = [cfg EXCEPT ![x].cleaning = TRUE] /\ age' = [age EXCEPT ![x] = 0]
      BY <2>2 DEF Mark, MarkCleaning
    <3>2. cfg[x] \in Config /\ cfg'[x] = [cfg[x] EXCEPT !.cleaning = TRUE]
      BY <1>f, <1>1, <3>1
    <3>3. cfg'[x].cleaning /\ cfg'[x].task = cfg[x].task
      BY <3>2 DEF Config
    <3>4. /\ age'[x] = 0
          /\ \A u \in Uids \ {x} : cfg'[u] = cfg[u] /\ age'[u] = age[u]
      BY <1>f, <1>1, <3>1
    <3>5. QED
      BY <2>2, <3>3, <3>4
  <2>3. QED
    BY <2>1, <2>2
<1>5. tickets' = (tickets \ TicketsOf(cfg[x].task)) \ TicketsOf(hs[h].task)
  BY DEF Mark, MarkCleaning
<1> HIDE DEF x
<1>o. \A u \in Uids : ReadInfoOK(u)' => u # x /\ ReadInfoOK(u)
  BY <1>4 DEF ReadInfoOK
<1>6. HomeInv'
  BY <1>f, <1>2, <1>3, <1>4 DEF LInv, HomeInv, At
<1>7. AdminInv'
  <2> SUFFICES ASSUME NEW u \in Uids, ReadInfoOK(u)'
               PROVE  \E k \in tickets' : k.task = cfg'[u].task /\ k.sec = "admin"
    BY DEF AdminInv
  <2>1. u # x /\ ReadInfoOK(u)
    BY <1>o
  <2>2. PICK k \in tickets : k.task = cfg[u].task /\ k.sec = "admin"
    BY <2>1 DEF LInv, AdminInv
  <2>3. cfg[x].task # k.task
    BY <1>1, <2>1, <2>2 DEF RInv, OnePlace, ReadInfoOK
  <2>4. hs[h].task # k.task
    BY <1>1, <2>1, <2>2 DEF LInv, PlaceOfTask, ReadInfoOK, x
  <2>5. QED
    BY <1>4, <1>5, <2>2, <2>3, <2>4 DEF TicketsOf
<1>8. PlaceOfTask'
  <2> SUFFICES ASSUME NEW g \in Handlers, Live(g)', hs'[g].task # NoTask,
                      NEW u \in Uids, cfg'[u].task = hs'[g].task
               PROVE  u = hs'[g].uid
    BY DEF PlaceOfTask
  <2>1. Live(g) /\ hs'[g].task = hs[g].task /\ hs'[g].uid = hs[g].uid
    BY <1>1, <1>2 DEF Live, x
  <2>2. QED
    BY <1>4, <2>1 DEF LInv, PlaceOfTask
<1>9. YoungInv'
  BY <1>f, <1>1, <1>2 DEF LInv, YoungInv, Live
<1>10. MarkedInv'
  <2> SUFFICES ASSUME NEW g \in Handlers, hs'[g].pc \in Marked, ReadInfoOK(hs[g].uid)'
               PROVE  FALSE
    BY DEF MarkedInv
  <2>1. PICK u : u = hs'[g].uid /\ ReadInfoOK(u)'
    BY DEF ReadInfoOK
  <2>2. CASE g = h
    BY <1>1, <1>2, <1>o, <2>1, <2>2
  <2>3. CASE g # h
    BY <1>f, <1>2, <1>o, <2>1, <2>3 DEF LInv, MarkedInv, Marked, Live
  <2>4. QED
    BY <2>2, <2>3
<1>11. RemoveInv'
  BY <1>f, <1>2, <1>3 DEF LInv, RemoveInv, At, Live, Stray
<1>12. LateInv'
  BY <1>3, <1>4 DEF LInv, LateInv, CatchesUp, KillsSucceed
<1>13. KilledInv'
  <2> SUFFICES ASSUME Janitors # {}, CatchesUp, NEW u \in Uids, cfg'[u].cleaning, Stray(u)' # {}
               PROVE  \E g \in Handlers : At(g, "kill")' /\ hs'[g].uid = u
    BY DEF KilledInv, CatchesUp, KillsSucceed
  <2>1. CASE u = x
    BY <1>2, <2>1 DEF At
  <2>2. CASE u # x
    <3>1. PICK g \in Handlers : At(g, "kill") /\ hs[g].uid = u
      BY <1>3, <1>4, <2>2 DEF LInv, KilledInv
    <3>2. QED
      BY <1>1, <1>2, <3>1 DEF At
  <2>3. QED
    BY <2>1, <2>2
<1>14. KillAge'
  <2> SUFFICES ASSUME NEW g \in Handlers, At(g, "kill")', cfg'[hs'[g].uid].task # NoTask
               PROVE  age'[hs'[g].uid] <= 1
    BY DEF KillAge
  <2>1. hs'[g].uid = hs[g].uid /\ hs[g].uid \in Uids
    BY <1>f, <1>1, <1>2 DEF At, Live, x
  <2>2. CASE hs[g].uid = x
    BY <1>4, <2>1, <2>2
  <2>3. CASE hs[g].uid # x
    BY <1>2, <1>4, <2>1, <2>3 DEF LInv, KillAge, At, x
  <2>4. QED
    BY <2>2, <2>3
<1>15. QED
  BY <1>6, <1>7, <1>8, <1>9, <1>10, <1>11, <1>12, <1>13, <1>14 DEF LInv

LEMMA RequestKeepsLate ==
  ASSUME TInv, RInv, LInv, NEW t \in Tasks, NEW x \in Uids, Request(t, x)
  PROVE  LInv'
<1>f. /\ hs \in [Handlers -> HandlerState] /\ Tasks \subseteq Handlers
      /\ age \in [Uids -> 0 .. 2]
      /\ \A g \in Handlers : Live(g) => hs[g].uid \in Uids
  BY HandlerFacts
<1>1. /\ hs[t].pc = "idle" /\ UNCHANGED <<cfg, tickets, procs, late>>
      /\ hs' = [hs EXCEPT ![t] = Attached("create", x, t)]
      /\ home' = home \cup {x} /\ age' = [age EXCEPT ![x] = 0]
  BY DEF Request, SelectPrisoner, At, history
<1>2. /\ Attached("create", x, t).pc = "create" /\ Attached("create", x, t).uid = x
      /\ Attached("create", x, t).task = t
  BY AtPcOK DEF Attached, HandlerState, Pcs
<1>3. /\ hs'[t].pc = "create" /\ hs'[t].uid = x /\ hs'[t].task = t
      /\ \A g \in Handlers \ {t} : hs'[g] = hs[g]
  BY <1>f, <1>1, <1>2
<1>4. \A u \in Uids : cfg[u].task # t
  BY <1>1 DEF RInv, FreshInv
<1>5. \A u \in Uids : age'[u] = 0 \/ age'[u] = age[u]
  BY <1>f, <1>1
<1>6. HomeInv' /\ AdminInv'
  BY <1>f, <1>1, <1>3 DEF LInv, HomeInv, AdminInv, At, ReadInfoOK
<1>7. PlaceOfTask'
  BY <1>1, <1>3, <1>4 DEF LInv, PlaceOfTask, Live
<1>8. YoungInv'
  <2> SUFFICES ASSUME NEW s \in Tasks, hs'[s].pc \in {"idle", "create"},
                      NEW g \in Handlers \ {s}, Live(g)', hs'[g].task = s
               PROVE  FALSE
    BY DEF YoungInv
  <2>1. g # t /\ hs'[g] = hs[g]
    BY <1>3
  <2>2. hs[s].pc \in {"idle", "create"}
    BY <1>f, <1>1, <1>3
  <2>3. QED
    BY <2>1, <2>2 DEF LInv, YoungInv, Live
<1>9. MarkedInv' /\ RemoveInv' /\ LateInv' /\ KilledInv'
  <2>1. \A g \in Handlers : hs'[g].pc \in Marked => hs'[g] = hs[g]
    BY <1>3 DEF Marked
  <2>2. MarkedInv' /\ RemoveInv'
    BY <1>1, <2>1 DEF LInv, MarkedInv, RemoveInv, Marked, Stray, At, ReadInfoOK
  <2>3. LateInv'
    BY <1>1 DEF LInv, LateInv, Stray, CatchesUp, KillsSucceed
  <2>4. \A g \in Handlers : At(g, "kill") => hs'[g] = hs[g]
    BY <1>1, <1>3 DEF At
  <2>5. KilledInv'
    BY <1>1, <2>4 DEF LInv, KilledInv, Stray, At, CatchesUp, KillsSucceed
  <2>6. QED
    BY <2>2, <2>3, <2>5
<1>10. KillAge'
  <2> SUFFICES ASSUME NEW g \in Handlers, At(g, "kill")', cfg'[hs'[g].uid].task # NoTask
               PROVE  age'[hs'[g].uid] <= 1
    BY DEF KillAge
  <2>1. hs'[g] = hs[g] /\ At(g, "kill") /\ hs[g].uid \in Uids
    BY <1>f, <1>3 DEF At, Live
  <2>2. age[hs[g].uid] <= 1
    BY <1>1, <2>1 DEF LInv, KillAge
  <2>3. QED
    BY <1>5, <2>1, <2>2
<1>11. QED
  BY <1>6, <1>7, <1>8, <1>9, <1>10 DEF LInv

LEMMA CreateKeepsLate ==
  ASSUME TInv, JInv, RInv, LInv, NEW t \in Tasks, Create(t)
  PROVE  LInv'
<1> DEFINE x == hs[t].uid
<1>f. /\ hs \in [Handlers -> HandlerState] /\ Tasks \subseteq Handlers /\ t \in Handlers
      /\ cfg \in [Uids -> Config] /\ age \in [Uids -> 0 .. 2]
      /\ procs \in [Uids -> SUBSET Tasks]
      /\ \A g \in Handlers : Live(g) => hs[g].uid \in Uids
  BY HandlerFacts
<1>1. /\ hs[t].pc = "create" /\ Live(t) /\ x \in Uids /\ x \in ctrl /\ cfg[x] = NoConfig
      /\ hs[t].task = t
      /\ \A g \in Handlers \ {t} : Live(g) => hs[g].uid # x
  BY <1>f DEF Create, JInv, CreatingAlone, At, Live
<1>2. /\ tickets' = tickets \cup NewTickets(t, x)
      /\ cfg' = [cfg EXCEPT ![x] = NewConfig(t)] /\ age' = [age EXCEPT ![x] = 0]
      /\ UNCHANGED <<home, procs, late>> /\ Goto(t, "save")
  BY <1>1 DEF Create, CreateTask, history
<1>3. /\ hs'[t].pc = "save" /\ hs'[t].uid = x /\ hs'[t].task = t
      /\ \A g \in Handlers \ {t} : hs'[g] = hs[g]
  BY <1>f, <1>1, <1>2 DEF Goto, HandlerState
<1>4. /\ cfg'[x].task = t /\ ~cfg'[x].cleaning
      /\ \A v \in Uids \ {x} : cfg'[v] = cfg[v] /\ age'[v] = age[v]
  BY <1>f, <1>1, <1>2 DEF NewConfig
<1> HIDE DEF x
<1>5. \A g \in Handlers : Live(g) /\ g # t => hs[g].task # t
  BY <1>1 DEF LInv, YoungInv
<1>6. HomeInv'
  <2>1. x \in home
    BY <1>1 DEF LInv, HomeInv, At, x
  <2>2. QED
    BY <1>f, <1>2, <1>3, <1>4, <2>1 DEF LInv, HomeInv, At
<1>7. AdminInv'
  <2> SUFFICES ASSUME NEW u \in Uids, ReadInfoOK(u)'
               PROVE  \E k \in tickets' : k.task = cfg'[u].task /\ k.sec = "admin"
    BY DEF AdminInv
  <2>1. CASE u = x
    <3> DEFINE k == [task |-> t, sec |-> "admin", uid |-> x]
    <3>1. k \in NewTickets(t, x) /\ k.task = t /\ k.sec = "admin"
      BY <1>1 DEF NewTickets, Ticket, Security
    <3> HIDE DEF k
    <3>2. QED
      BY <1>2, <1>4, <2>1, <3>1
  <2>2. CASE u # x
    BY <1>2, <1>4, <2>2 DEF LInv, AdminInv, ReadInfoOK
  <2>3. QED
    BY <2>1, <2>2
<1>8. PlaceOfTask'
  <2> SUFFICES ASSUME NEW g \in Handlers, Live(g)', hs'[g].task # NoTask,
                      NEW u \in Uids, cfg'[u].task = hs'[g].task
               PROVE  u = hs'[g].uid
    BY DEF PlaceOfTask
  <2>1. Live(g) /\ hs'[g].task = hs[g].task /\ hs'[g].uid = hs[g].uid
    BY <1>1, <1>3 DEF Live, x
  <2>2. CASE u = x
    BY <1>1, <1>4, <1>5, <2>1, <2>2 DEF x
  <2>3. CASE u # x
    BY <1>4, <2>1, <2>3 DEF LInv, PlaceOfTask
  <2>4. QED
    BY <2>2, <2>3
<1>9. YoungInv'
  BY <1>f, <1>1, <1>3 DEF LInv, YoungInv, Live
<1>g. ASSUME NEW g \in Handlers, hs'[g].pc \in Marked \/ hs[g].pc \in Marked
      PROVE  /\ hs'[g] = hs[g] /\ hs[g].uid \in Uids
             /\ hs[g].uid # x /\ cfg'[hs[g].uid] = cfg[hs[g].uid]
  <2>1. g # t
    BY <1>g, <1>1, <1>3 DEF Marked
  <2>2. Live(g)
    BY <1>g, <1>3, <2>1 DEF Marked, Live
  <2>3. QED
    BY <1>f, <1>1, <1>3, <1>4, <2>1, <2>2
<1>10. MarkedInv' /\ RemoveInv'
  BY <1>2, <1>g DEF LInv, MarkedInv, RemoveInv, Marked, Stray, At, ReadInfoOK
<1>11. LateInv'
  <2>1. CatchesUp => Stray(x) = {}
    BY <1>f, <1>1, NoConfigFacts DEF LInv, LateInv, Stray
  <2>2. QED
    BY <1>2, <1>4, <2>1 DEF LInv, LateInv, Stray, CatchesUp, KillsSucceed
<1>12. KilledInv'
  <2> SUFFICES ASSUME Janitors # {}, CatchesUp, NEW u \in Uids, cfg'[u].cleaning, Stray(u)' # {}
               PROVE  \E g \in Handlers : At(g, "kill")' /\ hs'[g].uid = u
    BY DEF KilledInv, CatchesUp, KillsSucceed
  <2>1. cfg[u].cleaning /\ Stray(u) # {}
    BY <1>2, <1>4 DEF Stray
  <2>2. PICK g \in Handlers : At(g, "kill") /\ hs[g].uid = u
    BY <2>1 DEF LInv, KilledInv
  <2>3. QED
    BY <1>g, <2>2 DEF At, Marked
<1>13. KillAge'
  BY <1>4, <1>g DEF LInv, KillAge, At, Marked
<1>14. QED
  BY <1>6, <1>7, <1>8, <1>9, <1>10, <1>11, <1>12, <1>13 DEF LInv

-----------------------------------------------------------------------------
(* Which steps are steady.                                                 *)

LEMMA OneFollows ==
  ASSUME TInv, NEW h \in Handlers, NEW r, hs' = [hs EXCEPT ![h] = r],
         hs[h].pc # "kill" \/ procs'[hs[h].uid] = {} \/ Janitors = {} \/ ~CatchesUp,
         \/ r.pc = "done"
         \/ r.pc = "idle" /\ h \notin Tasks
         \/ /\ Live(h) /\ r.uid = hs[h].uid /\ r.task = hs[h].task
            /\ r.pc \notin {"idle", "create", "kill", "zombie"}
            /\ r.pc \in Marked => hs[h].pc \in Marked
            /\ r.pc = "remove" => procs'[hs[h].uid] = {}
         \/ /\ h \notin Tasks
            /\ r.pc \notin {"create", "kill", "check", "remove"}
            /\ r.uid \in Uids /\ r.task \in {NoTask, cfg[r.uid].task}
            /\ r.pc = "zombie" => ~ReadInfoOK(r.uid)
  PROVE  AllFollow /\ KillsGoOn
<1>1. hs'[h] = r /\ \A g \in Handlers \ {h} : hs'[g] = hs[g]
  BY HandlerFacts
<1>2. Follows(h)
  BY <1>1 DEF Follows, Live
<1>3. AllFollow
  BY <1>1, <1>2 DEF AllFollow, Follows
<1>4. KillsGoOn
  BY <1>1 DEF KillsGoOn, At
<1>5. QED
  BY <1>3, <1>4

LEMMA NobodyMoves ==
  ASSUME hs' = hs
  PROVE  AllFollow /\ KillsGoOn
  BY DEF AllFollow, Follows, KillsGoOn

LEMMA GotoFollows ==
  ASSUME TInv, NEW h \in Handlers, NEW l \in Pcs \ ({"idle", "create"} \cup Marked),
         Live(h), hs[h].pc # "kill", Goto(h, l) \/ Continue(h, l)
  PROVE  AllFollow /\ KillsGoOn
<1>0. hs[h] \in HandlerState
  BY DEF TInv, TypeOK
<1>1. PICK r \in HandlerState : /\ r.pc = l /\ r.uid = hs[h].uid /\ r.task = hs[h].task
                                /\ hs' = [hs EXCEPT ![h] = r]
  <2>1. CASE Goto(h, l)
    <3> DEFINE r == [hs[h] EXCEPT !.pc = l]
    <3>1. r \in HandlerState /\ r.pc = l /\ r.uid = hs[h].uid /\ r.task = hs[h].task
      BY <1>0 DEF HandlerState
    <3>2. hs' = [hs EXCEPT ![h] = r]
      BY <2>1 DEF Goto
    <3> HIDE DEF r
    <3>3. QED
      BY <3>1, <3>2
  <2>2. CASE Continue(h, l)
    <3> DEFINE r == [hs[h] EXCEPT !.pc = l, !.snap = NoSnapshot]
    <3>1. r \in HandlerState /\ r.pc = l /\ r.uid = hs[h].uid /\ r.task = hs[h].task
      BY <1>0, NoSnapshotOK DEF HandlerState
    <3>2. hs' = [hs EXCEPT ![h] = r]
      BY <2>2 DEF Continue
    <3> HIDE DEF r
    <3>3. QED
      BY <3>1, <3>2
  <2>3. QED
    BY <2>1, <2>2
<1>2. l \notin {"idle", "create", "kill", "zombie"} /\ l \notin Marked /\ l # "remove"
  BY DEF Marked
<1>3. QED
  BY <1>1, <1>2, OneFollows

LEMMA FinishFollows ==
  ASSUME TInv, NEW h \in Handlers, hs[h].pc # "kill" \/ Janitors = {} \/ ~CatchesUp, Finish(h)
  PROVE  AllFollow /\ KillsGoOn
<1>1. CASE h \in Janitors
  <2>1. h \notin Tasks /\ AtPc("idle").pc = "idle" /\ hs' = [hs EXCEPT ![h] = AtPc("idle")]
    BY <1>1, HandlersAssumption, AtPcOK DEF Finish, Pcs
  <2>2. QED
    BY <2>1, OneFollows
<1>2. CASE h \notin Janitors
  <2>1. AtPc("done").pc = "done" /\ hs' = [hs EXCEPT ![h] = AtPc("done")]
    BY <1>2, AtPcOK DEF Finish, Pcs
  <2>2. QED
    BY <2>1, OneFollows
<1>3. QED
  BY <1>1, <1>2

LEMMA CleanFollows ==
  ASSUME TInv, NEW h \in Handlers, NEW l, Live(h), hs[h].pc # "kill", Clean(h, l)
  PROVE  AllFollow /\ KillsGoOn
<1>0. hs[h] \in HandlerState
  BY DEF TInv, TypeOK
<1> DEFINE r == [hs[h] EXCEPT !.pc = "mark", !.next = l, !.snap = NoSnapshot]
<1>1. r.pc = "mark" /\ r.uid = hs[h].uid /\ r.task = hs[h].task
  BY <1>0 DEF HandlerState
<1>2. hs' = [hs EXCEPT ![h] = r]
  BY DEF Clean
<1> HIDE DEF r
<1>3. QED
  BY <1>1, <1>2, OneFollows DEF Marked

LEMMA ReturnFromCleanFollows ==
  ASSUME TInv, NEW h \in Handlers, Live(h), hs[h].pc # "kill", ReturnFromClean(h)
  PROVE  AllFollow /\ KillsGoOn
<1>0. hs[h] \in HandlerState
  BY DEF TInv, TypeOK
<1>1. CASE hs[h].next = "done"
  BY <1>1, FinishFollows DEF ReturnFromClean
<1>2. CASE hs[h].next # "done"
  <2> DEFINE r == [hs[h] EXCEPT !.pc = hs[h].next, !.next = "done"]
  <2>1. r.pc \in {"mark", "ending"} /\ r.uid = hs[h].uid /\ r.task = hs[h].task
    BY <1>0, <1>2 DEF HandlerState
  <2>2. hs' = [hs EXCEPT ![h] = r]
    BY <1>2 DEF ReturnFromClean
  <2> HIDE DEF r
  <2>3. QED
    BY <2>1, <2>2, OneFollows DEF Marked
<1>3. QED
  BY <1>1, <1>2

(* The other fields of the config.                                         *)
LEMMA SameTasks ==
  ASSUME TInv, NEW u, NEW p,
         \/ cfg' = cfg
         \/ cfg' = [cfg EXCEPT ![u].compiler = p]
         \/ cfg' = [cfg EXCEPT ![u].runner = p]
         \/ cfg' = [cfg EXCEPT ![u].monitor = p]
         \/ cfg' = [cfg EXCEPT ![u].http = p]
  PROVE  \A v \in Uids : SameTask(v)
<1> SUFFICES ASSUME NEW v \in Uids PROVE SameTask(v)
  OBVIOUS
<1>0. cfg \in [Uids -> Config] /\ cfg[v] \in Config
  BY DEF TInv, TypeOK, StoreTypeOK
<1>1. \/ cfg'[v] = cfg[v]
      \/ cfg'[v] = [cfg[v] EXCEPT !.compiler = p]
      \/ cfg'[v] = [cfg[v] EXCEPT !.runner = p]
      \/ cfg'[v] = [cfg[v] EXCEPT !.monitor = p]
      \/ cfg'[v] = [cfg[v] EXCEPT !.http = p]
  BY <1>0
<1>2. QED
  BY <1>0, <1>1 DEF SameTask, Config

LEMMA IsSteady ==
  ASSUME TInv, AllFollow, KillsGoOn, \A u \in Uids : SameTask(u),
         \A u \in Uids : procs'[u] \subseteq procs[u],
         late \subseteq late', home \subseteq home',
         \A k \in tickets : k.sec = "admin" => k \in tickets',
         \A u \in Uids : age'[u] = 0 \/ age'[u] = age[u]
  PROVE  Steady
<1>1. \A u \in Uids : Stray(u)' \subseteq Stray(u)
  BY DEF Stray
<1>2. \A u \in Uids : age'[u] <= age[u]
  <2>1. \A u \in Uids : age[u] \in 0 .. 2
    BY HandlerFacts
  <2>2. QED
    BY <2>1
<1>3. QED
  BY <1>1, <1>2 DEF Steady

LEMMA RemovesSteady ==
  ASSUME TInv, AllFollow, KillsGoOn, NEW x \in Uids, CleanPrisonerFiles(x),
         CatchesUp => Stray(x) = {}, Settled(x), late' = late
  PROVE  Steady
<1>f. /\ cfg \in [Uids -> Config] /\ age \in [Uids -> 0 .. 2]
  BY HandlerFacts
<1>1. cfg'[x] = NoConfig /\ \A u \in Uids \ {x} : SameTask(u)
  BY <1>f DEF CleanPrisonerFiles, SameTask
<1>2. \A u \in Uids : Stray(u)' = Stray(u)
  BY DEF CleanPrisonerFiles, Stray
<1>3. \A u \in home : u \in home' \/ u = x
  BY DEF CleanPrisonerFiles
<1>4. \A k \in tickets : k \in tickets' \/ cfg[x].task = k.task
  BY DEF CleanPrisonerFiles, TicketsOf
<1>5. \A u \in Uids : age'[u] <= age[u]
  <2>1. \A u \in Uids : age[u] \in 0 .. 2 /\ (age'[u] = 0 \/ age'[u] = age[u])
    BY <1>f DEF CleanPrisonerFiles
  <2>2. QED
    BY <2>1
<1>6. QED
  BY <1>1, <1>2, <1>3, <1>4, <1>5 DEF Steady

-----------------------------------------------------------------------------
(* The steps of the processes.                                             *)

LEMMA FewerProcesses ==
  ASSUME TInv, NEW x, NEW left, left \subseteq procs[x], procs' = [procs EXCEPT ![x] = left]
  PROVE  /\ \A u \in Uids : procs'[u] \subseteq procs[u]
         /\ x \in Uids => procs'[x] = left
  BY HandlerFacts

LEMMA Labels ==
  {"save", "extra", "compiler", "launchCompiler", "compiling", "saveCompilation", "compiled",
   "waitMonitor", "runner", "launch", "running", "saveExecution", "ran", "ending", "poll",
   "decide", "session"} \subseteq Pcs \ ({"idle", "create"} \cup Marked)
  BY DEF Pcs, Marked

LEMMA TaskStepSteady ==
  ASSUME TInv, NEW t \in Tasks, TaskStep(t), ~Create(t)
  PROVE  Steady
<1>1. t \in Handlers /\ Live(t) /\ hs[t].pc # "kill"
  BY HandlerFacts
     DEF TaskStep, SaveFiles, ExtraInfo, RegisterCompiler, SaveCompilation, Compiled,
         WaitMonitor, SaveExecution, At, Live
<1>2. AllFollow /\ KillsGoOn
  <2>1. \/ Finish(t)
        \/ \E l \in {"save", "extra", "compiler", "launchCompiler", "compiled",
                     "waitMonitor", "runner"} : Goto(t, l)
    BY DEF TaskStep, SaveFiles, ExtraInfo, RegisterCompiler, SaveCompilation, Compiled,
           WaitMonitor, SaveExecution
  <2>2. QED
    BY <1>1, <2>1, Labels, GotoFollows, FinishFollows
<1>3. /\ UNCHANGED <<procs, late, home, tickets>>
      /\ UNCHANGED <<cfg, age>> \/ SetCompiler(t, hs[t].uid)
  BY DEF TaskStep, SaveFiles, ExtraInfo, RegisterCompiler, SaveCompilation, Compiled,
         WaitMonitor, SaveExecution, SetCompiler, SetCompilationOutput, SetExecutionOutput,
         store, history
<1>4. \A u \in Uids : SameTask(u)
  BY <1>3, SameTasks DEF SetCompiler
<1>5. \A u \in Uids : age'[u] = 0 \/ age'[u] = age[u]
  BY <1>3, HandlerFacts DEF SetCompiler
<1>6. QED
  BY <1>2, <1>3, <1>4, <1>5, IsSteady

LEMMA LaunchSteady ==
  ASSUME TInv, JInv, NEW h \in Workers, Launch(h)
  PROVE  Steady
<1>1. /\ h \in Handlers /\ Live(h) /\ AtWork(h) /\ hs[h].pc # "kill"
      /\ hs[h].pc \in {"launchCompiler", "launch"}
  BY DEF Launch, LoopOf, Workers, Handlers, AtWork, Working, Live, Pcs
<1>2. AllFollow /\ KillsGoOn
  <2>1. \E l \in {"compiling", "running", "saveCompilation", "saveExecution", "ending", "ran"} :
          Goto(h, l)
    BY <1>1 DEF Launch, LoopOf, AfterLoop
  <2>2. QED
    BY <1>1, <2>1, Labels, GotoFollows
<1>3. UNCHANGED <<cfg, home, tickets, age>>
  BY DEF Launch
<1>4. \A u \in Uids : SameTask(u) /\ age'[u] <= age[u]
  <2>1. \A u \in Uids : age[u] \in 0 .. 2
    BY HandlerFacts
  <2>2. QED
    BY <1>3, <2>1 DEF SameTask
<1>5. ASSUME NEW u \in Uids
      PROVE  \/ Stray(u)' \subseteq Stray(u)
             \/ ReadInfoOK(u) /\ Stray(u)' \subseteq Stray(u) \cup {cfg[u].task}
  <2>1. CASE UNCHANGED <<procs, late>>
    BY <2>1 DEF Stray
  <2>2. CASE /\ procs' = [procs EXCEPT ![hs[h].uid] = @ \cup {hs[h].task}]
             /\ late' = IF ReadInfoOK(hs[h].uid) THEN late ELSE late \cup {hs[h].task}
    <3>1. CASE u # hs[h].uid
      BY <2>2, <3>1, HandlerFacts DEF Stray
    <3>2. CASE u = hs[h].uid
      <4>1. procs'[u] = procs[u] \cup {hs[h].task}
        BY <2>2, <3>2, HandlerFacts
      <4>2. CASE ReadInfoOK(u)
        <5>1. cfg[u].task = hs[h].task
          BY <1>1, <3>2, <4>2, WorkerConfig
        <5>2. QED
          BY <2>2, <3>2, <4>1, <4>2, <5>1 DEF Stray
      <4>3. CASE ~ReadInfoOK(u)
        BY <2>2, <3>2, <4>1, <4>3 DEF Stray
      <4>4. QED
        BY <4>2, <4>3
    <3>3. QED
      BY <3>1, <3>2
  <2>3. QED
    BY <2>1, <2>2 DEF Launch
<1>6. QED
  BY <1>2, <1>3, <1>4, <1>5 DEF Steady

LEMMA RunStepSteady ==
  ASSUME TInv, JInv, NEW h \in Workers, RunStep(h)
  PROVE  Steady
<1>1. CASE Launch(h)
  BY <1>1, LaunchSteady
<1>2. CASE ~Launch(h)
  <2>1. h \in Handlers /\ Live(h) /\ hs[h].pc # "kill"
    BY <1>2 DEF RunStep, RegisterRunner, LoopEnds, LoopWarns, LoopKills, LoopThrows, InLoop,
                At, Live, Workers, Handlers
  <2>2. AllFollow /\ KillsGoOn
    <3>1. AfterLoop(h) \in {"saveCompilation", "saveExecution", "ending", "ran"}
      BY DEF AfterLoop
    <3>2. \/ hs' = hs \/ Finish(h)
          \/ \E l \in {"saveCompilation", "saveExecution", "ending", "ran", "launch"} :
               Goto(h, l)
      BY <1>2, <3>1
         DEF RunStep, RegisterRunner, LoopEnds, LoopWarns, LoopKills, LoopThrows
    <3>3. QED
      BY <2>1, <3>2, Labels, NobodyMoves, GotoFollows, FinishFollows
  <2>3. UNCHANGED <<late, home, tickets>>
    BY <1>2 DEF RunStep, RegisterRunner, LoopEnds, LoopWarns, LoopKills, LoopThrows,
                SetRunner, StopPrisonerProcess, store, history
  <2>4. (\A u \in Uids : SameTask(u)) /\ \A u \in Uids : age'[u] = 0 \/ age'[u] = age[u]
    <3>1. UNCHANGED <<cfg, age>> \/ SetRunner(h, hs[h].uid)
      BY <1>2 DEF RunStep, RegisterRunner, LoopEnds, LoopWarns, LoopKills, LoopThrows,
                  StopPrisonerProcess, store
    <3>2. QED
      BY <3>1, SameTasks, HandlerFacts DEF SetRunner
  <2>5. \A u \in Uids : procs'[u] \subseteq procs[u]
    <3>1. \/ procs' = procs
          \/ \E soft \in BOOLEAN : StopPrisonerProcess(hs[h].uid, soft)
      BY <1>2 DEF RunStep, RegisterRunner, LoopEnds, LoopWarns, LoopKills, LoopThrows,
                  SetRunner, store
    <3>2. CASE \E left : /\ left \subseteq procs[hs[h].uid]
                         /\ procs' = [procs EXCEPT ![hs[h].uid] = left]
      BY <3>2, FewerProcesses
    <3>3. QED
      BY <3>1, <3>2 DEF StopPrisonerProcess
  <2>6. QED
    BY <2>2, <2>3, <2>4, <2>5, IsSteady
<1>3. QED
  BY <1>1, <1>2

LEMMA OpenStepSteady ==
  ASSUME TInv, JInv, NEW h \in Monitors \cup Executors \cup Admins, NEW k \in tickets,
         \/ OpenMonitor(h, k) \/ OpenExecute(h, k) \/ OpenRunning(h, k) \/ OpenStop(h, k)
         \/ OpenGetResult(h, k) \/ OpenUpdate(h, k) \/ OpenVisit(h, k)
  PROVE  Steady
<1>1. PICK l \in {"poll", "mark", "result", "update", "visit"} : Open(h, k, l)
  BY DEF OpenMonitor, OpenExecute, OpenRunning, OpenStop, OpenGetResult, OpenUpdate, OpenVisit
<1>2. h \in Handlers /\ h \notin Tasks /\ hs[h].pc # "kill"
  BY <1>1, HandlersAssumption DEF Handlers, Open, At
<1>3. AllFollow /\ KillsGoOn
  <2>1. CASE Finish(h)
    BY <1>2, <2>1, FinishFollows
  <2>2. CASE hs' = [hs EXCEPT ![h] = Attached(l, k.uid, k.task)]
    <3> DEFINE r == Attached(l, k.uid, k.task)
    <3>1. k.uid \in Uids /\ cfg[k.uid].task = k.task
      BY HandlerFacts DEF Ticket, JInv, TicketsLeadToTheirTask
    <3>2. AtPc(l) \in HandlerState /\ AtPc(l).pc = l
      BY AtPcOK DEF Pcs
    <3>3. r.pc = l /\ r.uid = k.uid /\ r.task = k.task
      BY <3>2 DEF Attached, HandlerState
    <3>4. hs' = [hs EXCEPT ![h] = r]
      BY <2>2
    <3> HIDE DEF r
    <3>5. QED
      BY <1>2, <3>1, <3>3, <3>4, OneFollows
  <2>3. QED
    BY <1>1, <2>1, <2>2 DEF Open
<1>4. UNCHANGED <<procs, late, home, age>>
  BY <1>1 DEF Open, UseTicket, OpenMonitor, OpenExecute, OpenRunning, OpenStop, OpenGetResult,
              OpenUpdate, OpenVisit, history
<1>5. \A u \in Uids : SameTask(u)
  <2>1. cfg' = cfg \/ cfg' = [cfg EXCEPT ![k.uid].monitor = h]
    BY <1>1 DEF Open, UseTicket
  <2>2. QED
    BY <2>1, SameTasks
<1>6. \A j \in tickets : j.sec = "admin" => j \in tickets'
  BY <1>1 DEF Open, UseTicket
<1>7. QED
  BY <1>3, <1>4, <1>5, <1>6, IsSteady

LEMMA PollStepSteady ==
  ASSUME TInv, NEW h \in Handlers, PollStep(h)
  PROVE  Steady
<1>0. hs[h] \in HandlerState
  BY DEF TInv, TypeOK
<1>1. Live(h) /\ hs[h].pc # "kill" /\ UNCHANGED <<cfg, home, tickets, procs, age, late>>
  BY DEF PollStep, ReadState, Decide, At, Live, store, history
<1>2. AllFollow /\ KillsGoOn
  <2>1. CASE ReadState(h)
    <3> DEFINE r == [hs[h] EXCEPT !.pc = IF At(h, "poll") THEN "decide" ELSE "visited",
                       !.snap = [cfg |-> cfg[hs[h].uid], age |-> age[hs[h].uid]]]
    <3>1. r.pc \in {"decide", "visited"} /\ r.uid = hs[h].uid /\ r.task = hs[h].task
      BY <1>0 DEF HandlerState
    <3>2. hs' = [hs EXCEPT ![h] = r]
      BY <2>1 DEF ReadState
    <3> HIDE DEF r
    <3>3. QED
      BY <1>1, <3>1, <3>2, OneFollows DEF Marked
  <2>2. CASE MonitorDecides(h) /\ MonitorKeepsWatching(h)
    <3>1. PICK l \in {"poll", "browser"} :
            hs' = [hs EXCEPT ![h] = [@ EXCEPT !.pc = l, !.seen = Observed(h),
                                              !.snap = NoSnapshot]]
      BY <2>2 DEF MonitorDecides
    <3> DEFINE r == [hs[h] EXCEPT !.pc = l, !.seen = Observed(h), !.snap = NoSnapshot]
    <3>2. r.pc = l /\ r.uid = hs[h].uid /\ r.task = hs[h].task
      BY <1>0 DEF HandlerState
    <3>3. hs' = [hs EXCEPT ![h] = r]
      BY <3>1
    <3> HIDE DEF r
    <3>4. QED
      BY <1>1, <3>2, <3>3, OneFollows DEF Marked
  <2>3. CASE \/ MonitorDecides(h) /\ ~MonitorKeepsWatching(h)
             \/ ExecuteDecides(h) \/ RunningDecides(h) \/ JanitorDecides(h)
    <3>1. \/ Finish(h) \/ Continue(h, "poll") \/ Continue(h, "runner")
          \/ \E l : Clean(h, l)
      BY <2>3 DEF MonitorDecides, ExecuteDecides, RunningDecides, JanitorDecides
    <3>2. QED
      BY <1>1, <3>1, Labels, GotoFollows, FinishFollows, CleanFollows
  <2>4. QED
    BY <2>1, <2>2, <2>3 DEF PollStep, Decide
<1>3. \A u \in Uids : SameTask(u)
  BY <1>1 DEF SameTask
<1>4. QED
  BY <1>1, <1>2, <1>3, IsSteady

LEMMA EventSteady ==
  ASSUME TInv, NEW h \in Handlers,
         \/ ClientCloses(h) \/ ClientSends(h) \/ MonitorTimeout(h)
         \/ ExecuteGivesUp(h) \/ ExecuteStep(h) \/ AdminStep(h)
  PROVE  Steady
<1>1. Live(h) /\ hs[h].pc # "kill" /\ UNCHANGED <<cfg, home, tickets, age, late>>
  BY DEF ClientCloses, ClientSends, MonitorTimeout, Watching, ExecuteGivesUp, ExecuteStep,
         ExecuteEnds, ExecuteLeaves, AdminStep, GetResult, Update, VisitDecides, VisitEnds,
         At, Live, TakeResult, store, history
<1>2. AllFollow /\ KillsGoOn
  <2>1. \/ Finish(h) \/ Goto(h, "ending") \/ Continue(h, "session")
        \/ \E l : Clean(h, l)
    <3>1. CASE ExecuteStep(h)
      <4>1. Finish(h) \/ Goto(h, "ending") \/ Clean(h, "ending") \/ Clean(h, "done")
        BY <3>1 DEF ExecuteStep, ExecuteEnds, ExecuteLeaves
      <4>2. QED
        BY <4>1
    <3>2. CASE AdminStep(h)
      BY <3>2 DEF AdminStep, GetResult, Update, VisitDecides, VisitEnds
    <3>3. CASE ClientCloses(h) \/ ClientSends(h) \/ MonitorTimeout(h) \/ ExecuteGivesUp(h)
      BY <3>3 DEF ClientCloses, ClientSends, MonitorTimeout, ExecuteGivesUp
    <3>4. QED
      BY <3>1, <3>2, <3>3
  <2>2. QED
    BY <1>1, <2>1, Labels, GotoFollows, FinishFollows, CleanFollows
<1>3. \A u \in Uids : procs'[u] \subseteq procs[u]
  <2>1. CASE procs' = procs
    BY <2>1
  <2>2. CASE \E left : /\ left \subseteq procs[hs[h].uid]
                         /\ procs' = [procs EXCEPT ![hs[h].uid] = left]
    BY <2>2, FewerProcesses
  <2>3. procs' = procs \/ ExecuteEnds(h)
    BY DEF ClientCloses, ClientSends, MonitorTimeout, ExecuteGivesUp, ExecuteStep,
           ExecuteLeaves, AdminStep, GetResult, Update, VisitDecides, VisitEnds,
           TakeResult, store
  <2>4. QED
    BY <2>1, <2>2, <2>3 DEF ExecuteEnds
<1>4. \A u \in Uids : SameTask(u)
  BY <1>1 DEF SameTask
<1>5. QED
  BY <1>1, <1>2, <1>3, <1>4, IsSteady

LEMMA PassthroughTicketSteady ==
  ASSUME TInv, NEW h \in Handlers, PassthroughTicket(h)
  PROVE  Steady
<1>1. Live(h) /\ hs[h].pc # "kill" /\ UNCHANGED <<home, procs, age, late>>
  BY DEF PassthroughTicket, At, Live, AddPassthroughTicket, store, history
<1>2. AllFollow /\ KillsGoOn
  <2>1. Finish(h) \/ Goto(h, "poll")
    BY DEF PassthroughTicket
  <2>2. QED
    BY <1>1, <2>1, Labels, GotoFollows, FinishFollows
<1>3. \A u \in Uids : SameTask(u)
  <2>1. cfg' = cfg \/ cfg' = [cfg EXCEPT ![hs[h].uid].http = TRUE]
    BY DEF PassthroughTicket, AddPassthroughTicket, store
  <2>2. QED
    BY <2>1, SameTasks
<1>4. tickets \subseteq tickets'
  BY DEF PassthroughTicket, AddPassthroughTicket, store
<1>5. QED
  BY <1>1, <1>2, <1>3, <1>4, IsSteady

(* Signals reach every process that does not survive SIGKILL.              *)
LEMMA KillSteady ==
  ASSUME TInv, NEW h \in Handlers, Kill(h)
  PROVE  Steady
<1>1. /\ hs[h].pc = "kill" /\ Live(h) /\ UNCHANGED <<cfg, home, tickets, age, late>>
      /\ Goto(h, "check")
  BY DEF Kill, At, Live, StopPrisonerProcess, history
<1>2. PICK left : /\ left \subseteq procs[hs[h].uid] \cap Stubborn
                  /\ procs' = [procs EXCEPT ![hs[h].uid] = left]
  BY DEF Kill, StopPrisonerProcess
<1>3. \A u \in Uids : procs'[u] \subseteq procs[u]
  BY <1>2, FewerProcesses
<1>4. Janitors = {} \/ ~CatchesUp \/ procs'[hs[h].uid] = {}
  BY <1>1, <1>2, FewerProcesses, HandlerFacts DEF CatchesUp, KillsSucceed
<1>5. AllFollow /\ KillsGoOn
  <2> DEFINE r == [hs[h] EXCEPT !.pc = "check"]
  <2>0. hs[h] \in HandlerState
    BY DEF TInv, TypeOK
  <2>1. r.pc = "check" /\ r.uid = hs[h].uid /\ r.task = hs[h].task
    BY <2>0 DEF HandlerState
  <2>2. hs' = [hs EXCEPT ![h] = r]
    BY <1>1 DEF Goto
  <2> HIDE DEF r
  <2>3. QED
    BY <1>1, <1>4, <2>1, <2>2, OneFollows DEF Marked
<1>6. \A u \in Uids : SameTask(u)
  BY <1>1 DEF SameTask
<1>7. QED
  BY <1>1, <1>3, <1>5, <1>6, IsSteady

LEMMA CheckSteady ==
  ASSUME TInv, NEW h \in Handlers, Check(h)
  PROVE  Steady
<1>1. /\ hs[h].pc = "check" /\ Live(h)
      /\ UNCHANGED <<cfg, home, tickets, age, procs, late>>
  BY DEF Check, At, Live, store, history
<1>2. AllFollow /\ KillsGoOn
  <2>1. CASE procs[hs[h].uid] = {} /\ Goto(h, "remove")
    <3> DEFINE r == [hs[h] EXCEPT !.pc = "remove"]
    <3>0. hs[h] \in HandlerState
      BY DEF TInv, TypeOK
    <3>1. r.pc = "remove" /\ r.uid = hs[h].uid /\ r.task = hs[h].task
      BY <3>0 DEF HandlerState
    <3>2. hs' = [hs EXCEPT ![h] = r]
      BY <2>1 DEF Goto
    <3> HIDE DEF r
    <3>3. QED
      BY <1>1, <2>1, <3>1, <3>2, OneFollows DEF Marked
  <2>2. CASE ReturnFromClean(h)
    BY <1>1, <2>2, ReturnFromCleanFollows
  <2>3. QED
    BY <2>1, <2>2 DEF Check
<1>3. \A u \in Uids : SameTask(u)
  BY <1>1 DEF SameTask
<1>4. QED
  BY <1>1, <1>2, <1>3, IsSteady

LEMMA RemoveSteady ==
  ASSUME TInv, JInv, LInv, NEW h \in Handlers, Remove(h)
  PROVE  Steady
<1>1. /\ hs[h].pc = "remove" /\ Live(h) /\ ~At(h, "create") /\ hs[h].uid \in Uids
      /\ CleanPrisonerFiles(hs[h].uid) /\ ReturnFromClean(h) /\ late' = late
  BY HandlerFacts DEF Remove, At, Live, history
<1>2. AllFollow /\ KillsGoOn
  BY <1>1, ReturnFromCleanFollows
<1>3. Stray(hs[h].uid) = {}
  BY <1>1 DEF LInv, RemoveInv, At
<1>4. Settled(hs[h].uid)
  BY <1>1, WorkerSettled
<1>5. QED
  BY <1>1, <1>2, <1>3, <1>4, RemovesSteady

(* Without task there is no process that was launched in time.             *)
LEMMA NoTaskNoStray ==
  ASSUME TInv, LInv, CatchesUp, NEW u \in Uids, cfg[u].task = NoTask
  PROVE  Stray(u) = {}
  BY HandlerFacts, NoConfigFacts DEF LInv, LateInv, Stray

LEMMA JanitorVisitSteady ==
  ASSUME TInv, JInv, LInv, NEW z \in Janitors, NEW u \in Uids, JanitorVisit(z, u)
  PROVE  Steady
<1>0. z \in Handlers /\ z \notin Tasks /\ hs[z].pc = "idle" /\ late' = late
  BY HandlersAssumption
     DEF Handlers, JanitorVisit, JanitorNoHome, JanitorOpens, JanitorOrphanHome, At, history
<1>1. Settled(u)
  <2>1. age[u] >= 1 /\ age[u] \in 0 .. 2
    BY HandlerFacts DEF JanitorVisit, JanitorNoHome, JanitorOpens, JanitorOrphanHome
  <2>2. age[u] # 0
    BY <2>1
  <2>3. QED
    BY <2>2 DEF Settled, JInv, CreatingAlone
<1>2. CASE JanitorNoHome(z, u) \/ JanitorOrphanHome(z, u)
  <2>1. cfg[u].task = NoTask /\ CleanPrisonerFiles(u) /\ hs' = hs
    BY <1>2 DEF JanitorNoHome, JanitorOrphanHome, LInv, HomeInv
  <2>2. QED
    BY <1>0, <1>1, <2>1, NoTaskNoStray, NobodyMoves, RemovesSteady
<1>3. CASE JanitorOpens(z, u)
  <2>1. PICK l \in {"poll", "zombie"}, t \in {NoTask, cfg[u].task} :
          /\ hs' = [hs EXCEPT ![z] = Attached(l, u, t)]
          /\ l = "zombie" => ~(ReadInfoOK(u) /\ \E k \in TicketsOf(cfg[u].task) : k.sec = "admin")
    BY <1>3 DEF JanitorOpens
  <2>2. l = "zombie" => ~ReadInfoOK(u)
    BY <2>1 DEF LInv, AdminInv, TicketsOf
  <2> DEFINE r == Attached(l, u, t)
  <2>3. AtPc(l) \in HandlerState /\ AtPc(l).pc = l
    BY AtPcOK DEF Pcs
  <2>4. r.pc = l /\ r.uid = u /\ r.task = t
    BY <2>3 DEF Attached, HandlerState
  <2>5. hs' = [hs EXCEPT ![z] = r]
    BY <2>1
  <2> HIDE DEF r
  <2>6. AllFollow /\ KillsGoOn
    BY <1>0, <2>2, <2>4, <2>5, OneFollows
  <2>7. UNCHANGED <<cfg, home, tickets, age, procs>> /\ \A v \in Uids : SameTask(v)
    BY <1>3 DEF JanitorOpens, store, SameTask
  <2>8. QED
    BY <1>0, <2>6, <2>7, IsSteady
<1>4. QED
  BY <1>2, <1>3 DEF JanitorVisit

(* A task that the janitor removes has been marked for so long that its    *)
(* processes have been killed.                                             *)
LEMMA JanitorRemovesSteady ==
  ASSUME TInv, JInv, LInv, NEW z \in Janitors, JanitorRemoves(z)
  PROVE  Steady
<1>1. /\ z \in Handlers /\ Live(z) /\ ~At(z, "create") /\ hs[z].uid \in Uids
      /\ hs[z].pc = "zombie" /\ late' = late /\ Finish(z)
  BY HandlerFacts DEF Handlers, JanitorRemoves, At, Live, history
<1>2. AllFollow /\ KillsGoOn
  BY <1>1, FinishFollows
<1>3. CASE UNCHANGED store
  <2>1. UNCHANGED <<cfg, home, tickets, age, procs>> /\ \A v \in Uids : SameTask(v)
    BY <1>3 DEF store, SameTask
  <2>2. QED
    BY <1>1, <1>2, <2>1, IsSteady
<1>4. CASE age[hs[z].uid] = 2 /\ CleanPrisonerFiles(hs[z].uid)
  <2>1. PICK u \in Uids : u = hs[z].uid
    BY <1>1
  <2>2. ~ReadInfoOK(u)
    BY <1>1, <2>1 DEF LInv, MarkedInv, Marked
  <2>3. ASSUME CatchesUp PROVE Stray(u) = {}
    <3>1. CASE cfg[u].task = NoTask
      BY <2>3, <3>1, NoTaskNoStray
    <3>2. CASE cfg[u].task # NoTask
      <4>1. cfg[u].cleaning
        BY <2>2, <3>2 DEF ReadInfoOK
      <4>2. ASSUME NEW h \in Handlers, At(h, "kill"), hs[h].uid = u PROVE FALSE
        <5>1. age[u] <= 1
          BY <3>2, <4>2 DEF LInv, KillAge
        <5>2. QED
          BY <1>4, <2>1, <5>1
      <4>3. QED
        BY <2>3, <4>1, <4>2 DEF LInv, KilledInv
    <3>3. QED
      BY <3>1, <3>2
  <2>4. Settled(u)
    BY <1>1, <2>1, WorkerSettled
  <2>5. QED
    BY <1>1, <1>2, <1>4, <2>1, <2>3, <2>4, RemovesSteady
<1>5. QED
  BY <1>3, <1>4 DEF JanitorRemoves

(* Timely: no process takes as long as maxtime between marking a task and  *)
(* killing its processes.                                                  *)
LEMMA TickSteady ==
  ASSUME Timely, TInv, NEW u \in Uids, Tick(u)
  PROVE  Steady
<1>1. UNCHANGED <<cfg, home, tickets, procs, late, hs>> /\ age' = [age EXCEPT ![u] = @ + 1]
  BY DEF Tick, history
<1>2. ASSUME NEW v \in Uids
      PROVE  \/ age'[v] <= age[v]
             \/ \A h \in Handlers : At(h, "kill") /\ hs[h].uid = v => age'[v] <= 1
  <2>1. age[v] \in 0 .. 2
    BY HandlerFacts
  <2>2. CASE v # u
    <3>1. age'[v] = age[v]
      BY <1>1, <2>2, HandlerFacts
    <3>2. QED
      BY <2>1, <3>1
  <2>3. CASE v = u
    <3>1. age'[u] = age[u] + 1
      BY <1>1, HandlerFacts
    <3>2. CASE age[u] = 0
      BY <2>3, <3>1, <3>2
    <3>3. CASE age[u] # 0
      <4>1. \A h \in Handlers : hs[h].uid = u => hs[h].pc # "kill"
        BY <3>3 DEF Tick, Limited
      <4>2. QED
        BY <2>3, <4>1 DEF At
    <3>4. QED
      BY <3>2, <3>3
  <2>4. QED
    BY <2>2, <2>3
<1>3. AllFollow /\ KillsGoOn
  BY <1>1, NobodyMoves
<1>4. QED
  BY <1>1, <1>2, <1>3 DEF Steady, SameTask, Stray

LEMMA OtherSteady ==
  ASSUME TInv, JInv,
         \/ \E t \in Tasks, u \in Uids :
              \/ RequestSkipsHome(t, u) \/ RequestFails(t, u)
              \/ ProgramBuilds(t, u) \/ ProgramEnds(t, u)
         \/ \E h \in CanCrash : Crash(h)
         \/ UNCHANGED vars
  PROVE  Steady
<1>0. Tasks \subseteq Handlers /\ CanCrash \subseteq Handlers
  BY HandlersAssumption DEF Handlers
<1>1. /\ UNCHANGED <<cfg, tickets, late>> /\ \A u \in Uids : SameTask(u)
      /\ \A u \in Uids : age'[u] = 0 \/ age'[u] = age[u]
  <2>1. UNCHANGED <<cfg, tickets, late>>
    BY DEF RequestSkipsHome, SelectOrphanHome, RequestFails, SelectFails, ProgramBuilds,
           ProgramEnds, Crash, vars, store, history
  <2>2. age' = age \/ \E u \in Uids : age' = [age EXCEPT ![u] = 0]
    BY DEF RequestSkipsHome, SelectOrphanHome, RequestFails, SelectFails, ProgramBuilds,
           ProgramEnds, Crash, vars, store
  <2>3. QED
    BY <2>1, <2>2, HandlerFacts DEF SameTask
<1>2. AllFollow /\ KillsGoOn
  <2>1. CASE hs' = hs
    BY <2>1, NobodyMoves
  <2>2. CASE \E t \in Tasks : At(t, "idle") /\ Finish(t)
    BY <1>0, <2>2, FinishFollows DEF At
  <2>3. CASE (Janitors = {} \/ ~CatchesUp) /\ \E h \in CanCrash : Finish(h)
    BY <1>0, <2>3, FinishFollows
  <2>4. QED
    BY <2>1, <2>2, <2>3
       DEF RequestSkipsHome, RequestFails, ProgramBuilds, ProgramEnds, Crash, vars,
           CatchesUp, KillsSucceed
<1>3. \A u \in Uids : procs'[u] \subseteq procs[u]
  <2>1. \/ procs' = procs
        \/ \E u \in Uids : \E left : /\ left \subseteq procs[u]
                                     /\ procs' = [procs EXCEPT ![u] = left]
    BY DEF RequestSkipsHome, SelectOrphanHome, RequestFails, SelectFails, ProgramBuilds,
           ProgramEnds, Crash, vars, store
  <2>2. QED
    BY <2>1, FewerProcesses
<1>4. CASE home' = home
  BY <1>1, <1>2, <1>3, <1>4, IsSteady
<1>5. CASE \E t \in Tasks, u \in Uids : RequestSkipsHome(t, u)
  <2>1. PICK x \in Uids : x \notin ctrl /\ home' = home \ {x} /\ procs' = procs /\ age' = age
    BY <1>5 DEF RequestSkipsHome, SelectOrphanHome
  <2>2. cfg'[x] = NoConfig /\ Settled(x)
    BY <1>1, <2>1 DEF JInv, NoStrayConfig, CreatingAlone, Settled
  <2>3. \A u \in Uids : age'[u] <= age[u] /\ Stray(u)' \subseteq Stray(u)
    <3>1. \A u \in Uids : age[u] \in 0 .. 2
      BY HandlerFacts
    <3>2. QED
      BY <1>1, <2>1, <3>1 DEF Stray
  <2>4. QED
    BY <1>1, <1>2, <2>1, <2>2, <2>3 DEF Steady
<1>6. QED
  BY <1>4, <1>5
     DEF RequestFails, SelectFails, ProgramBuilds, ProgramEnds, Crash, vars, store

-----------------------------------------------------------------------------
LEMMA LInvInit == Init => LInv
<1> SUFFICES ASSUME Init PROVE LInv
  OBVIOUS
<1>1. \A h \in Handlers : hs[h].pc = "idle"
  BY AtPcOK DEF Init, Pcs
<1>2. \A u \in Uids : cfg[u] = NoConfig /\ procs[u] = {}
  BY DEF Init, StoreInit
<1>3. HomeInv /\ AdminInv /\ LateInv
  BY <1>1, <1>2, NoConfigFacts DEF HomeInv, AdminInv, LateInv, ReadInfoOK, At, Stray, Handlers
<1>4. PlaceOfTask /\ YoungInv /\ MarkedInv /\ RemoveInv /\ KillAge
  BY <1>1 DEF PlaceOfTask, YoungInv, MarkedInv, RemoveInv, KillAge, Marked, At, Live
<1>5. KilledInv
  BY <1>2 DEF KilledInv, Stray
<1>6. QED
  BY <1>3, <1>4, <1>5 DEF LInv

LEMMA LInvNext ==
  ASSUME Timely, TInv, TInv', JInv, RInv, LInv, [Next]_vars
  PROVE  LInv'
<1>1. CASE Steady
  BY <1>1, SteadyKeeps
<1>2. CASE \E t \in Tasks, u \in Uids : Request(t, u)
  BY <1>2, RequestKeepsLate
<1>3. CASE \E t \in Tasks : Create(t)
  BY <1>3, CreateKeepsLate
<1>4. CASE \E t \in Tasks : TaskStep(t) /\ ~Create(t)
  BY <1>1, <1>4, TaskStepSteady
<1>5. CASE \E h \in Handlers : CleanStep(h)
  BY <1>1, <1>5, MarkKeepsLate, KillSteady, CheckSteady, RemoveSteady DEF CleanStep
<1>6. CASE \E h \in Workers : RunStep(h)
  BY <1>1, <1>6, RunStepSteady
<1>7. CASE \E h \in Handlers :
             \/ PollStep(h) \/ ClientCloses(h) \/ ClientSends(h) \/ MonitorTimeout(h)
             \/ PassthroughTicket(h) \/ ExecuteGivesUp(h) \/ ExecuteStep(h) \/ AdminStep(h)
  BY <1>1, <1>7, PollStepSteady, EventSteady, PassthroughTicketSteady
<1>8. CASE \E h \in Monitors \cup Executors \cup Admins, k \in tickets :
             \/ OpenMonitor(h, k) \/ OpenExecute(h, k) \/ OpenRunning(h, k) \/ OpenStop(h, k)
             \/ OpenGetResult(h, k) \/ OpenUpdate(h, k) \/ OpenVisit(h, k)
  BY <1>1, <1>8, OpenStepSteady
<1>9. CASE \/ \E t \in Tasks, u \in Uids :
                \/ RequestSkipsHome(t, u) \/ RequestFails(t, u)
                \/ ProgramBuilds(t, u) \/ ProgramEnds(t, u)
           \/ \E h \in CanCrash : Crash(h)
           \/ UNCHANGED vars
  BY <1>1, <1>9, OtherSteady
<1>10. CASE \/ \E z \in Janitors, u \in Uids : JanitorVisit(z, u)
            \/ \E z \in Janitors : JanitorRemoves(z)
            \/ \E u \in Uids : Tick(u)
  BY <1>1, <1>10, JanitorVisitSteady, JanitorRemovesSteady, TickSteady
<1>11. Monitors \cup Executors \cup Admins \subseteq Handlers
  BY DEF Handlers
<1>12. QED
  BY <1>2, <1>3, <1>4, <1>5, <1>6, <1>7, <1>8, <1>9, <1>10, <1>11 DEF Next, Workers

LEMMA OnlyLate ==
  ASSUME TInv, LInv, CatchesUp
  PROVE  OnlyLateLaunchesSurvive
<1> SUFFICES ASSUME NEW u \in Uids PROVE ForeignProcesses(u) \subseteq late
  BY DEF OnlyLateLaunchesSurvive
<1>1. Stray(u) \subseteq {cfg[u].task}
  BY DEF LInv, LateInv
<1>2. cfg[u].task = NoTask => Stray(u) = {}
  BY NoTaskNoStray
<1>3. QED
  BY <1>1, <1>2 DEF ForeignProcesses, Stray

(* A program that is found beside the next task of its uid was forked when *)
(* its own task had already been marked or removed: cleanTask() kills and  *)
(* checks after it has marked, so that any earlier launch is caught; the   *)
(* janitor, which removes without checking, comes too late to leave one    *)
(* behind as long as SIGKILL works and the marking process gets to it.     *)
THEOREM OnlyLateLaunchesOutliveTasks ==
  ASSUME ~UidReuse, Timely, Janitors = {} \/ (Stubborn = {} /\ CanCrash = {})
  PROVE Spec => []OnlyLateLaunchesSurvive
<1>1. Init => TInv /\ JInv /\ RInv /\ ResultsBelongToTask /\ LInv
  BY AllInvInit, LInvInit
<1>2. (TInv /\ JInv /\ RInv /\ ResultsBelongToTask /\ LInv) /\ [Next]_vars
        => (TInv /\ JInv /\ RInv /\ ResultsBelongToTask /\ LInv)'
  BY AllInvNext, LInvNext
<1>3. TInv /\ JInv /\ RInv /\ ResultsBelongToTask /\ LInv => OnlyLateLaunchesSurvive
  BY OnlyLate DEF CatchesUp, KillsSucceed
<1>4. QED
  BY <1>1, <1>2, <1>3, PTL DEF Spec

-----------------------------------------------------------------------------
(* What a monitor tells its client.  It reads the config under the lock    *)
(* and looks at processes and files afterwards, so that the invariants say *)
(* how far an old snapshot and an announced state still hold.              *)

(* The config that getState() read is what is there, or less.              *)
Agrees(s, c) ==
  /\ s.task = NoTask => c.task = NoTask
  /\ c.task # NoTask =>
       /\ s.cleaning => c.cleaning
       /\ s.compiler \in {NoPid, c.compiler}
       /\ s.runner \in {NoPid, c.runner}

(* A config in which only the task itself and its runner are registered.   *)
Own(s, t) ==
  /\ s.task \in {NoTask, t}
  /\ s.compiler \in {NoPid, t}
  /\ s.task # NoTask =>
       /\ s.runner \in Tasks => s.runner = t /\ ~Interactive(t)
       /\ s.runner \in Executors => Interactive(t)

SnapInv ==
  \A h \in Handlers : At(h, "decide") =>
    Agrees(hs[h].snap.cfg, cfg[hs[h].uid]) /\ Own(hs[h].snap.cfg, hs[h].task)

(* A process that works on a task has the uid of the request, if that is   *)
(* still under way.                                                        *)
SameUid ==
  \A h \in Handlers : \A t \in Tasks :
    Live(h) /\ Live(t) /\ hs[h].task = t => hs[h].uid = hs[t].uid

(* A request that is under way has started programs under its uid only.    *)
ProcsAtHome ==
  \A u \in Uids : \A t \in procs[u] :
    hs[t].pc # "idle" /\ (Live(t) => hs[t].uid = u)

(* The file vpl_execution is there when a batch task comes to run.         *)
BuiltInv ==
  /\ \A u \in Uids : cfg[u].runner \in Tasks => u \in prog
  /\ \A t \in Tasks : At(t, "runner") /\ cfg[hs[t].uid].task # NoTask => hs[t].uid \in prog

Ended(t) == hs[t].pc = "done"

(* What a monitor has told its client is borne out by a config.            *)
BorneOut(x, c) ==
  c.task # NoTask =>
    /\ x \in {"compiling", "beforeRunning", "running", "retrieve"} => c.compiler # NoPid
    /\ x = "running" => c.runner # NoPid

Announced(h) ==
  /\ hs[h].seen # "stopped"
  /\ BorneOut(hs[h].seen, cfg[hs[h].uid])
  /\ At(h, "decide") => BorneOut(hs[h].seen, hs[h].snap.cfg)
  /\ hs[h].seen = "beforeRunning" => Interactive(hs[h].task) /\ Ended(hs[h].task)
  /\ hs[h].seen = "retrieve" =>
       /\ ~Interactive(hs[h].task) /\ Ended(hs[h].task)
       /\ cfg[hs[h].uid].task # NoTask =>
            /\ cfg[hs[h].uid].runner = NoPid => hs[h].uid \notin prog
            /\ At(h, "decide") => hs[h].snap.cfg.runner = cfg[hs[h].uid].runner

AnnouncedInv == \A h \in Monitors : Live(h) => Announced(h)

MonitorInv ==
  \A h \in Monitors : Live(h) =>
    /\ hs[h].next # "ending" /\ hs[h].pc # "zombie"
    /\ cfg[hs[h].uid].task # NoTask => cfg[hs[h].uid].monitor = h

(* Where only a process that serves an interactive task gets to.           *)
Serving == {"runner", "launch", "running", "ran", "ending"}

ExecutorInv ==
  \A h \in Executors :
    Live(h) /\ (hs[h].pc \in Serving \/ hs[h].next = "ending") => Interactive(hs[h].task)

(* A task is cleaned, or about to be, only if no monitor will tell its     *)
(* client to come for the result, or the client has been there.            *)
Quitting == {"mark", "kill", "check", "remove"}

Doomed(u) == cfg[u].cleaning \/ \E h \in Handlers : At(h, "mark") /\ hs[h].uid = u

NoResult(u) ==
  /\ Ended(cfg[u].task) /\ ~Interactive(cfg[u].task)
  /\ IF cfg[u].runner = NoPid THEN comp[u] = NoTask ELSE exec[u] = NoTask

Unwatched(u) ==
  LET h == cfg[u].monitor IN
  /\ h \in Monitors
  /\ At(h, "done") \/ (hs[h].pc \in Quitting /\ hs[h].seen # "retrieve")

Unwanted(u) == Interactive(cfg[u].task) \/ NoResult(u) \/ Unwatched(u)

DoomedInv ==
  \A u \in Uids : Doomed(u) /\ cfg[u].task \notin released \cup {NoTask} => Unwanted(u)

Told(h) == Live(h) /\ hs[h].seen = "retrieve" /\ hs[h].task \notin released

ResultWaits(h) ==
  /\ cfg[hs[h].uid].task = hs[h].task /\ ~Doomed(hs[h].uid)
  /\ comp[hs[h].uid] = hs[h].task
  /\ cfg[hs[h].uid].runner # NoPid => exec[hs[h].uid] = hs[h].task

ToldInv == \A h \in Monitors : Told(h) => ResultWaits(h)

MInv ==
  /\ SnapInv /\ SameUid /\ ProcsAtHome /\ BuiltInv /\ AnnouncedInv
  /\ MonitorInv /\ ExecutorInv /\ DoomedInv /\ ToldInv

-----------------------------------------------------------------------------
(* What steps do to the store.                                             *)

StoreMoves ==
  \/ UNCHANGED <<prog, cfg, comp, exec, procs>>
  \/ \E u \in Uids \ ctrl : prog' = prog \ {u} /\ UNCHANGED <<cfg, comp, exec, procs>>
  \/ \E t \in Tasks : Create(t)
  \/ \E t \in Tasks : AtWork(t) /\ ReadInfoOK(hs[t].uid) /\ SetCompiler(t, hs[t].uid)
  \/ \E h \in Workers : At(h, "runner") /\ ReadInfoOK(hs[h].uid) /\ SetRunner(h, hs[h].uid)
  \/ \E t \in Tasks : AtWork(t) /\ ReadInfoOK(hs[t].uid) /\ SetCompilationOutput(t, hs[t].uid)
  \/ \E t \in Tasks : AtWork(t) /\ ReadInfoOK(hs[t].uid) /\ SetExecutionOutput(t, hs[t].uid)
  \/ \E u \in Uids : TakeResult(u) /\ cfg[u].task \in released' \cup {NoTask}
  \/ \E h \in Monitors \cup Executors \cup Admins, k \in tickets : UseTicket(k, h)
  \/ \E u \in Uids : AddPassthroughTicket(u)
  \/ \E h \in Handlers : At(h, "mark") /\ MarkCleaning(hs[h].uid, hs[h].task)
  \/ \E u \in Uids : CleanPrisonerFiles(u) /\ ~ReadInfoOK(u)
  \/ /\ \A u \in Uids : procs'[u] \subseteq procs[u]
     /\ UNCHANGED <<prog, cfg, comp, exec>>
  \/ \E h \in Handlers :
       /\ AtWork(h) /\ procs' = [procs EXCEPT ![hs[h].uid] = @ \cup {hs[h].task}]
       /\ UNCHANGED <<prog, cfg, comp, exec>>
  \/ \E u \in Uids, t \in Tasks :
       /\ t \in procs[u] /\ At(t, "compiling") /\ prog' = prog \cup {u}
       /\ UNCHANGED <<cfg, comp, exec, procs>>

LEMMA TaskStepMoves ==
  ASSUME TInv, NEW t \in Tasks, TaskStep(t)
  PROVE  StoreMoves
<1>1. AtWork(t)
  BY DEF TaskStep, Create, SaveFiles, ExtraInfo, RegisterCompiler, SaveCompilation, Compiled,
         WaitMonitor, SaveExecution, AtWork, Working, Pcs, At
<1>2. CASE Create(t)
  BY <1>2 DEF StoreMoves
<1>3. CASE RegisterCompiler(t)
  BY <1>1, <1>3 DEF RegisterCompiler, StoreMoves, store
<1>4. CASE SaveCompilation(t)
  BY <1>1, <1>4 DEF SaveCompilation, StoreMoves, store
<1>5. CASE SaveExecution(t)
  BY <1>1, <1>5 DEF SaveExecution, StoreMoves, store
<1>6. CASE SaveFiles(t) \/ ExtraInfo(t) \/ Compiled(t) \/ WaitMonitor(t)
  BY <1>6 DEF SaveFiles, ExtraInfo, Compiled, WaitMonitor, StoreMoves, store
<1>7. QED
  BY <1>2, <1>3, <1>4, <1>5, <1>6 DEF TaskStep

LEMMA StopMoves ==
  ASSUME TInv, NEW u, NEW soft \in BOOLEAN, StopPrisonerProcess(u, soft)
  PROVE  StoreMoves
<1>1. PICK left \in SUBSET (IF soft THEN procs[u] ELSE procs[u] \cap Stubborn) :
        procs' = [procs EXCEPT ![u] = left]
  BY DEF StopPrisonerProcess
<1>2. \A v \in Uids : procs'[v] \subseteq procs[v]
  BY <1>1, HandlerFacts
<1>3. QED
  BY <1>2 DEF StopPrisonerProcess, StoreMoves

LEMMA RunStepMoves ==
  ASSUME TInv, NEW h \in Workers, RunStep(h)
  PROVE  StoreMoves
<1>w. h \in Handlers
  BY DEF Workers, Handlers
<1>1. CASE RegisterRunner(h)
  BY <1>1 DEF RegisterRunner, StoreMoves, store
<1>2. CASE Launch(h)
  <2>1. AtWork(h)
    BY <1>2 DEF Launch, LoopOf, AtWork, Working, Pcs
  <2>2. QED
    BY <1>w, <1>2, <2>1 DEF Launch, StoreMoves
<1>3. CASE LoopEnds(h) \/ LoopThrows(h)
  BY <1>3 DEF LoopEnds, LoopThrows, StoreMoves, store
<1>4. CASE LoopWarns(h) \/ LoopKills(h)
  BY <1>4, StopMoves DEF LoopWarns, LoopKills
<1>5. QED
  BY <1>1, <1>2, <1>3, <1>4 DEF RunStep

LEMMA CleanStepMoves ==
  ASSUME TInv, LInv, NEW h \in Handlers, CleanStep(h)
  PROVE  StoreMoves
<1>1. CASE Mark(h)
  BY <1>1 DEF Mark, StoreMoves
<1>2. CASE Kill(h)
  BY <1>2, StopMoves DEF Kill
<1>3. CASE Check(h)
  BY <1>3 DEF Check, StoreMoves, store
<1>4. CASE Remove(h)
  <2>1. hs[h].uid \in Uids /\ ~ReadInfoOK(hs[h].uid)
    BY <1>4, HandlerFacts DEF Remove, At, Live, LInv, MarkedInv, Marked
  <2>2. QED
    BY <1>4, <2>1 DEF Remove, StoreMoves
<1>5. QED
  BY <1>1, <1>2, <1>3, <1>4 DEF CleanStep

LEMMA EventMoves ==
  ASSUME TInv, JInv, NEW h \in Handlers,
         \/ PollStep(h) \/ ClientCloses(h) \/ ClientSends(h) \/ MonitorTimeout(h)
         \/ PassthroughTicket(h) \/ ExecuteGivesUp(h) \/ ExecuteStep(h) \/ AdminStep(h)
  PROVE  StoreMoves
<1>1. CASE PassthroughTicket(h)
  <2>1. hs[h].uid \in Uids
    BY <1>1, HandlerFacts DEF PassthroughTicket, At, Live
  <2>2. QED
    BY <1>1, <2>1 DEF PassthroughTicket, StoreMoves, store
<1>2. CASE GetResult(h)
  <2>1. /\ hs[h].uid \in Uids /\ hs[h].task \in Tasks
        /\ cfg[hs[h].uid].task \in {NoTask, hs[h].task}
    BY <1>2, HandlerFacts, NoConfigFacts
       DEF GetResult, At, Live, TInv, HandlersAreAttached, Working, Pcs, JInv,
           HandlersMeetTheirTask
  <2>2. QED
    BY <1>2, <2>1 DEF GetResult, StoreMoves, store
<1>3. CASE ExecuteEnds(h)
  <2>1. \A u \in Uids : procs'[u] \subseteq procs[u]
    BY <1>3, HandlerFacts DEF ExecuteEnds
  <2>2. QED
    BY <1>3, <2>1 DEF ExecuteEnds, StoreMoves
<1>4. CASE \/ PollStep(h) \/ ClientCloses(h) \/ ClientSends(h) \/ MonitorTimeout(h)
           \/ ExecuteGivesUp(h) \/ ExecuteLeaves(h) \/ Update(h) \/ VisitDecides(h)
           \/ VisitEnds(h)
  BY <1>4 DEF PollStep, ReadState, Decide, ClientCloses, ClientSends, MonitorTimeout,
              ExecuteGivesUp, ExecuteLeaves, Update, VisitDecides, VisitEnds, StoreMoves, store
<1>5. QED
  BY <1>1, <1>2, <1>3, <1>4 DEF ExecuteStep, AdminStep

LEMMA OpenMoves ==
  ASSUME NEW h \in Monitors \cup Executors \cup Admins, NEW k \in tickets,
         \/ OpenMonitor(h, k) \/ OpenExecute(h, k) \/ OpenRunning(h, k) \/ OpenStop(h, k)
         \/ OpenGetResult(h, k) \/ OpenUpdate(h, k) \/ OpenVisit(h, k)
  PROVE  StoreMoves
<1>1. UseTicket(k, h)
  BY DEF OpenMonitor, OpenExecute, OpenRunning, OpenStop, OpenGetResult, OpenUpdate, OpenVisit,
         Open
<1>2. QED
  BY <1>1 DEF StoreMoves

LEMMA JanitorMoves ==
  ASSUME TInv, LInv, NEW z \in Janitors,
         (\E u \in Uids : JanitorVisit(z, u)) \/ JanitorRemoves(z)
  PROVE  StoreMoves
<1>1. CASE \E u \in Uids : JanitorNoHome(z, u) \/ JanitorOrphanHome(z, u)
  <2>1. PICK u \in Uids : CleanPrisonerFiles(u) /\ (u \notin home \/ cfg[u].task = NoTask)
    BY <1>1 DEF JanitorNoHome, JanitorOrphanHome
  <2>2. ~ReadInfoOK(u)
    BY <2>1 DEF LInv, HomeInv, ReadInfoOK
  <2>3. QED
    BY <2>1, <2>2 DEF StoreMoves
<1>2. CASE \E u \in Uids : JanitorOpens(z, u)
  BY <1>2 DEF JanitorOpens, StoreMoves, store
<1>3. CASE JanitorRemoves(z)
  <2>1. z \in Handlers /\ hs[z].uid \in Uids /\ ~ReadInfoOK(hs[z].uid)
    BY <1>3, HandlerFacts DEF JanitorRemoves, At, Live, LInv, MarkedInv, Marked, Handlers
  <2>2. QED
    BY <1>3, <2>1 DEF JanitorRemoves, StoreMoves, store
<1>4. QED
  BY <1>1, <1>2, <1>3 DEF JanitorVisit

LEMMA RequestMoves ==
  ASSUME TInv, NEW t \in Tasks, NEW u \in Uids,
         \/ Request(t, u) \/ RequestSkipsHome(t, u) \/ RequestFails(t, u)
         \/ ProgramBuilds(t, u) \/ ProgramEnds(t, u)
  PROVE  StoreMoves
<1>1. CASE Request(t, u) \/ RequestSkipsHome(t, u) \/ RequestFails(t, u)
  BY <1>1 DEF Request, RequestSkipsHome, RequestFails, SelectPrisoner, SelectOrphanHome,
              SelectFails, StoreMoves
<1>2. CASE ProgramBuilds(t, u)
  BY <1>2 DEF ProgramBuilds, StoreMoves
<1>3. CASE ProgramEnds(t, u)
  <2>1. \A v \in Uids : procs'[v] \subseteq procs[v]
    BY <1>3, HandlerFacts DEF ProgramEnds
  <2>2. QED
    BY <1>3, <2>1 DEF ProgramEnds, StoreMoves
<1>4. QED
  BY <1>1, <1>2, <1>3

LEMMA AllStoreMoves ==
  ASSUME TInv, JInv, LInv, [Next]_vars
  PROVE  StoreMoves
<1>w. Monitors \cup Executors \cup Admins \subseteq Handlers
  BY DEF Handlers
<1>1. CASE \/ \E u \in Uids : Tick(u)
           \/ \E h \in CanCrash : Crash(h)
           \/ UNCHANGED vars
  BY <1>1 DEF Tick, Crash, store, vars, StoreMoves
<1>2. QED
  BY <1>w, <1>1, TaskStepMoves, RunStepMoves, CleanStepMoves, EventMoves, OpenMoves,
     JanitorMoves, RequestMoves DEF Next, Workers

(* A config goes on, is removed when the task is being cleaned already, or *)
(* is written for a new task.                                              *)
Removed(u) == cfg'[u] = NoConfig /\ ~ReadInfoOK(u)

Created(u) ==
  /\ cfg[u] = NoConfig
  /\ \E t \in Tasks : At(t, "create") /\ hs[t].uid = u /\ cfg'[u] = NewConfig(t)

RunnerComes(u) ==
  \E h \in Workers : At(h, "runner") /\ hs[h].uid = u /\ ReadInfoOK(u) /\ cfg'[u].runner = h

ConfigMoves(u) ==
  /\ cfg'[u].task = cfg[u].task \/ Removed(u) \/ Created(u)
  /\ cfg'[u].cleaning => Doomed(u)
  /\ cfg'[u].task = cfg[u].task /\ cfg[u].task # NoTask =>
       cfg'[u].runner = cfg[u].runner \/ RunnerComes(u)

ProgMoves(u) ==
  /\ u \in prog => u \in prog' \/ cfg'[u] = NoConfig
  /\ u \in prog' \ prog => \E t \in procs[u] : At(t, "compiling")

ProcsMove(u) ==
  \A t \in procs'[u] :
    t \in procs[u] \/ \E h \in Handlers : AtWork(h) /\ hs[h].uid = u /\ hs[h].task = t

Taken(u) == cfg[u].task \in released' \cup {NoTask}

(* The task of u is at work and saves its output.                          *)
Saving(u) == \E t \in Tasks : Live(t) /\ hs[t].uid = u /\ cfg[u].task = t

ResultMoves(u) ==
  Removed(u) \/ Taken(u) \/ Saving(u) \/ (comp'[u] = comp[u] /\ exec'[u] = exec[u])

StoreFacts == \A u \in Uids : ConfigMoves(u) /\ ProgMoves(u) /\ ProcsMove(u) /\ ResultMoves(u)

LEMMA SameFields ==
  ASSUME NEW c \in Config, NEW p, NEW d,
         \/ d = c \/ d = [c EXCEPT !.compiler = p] \/ d = [c EXCEPT !.monitor = p]
         \/ d = [c EXCEPT !.http = p]
  PROVE  d.task = c.task /\ d.cleaning = c.cleaning /\ d.runner = c.runner
  BY DEF Config

LEMMA ConfigsMove ==
  ASSUME TInv, JInv, StoreMoves, NEW u \in Uids
  PROVE  ConfigMoves(u)
<1>f. cfg \in [Uids -> Config] /\ cfg[u] \in Config /\ tickets \subseteq Ticket
  BY HandlerFacts
<1>1. CASE cfg' = cfg
  BY <1>1 DEF ConfigMoves, Doomed
<1>2. CASE \E t \in Tasks : Create(t)
  <2>1. PICK t \in Tasks : Create(t)
    BY <1>2
  <2>2. At(t, "create") /\ hs[t].uid \in ctrl /\ cfg[hs[t].uid] = NoConfig
    BY <2>1 DEF Create, JInv, CreatingAlone
  <2>3. cfg' = [cfg EXCEPT ![hs[t].uid] = NewConfig(t)]
    BY <2>1, <2>2 DEF Create, CreateTask
  <2>4. CASE u = hs[t].uid
    <3>1. cfg'[u] = NewConfig(t)
      BY <1>f, <2>3, <2>4
    <3>2. Created(u)
      BY <2>2, <2>4, <3>1 DEF Created
    <3>3. cfg'[u].cleaning = FALSE /\ cfg'[u].runner = cfg[u].runner
      BY <2>2, <2>4, <3>1 DEF NewConfig, NoConfig
    <3>4. QED
      BY <3>2, <3>3 DEF ConfigMoves
  <2>5. CASE u # hs[t].uid
    <3>1. cfg'[u] = cfg[u]
      BY <1>f, <2>3, <2>5
    <3>2. QED
      BY <3>1 DEF ConfigMoves, Doomed
  <2>6. QED
    BY <2>4, <2>5
<1>3. CASE \/ \E t \in Tasks : SetCompiler(t, hs[t].uid)
           \/ \E h \in Monitors \cup Executors \cup Admins, k \in tickets : UseTicket(k, h)
           \/ \E v \in Uids : AddPassthroughTicket(v)
  <2>1. \E v, p : \/ cfg' = cfg
                  \/ cfg' = [cfg EXCEPT ![v].compiler = p]
                  \/ cfg' = [cfg EXCEPT ![v].monitor = p]
                  \/ cfg' = [cfg EXCEPT ![v].http = p]
    BY <1>3 DEF SetCompiler, UseTicket, AddPassthroughTicket
  <2>2. \E p : \/ cfg'[u] = cfg[u]
               \/ cfg'[u] = [cfg[u] EXCEPT !.compiler = p]
               \/ cfg'[u] = [cfg[u] EXCEPT !.monitor = p]
               \/ cfg'[u] = [cfg[u] EXCEPT !.http = p]
    BY <1>f, <2>1
  <2>3. /\ cfg'[u].task = cfg[u].task /\ cfg'[u].cleaning = cfg[u].cleaning
        /\ cfg'[u].runner = cfg[u].runner
    BY <1>f, <2>2, SameFields
  <2>4. QED
    BY <2>3 DEF ConfigMoves, Doomed
<1>4. CASE \E h \in Workers : At(h, "runner") /\ ReadInfoOK(hs[h].uid) /\ SetRunner(h, hs[h].uid)
  <2>1. PICK h \in Workers :
          At(h, "runner") /\ ReadInfoOK(hs[h].uid) /\ SetRunner(h, hs[h].uid)
    BY <1>4
  <2>2. \/ cfg'[u] = cfg[u]
        \/ u = hs[h].uid /\ cfg'[u] = [cfg[u] EXCEPT !.runner = h]
    BY <1>f, <2>1 DEF SetRunner
  <2>3. cfg'[u].task = cfg[u].task /\ cfg'[u].cleaning = cfg[u].cleaning
    BY <1>f, <2>2 DEF Config
  <2>4. cfg'[u].runner = cfg[u].runner \/ RunnerComes(u)
    BY <1>f, <2>1, <2>2 DEF Config, RunnerComes
  <2>5. QED
    BY <2>3, <2>4 DEF ConfigMoves, Doomed
<1>5. CASE \E h \in Handlers : At(h, "mark") /\ MarkCleaning(hs[h].uid, hs[h].task)
  <2>1. PICK h \in Handlers : At(h, "mark") /\ MarkCleaning(hs[h].uid, hs[h].task)
    BY <1>5
  <2>2. \/ cfg'[u] = cfg[u]
        \/ u = hs[h].uid /\ cfg'[u] = [cfg[u] EXCEPT !.cleaning = TRUE]
    BY <1>f, <2>1 DEF MarkCleaning
  <2>3. cfg'[u].task = cfg[u].task /\ cfg'[u].runner = cfg[u].runner
    BY <1>f, <2>2 DEF Config
  <2>4. cfg'[u].cleaning => Doomed(u)
    BY <2>1, <2>2 DEF Doomed
  <2>5. QED
    BY <2>3, <2>4 DEF ConfigMoves
<1>6. CASE \E v \in Uids : CleanPrisonerFiles(v) /\ ~ReadInfoOK(v)
  <2>1. cfg'[u] = cfg[u] \/ (cfg'[u] = NoConfig /\ ~ReadInfoOK(u))
    BY <1>f, <1>6 DEF CleanPrisonerFiles
  <2>2. CASE cfg'[u] = NoConfig /\ ~ReadInfoOK(u)
    <3>1. cfg'[u].cleaning = FALSE
      BY <2>2 DEF NoConfig, NewConfig
    <3>2. QED
      BY <2>2, <3>1, NoConfigFacts DEF ConfigMoves, Removed
  <2>3. QED
    BY <2>1, <2>2 DEF ConfigMoves, Doomed
<1>7. QED
  BY <1>1, <1>2, <1>3, <1>4, <1>5, <1>6
     DEF StoreMoves, SetCompilationOutput, SetExecutionOutput, TakeResult

LEMMA ProgsMove ==
  ASSUME TInv, JInv, StoreMoves, NEW u \in Uids
  PROVE  ProgMoves(u)
<1>1. CASE prog' = prog
  BY <1>1 DEF ProgMoves
<1>2. CASE \E v \in Uids \ ctrl : prog' = prog \ {v} /\ cfg' = cfg
  BY <1>2 DEF ProgMoves, JInv, NoStrayConfig
<1>3. CASE \E v \in Uids : CleanPrisonerFiles(v)
  BY <1>3, HandlerFacts DEF CleanPrisonerFiles, ProgMoves
<1>4. CASE \E v \in Uids, t \in Tasks :
             t \in procs[v] /\ At(t, "compiling") /\ prog' = prog \cup {v}
  BY <1>4 DEF ProgMoves
<1>5. QED
  BY <1>1, <1>2, <1>3, <1>4
     DEF StoreMoves, Create, CreateTask, SetCompiler, SetRunner, SetCompilationOutput,
         SetExecutionOutput, TakeResult, UseTicket, AddPassthroughTicket, MarkCleaning

LEMMA AllProcsMove ==
  ASSUME TInv, StoreMoves, NEW u \in Uids
  PROVE  ProcsMove(u)
<1>1. CASE procs' = procs \/ \A v \in Uids : procs'[v] \subseteq procs[v]
  BY <1>1 DEF ProcsMove
<1>2. CASE \E h \in Handlers :
             AtWork(h) /\ procs' = [procs EXCEPT ![hs[h].uid] = @ \cup {hs[h].task}]
  BY <1>2, HandlerFacts DEF ProcsMove
<1>3. QED
  BY <1>1, <1>2
     DEF StoreMoves, Create, CreateTask, SetCompiler, SetRunner, SetCompilationOutput,
         SetExecutionOutput, TakeResult, UseTicket, AddPassthroughTicket, MarkCleaning,
         CleanPrisonerFiles

LEMMA ResultsMove ==
  ASSUME TInv, JInv, RInv, StoreMoves, NEW u \in Uids
  PROVE  ResultMoves(u)
<1>f. comp \in [Uids -> Tasks \cup {NoTask}] /\ exec \in [Uids -> Tasks \cup {NoTask}]
  BY DEF TInv, TypeOK, StoreTypeOK
<1>1. CASE comp' = comp /\ exec' = exec
  BY <1>1 DEF ResultMoves
<1>2. CASE \E t \in Tasks : /\ AtWork(t) /\ ReadInfoOK(hs[t].uid)
                            /\ \/ SetCompilationOutput(t, hs[t].uid)
                               \/ SetExecutionOutput(t, hs[t].uid)
  <2>1. PICK t \in Tasks : /\ AtWork(t) /\ ReadInfoOK(hs[t].uid)
                           /\ \/ SetCompilationOutput(t, hs[t].uid)
                              \/ SetExecutionOutput(t, hs[t].uid)
    BY <1>2
  <2>2. Live(t) /\ hs[t].task = t /\ cfg[hs[t].uid].task = t
    <3>1. Live(t) /\ t \in Workers
      BY <2>1 DEF AtWork, Working, Live, Workers
    <3>2. QED
      BY <2>1, <3>1, WorkerConfig DEF RInv, OwnTask
  <2>3. CASE u = hs[t].uid
    BY <2>2, <2>3 DEF ResultMoves, Saving
  <2>4. CASE u # hs[t].uid
    BY <1>f, <2>1, <2>4 DEF ResultMoves, SetCompilationOutput, SetExecutionOutput
  <2>5. QED
    BY <2>3, <2>4
<1>3. CASE \E v \in Uids : TakeResult(v) /\ cfg[v].task \in released' \cup {NoTask}
  BY <1>f, <1>3 DEF TakeResult, ResultMoves, Taken
<1>4. CASE \E v \in Uids : CleanPrisonerFiles(v) /\ ~ReadInfoOK(v)
  BY <1>f, <1>4, HandlerFacts DEF CleanPrisonerFiles, ResultMoves, Removed
<1>5. QED
  BY <1>1, <1>2, <1>3, <1>4
     DEF StoreMoves, Create, CreateTask, SetCompiler, SetRunner, UseTicket,
         AddPassthroughTicket, MarkCleaning

LEMMA AllStoreFacts ==
  ASSUME TInv, JInv, RInv, LInv, [Next]_vars
  PROVE  StoreFacts
  BY AllStoreMoves, ConfigsMove, ProgsMove, AllProcsMove, ResultsMove DEF StoreFacts

-----------------------------------------------------------------------------
(* What steps do to the processes.                                         *)

MarkReason(h) ==
  \/ hs[h].task \in released'
  \/ ~ReadInfoOK(hs[h].uid)
  \/ Interactive(hs[h].task)
  \/ h \in Monitors /\ hs[h].seen # "retrieve"
  \/ NoResult(hs[h].uid)

Onward(h) ==
  /\ Live(h)
  /\ hs'[h].uid = hs[h].uid /\ hs'[h].task = hs[h].task /\ hs'[h].seen = hs[h].seen
  /\ hs'[h].pc \notin {"idle", "create", "zombie"}
  /\ hs'[h].pc = "decide" => At(h, "poll") /\ hs'[h].snap.cfg = cfg[hs[h].uid]
  /\ hs'[h].pc = "mark" => ~At(h, "create") /\ MarkReason(h)
  /\ h \in Monitors => /\ hs'[h].next # "ending"
                       /\ hs[h].pc \in Quitting => hs'[h].pc \in Quitting
  /\ h \in Executors =>
       (hs'[h].pc \in Serving \/ hs'[h].next = "ending" => Interactive(hs[h].task))
  /\ h \in Tasks => (hs'[h].pc = "runner" => hs[h].uid \in prog)

Leaves(h) == ~Live(h)' /\ (h \notin Janitors => hs'[h].pc = "done")

Arrives(h) ==
  /\ h \notin Tasks /\ At(h, "idle")
  /\ hs'[h].seen = "prestarting" /\ hs'[h].next = "done"
  /\ hs'[h].pc \notin Serving \cup {"decide"}
  /\ hs'[h].uid \in Uids
  /\ hs'[h].task \in {NoTask, cfg[hs'[h].uid].task}
  /\ hs'[h].pc = "mark" => cfg[hs'[h].uid].task \in released'
  /\ h \in Monitors => hs'[h].pc # "zombie" /\ cfg'[hs'[h].uid].monitor = h

Starts(h) ==
  /\ At(h, "idle") /\ hs'[h].pc = "create" /\ hs'[h].task = h
  /\ \A g \in Handlers : Live(g) => hs[g].uid # hs'[h].uid
  /\ cfg' = cfg

Tells(h) ==
  /\ h \in Monitors /\ At(h, "decide") /\ MonitorKeepsWatching(h)
  /\ hs'[h].pc \in {"poll", "browser"}
  /\ hs'[h].uid = hs[h].uid /\ hs'[h].task = hs[h].task /\ hs'[h].next = hs[h].next
  /\ hs'[h].seen = Observed(h)
  /\ UNCHANGED <<store, released>>

Proceeds(h) ==
  hs'[h] = hs[h] \/ Onward(h) \/ Leaves(h) \/ Arrives(h) \/ (h \in Tasks /\ Starts(h)) \/ Tells(h)

AllProceed == \A h \in Handlers : Proceeds(h)

LEMMA OneProceeds ==
  ASSUME TInv, NEW h \in Handlers, NEW r, hs' = [hs EXCEPT ![h] = r], Proceeds(h)
  PROVE  AllProceed
<1>1. \A g \in Handlers \ {h} : hs'[g] = hs[g]
  BY HandlerFacts
<1>2. QED
  BY <1>1 DEF AllProceed, Proceeds

LEMMA NobodyProceeds ==
  ASSUME hs' = hs
  PROVE  AllProceed
  BY DEF AllProceed, Proceeds

(* A process that is in its place for every invariant about places.        *)
LEMMA GotoProceeds ==
  ASSUME TInv, MInv, NEW h \in Handlers,
         NEW l \in Pcs \ {"idle", "create", "decide", "mark", "zombie", "done"},
         Live(h), Goto(h, l) \/ Continue(h, l),
         h \in Monitors => hs[h].pc \notin Quitting \/ l \in Quitting,
         h \in Executors => (l \in Serving => Interactive(hs[h].task)),
         h \in Tasks => (l = "runner" => hs[h].uid \in prog)
  PROVE  AllProceed
<1>0. hs[h] \in HandlerState
  BY DEF TInv, TypeOK
<1>1. PICK r : /\ r.pc = l /\ r.uid = hs[h].uid /\ r.task = hs[h].task
               /\ r.seen = hs[h].seen /\ r.next = hs[h].next
               /\ hs' = [hs EXCEPT ![h] = r]
  <2>1. CASE Goto(h, l)
    <3> DEFINE r == [hs[h] EXCEPT !.pc = l]
    <3>1. /\ r.pc = l /\ r.uid = hs[h].uid /\ r.task = hs[h].task
          /\ r.seen = hs[h].seen /\ r.next = hs[h].next
      BY <1>0 DEF HandlerState
    <3>2. hs' = [hs EXCEPT ![h] = r]
      BY <2>1 DEF Goto
    <3> HIDE DEF r
    <3>3. QED
      BY <3>1, <3>2
  <2>2. CASE Continue(h, l)
    <3> DEFINE r == [hs[h] EXCEPT !.pc = l, !.snap = NoSnapshot]
    <3>1. /\ r.pc = l /\ r.uid = hs[h].uid /\ r.task = hs[h].task
          /\ r.seen = hs[h].seen /\ r.next = hs[h].next
      BY <1>0 DEF HandlerState
    <3>2. hs' = [hs EXCEPT ![h] = r]
      BY <2>2 DEF Continue
    <3> HIDE DEF r
    <3>3. QED
      BY <3>1, <3>2
  <2>3. QED
    BY <2>1, <2>2
<1>2. hs'[h] = r
  BY <1>1, HandlerFacts
<1>3. h \in Monitors => hs[h].next # "ending"
  BY DEF MInv, MonitorInv
<1>4. h \in Executors => (hs[h].next = "ending" => Interactive(hs[h].task))
  BY DEF MInv, ExecutorInv
<1>5. Onward(h)
  BY <1>1, <1>2, <1>3, <1>4 DEF Onward
<1>6. QED
  BY <1>1, <1>5, OneProceeds DEF Proceeds

LEMMA FinishProceeds ==
  ASSUME TInv, NEW h \in Handlers, Finish(h)
  PROVE  AllProceed
<1>1. PICK l \in {"idle", "done"} :
        hs' = [hs EXCEPT ![h] = AtPc(l)] /\ (h \notin Janitors => l = "done")
  BY DEF Finish
<1>2. hs'[h].pc = l
  BY <1>1, HandlerFacts, AtPcOK DEF Pcs
<1>3. Leaves(h)
  BY <1>1, <1>2 DEF Leaves, Live
<1>4. QED
  BY <1>1, <1>3, OneProceeds DEF Proceeds

LEMMA CleanProceeds ==
  ASSUME TInv, NEW h \in Handlers, NEW l \in {"done", "mark", "ending"}, Live(h), Clean(h, l),
         ~At(h, "create"), MarkReason(h),
         h \in Monitors => l # "ending",
         h \in Executors => (l = "ending" => Interactive(hs[h].task))
  PROVE  AllProceed
<1>0. hs[h] \in HandlerState
  BY DEF TInv, TypeOK
<1> DEFINE r == [hs[h] EXCEPT !.pc = "mark", !.next = l, !.snap = NoSnapshot]
<1>1. r.pc = "mark" /\ r.uid = hs[h].uid /\ r.task = hs[h].task /\ r.seen = hs[h].seen /\ r.next = l
  BY <1>0 DEF HandlerState
<1>2. hs' = [hs EXCEPT ![h] = r]
  BY DEF Clean
<1> HIDE DEF r
<1>3. hs'[h] = r
  BY <1>2, HandlerFacts
<1>4. Onward(h)
  BY <1>1, <1>3 DEF Onward, Serving, Quitting
<1>5. QED
  BY <1>2, <1>4, OneProceeds DEF Proceeds

LEMMA ReturnFromCleanProceeds ==
  ASSUME TInv, MInv, LInv, NEW h \in Handlers, hs[h].pc \in {"check", "remove"}, ReturnFromClean(h)
  PROVE  AllProceed
<1>0. hs[h] \in HandlerState /\ Live(h) /\ ~At(h, "create")
  BY DEF TInv, TypeOK, Live, At
<1>1. CASE hs[h].next = "done"
  BY <1>1, FinishProceeds DEF ReturnFromClean
<1>2. CASE hs[h].next # "done"
  <2> DEFINE r == [hs[h] EXCEPT !.pc = hs[h].next, !.next = "done"]
  <2>1. /\ r.pc \in {"mark", "ending"} /\ r.pc = hs[h].next
        /\ r.uid = hs[h].uid /\ r.task = hs[h].task /\ r.seen = hs[h].seen /\ r.next = "done"
    BY <1>0, <1>2 DEF HandlerState
  <2>2. hs' = [hs EXCEPT ![h] = r]
    BY <1>2 DEF ReturnFromClean
  <2> HIDE DEF r
  <2>3. hs'[h] = r
    BY <2>2, HandlerFacts
  <2>4. ~ReadInfoOK(hs[h].uid)
    BY DEF LInv, MarkedInv, Marked
  <2>5. h \in Monitors => r.pc = "mark"
    BY <1>0, <2>1 DEF MInv, MonitorInv
  <2>6. h \in Executors => (r.pc = "ending" => Interactive(hs[h].task))
    BY <1>0, <2>1 DEF MInv, ExecutorInv
  <2>7. h \in Tasks => r.pc # "runner"
    BY <2>1
  <2>8. Onward(h)
    BY <1>0, <2>1, <2>3, <2>4, <2>5, <2>6, <2>7 DEF Onward, MarkReason, Serving, Quitting
  <2>9. QED
    BY <2>2, <2>8, OneProceeds DEF Proceeds
<1>3. QED
  BY <1>1, <1>2

LEMMA Labels2 ==
  {"save", "extra", "compiler", "launchCompiler", "compiling", "saveCompilation", "compiled",
   "waitMonitor", "runner", "launch", "running", "saveExecution", "ran", "ending", "poll",
   "session", "kill", "check", "remove", "browser"}
    \subseteq Pcs \ {"idle", "create", "decide", "mark", "zombie", "done"}
  BY DEF Pcs

LEMMA TaskStepProceeds ==
  ASSUME TInv, MInv, NEW t \in Tasks, TaskStep(t)
  PROVE  AllProceed
<1>1. t \in Handlers /\ Live(t) /\ t \notin Monitors /\ t \notin Executors
  BY HandlerFacts, HandlersAssumption
     DEF TaskStep, Create, SaveFiles, ExtraInfo, RegisterCompiler, SaveCompilation, Compiled,
         WaitMonitor, SaveExecution, At, Live
<1>2. \/ Finish(t)
      \/ \E l \in {"save", "extra", "compiler", "launchCompiler", "compiled", "waitMonitor"} :
           Goto(t, l)
      \/ Goto(t, "runner") /\ hs[t].uid \in prog
  BY DEF TaskStep, Create, SaveFiles, ExtraInfo, RegisterCompiler, SaveCompilation, Compiled,
         WaitMonitor, SaveExecution
<1>3. CASE Finish(t)
  BY <1>1, <1>3, FinishProceeds
<1>4. ASSUME NEW l \in {"save", "extra", "compiler", "launchCompiler", "compiled", "waitMonitor"},
             Goto(t, l)
      PROVE  AllProceed
  <2>1. l \in Pcs \ {"idle", "create", "decide", "mark", "zombie", "done"} /\ l # "runner"
    BY Labels2
  <2>2. QED
    BY <1>1, <1>4, <2>1, GotoProceeds
<1>5. CASE Goto(t, "runner") /\ hs[t].uid \in prog
  BY <1>1, <1>5, Labels2, GotoProceeds
<1>6. QED
  BY <1>2, <1>3, <1>4, <1>5

LEMMA RunStepProceeds ==
  ASSUME TInv, MInv, NEW h \in Workers, RunStep(h)
  PROVE  AllProceed
<1>1. /\ h \in Handlers /\ h \notin Monitors /\ (h \in Executors <=> h \notin Tasks)
      /\ Live(h) /\ hs[h].pc \in {"runner", "launchCompiler", "launch", "compiling", "running"}
  BY HandlersAssumption
     DEF Workers, Handlers, RunStep, RegisterRunner, Launch, LoopOf, LoopEnds, LoopWarns,
         LoopKills, LoopThrows, InLoop, At, Live
<1>2. \/ hs' = hs
      \/ Finish(h)
      \/ Goto(h, "launch") /\ At(h, "runner")
      \/ Goto(h, "compiling")
      \/ Goto(h, "running") /\ At(h, "launch")
      \/ Goto(h, AfterLoop(h)) /\ ~At(h, "runner")
  <2>1. CASE RegisterRunner(h)
    BY <2>1 DEF RegisterRunner
  <2>2. CASE Launch(h)
    BY <2>2 DEF Launch, LoopOf, At
  <2>3. CASE LoopEnds(h) \/ LoopWarns(h) \/ LoopKills(h) \/ LoopThrows(h)
    BY <2>3 DEF LoopEnds, LoopWarns, LoopKills, LoopThrows, InLoop, At, history
  <2>4. QED
    BY <2>1, <2>2, <2>3 DEF RunStep
<1>3. CASE hs' = hs
  BY <1>3, NobodyProceeds
<1>4. CASE Finish(h)
  BY <1>1, <1>4, FinishProceeds
<1>5. ASSUME NEW l \in {"launch", "compiling", "running", "saveCompilation", "saveExecution",
                        "ending", "ran"},
             Goto(h, l), h \in Executors => (l \in Serving => hs[h].pc \in Serving)
      PROVE  AllProceed
  <2>1. l \in Pcs \ {"idle", "create", "decide", "mark", "zombie", "done"} /\ l # "runner"
    BY Labels2
  <2>2. h \in Executors => (l \in Serving => Interactive(hs[h].task))
    BY <1>1, <1>5 DEF MInv, ExecutorInv
  <2>3. QED
    BY <1>1, <1>5, <2>1, <2>2, GotoProceeds
<1>6. CASE Goto(h, AfterLoop(h)) /\ ~At(h, "runner")
  <2>1. AfterLoop(h) \in {"saveCompilation", "saveExecution", "ending", "ran"}
    BY DEF AfterLoop
  <2>2. h \in Executors => (AfterLoop(h) \in Serving => hs[h].pc \in Serving)
    BY <1>1, <1>6 DEF AfterLoop, Serving, At
  <2>3. QED
    BY <1>5, <1>6, <2>1, <2>2
<1>7. CASE (Goto(h, "launch") /\ At(h, "runner")) \/ (Goto(h, "running") /\ At(h, "launch"))
  BY <1>5, <1>7 DEF Serving, At
<1>8. CASE Goto(h, "compiling")
  BY <1>5, <1>8 DEF Serving
<1>9. QED
  BY <1>2, <1>3, <1>4, <1>6, <1>7, <1>8

(* What the answers of getState() mean.                                    *)
LEMMA GetStateMeans ==
  ASSUME NEW s, NEW u, NEW alive, s.cfg.task # NoTask, ~s.cfg.cleaning,
         NEW o, o = GetState(s, u, alive)
  PROVE  /\ o = "starting" <=> s.cfg.compiler = NoPid
         /\ o = "compiling" =>
              /\ s.cfg.runner = NoPid
              /\ \/ s.cfg.compiler \in alive
                 \/ ~Interactive(s.cfg.task) /\ comp[u] # NoTask /\ u \in prog
         /\ o = "beforeRunning" =>
              /\ s.cfg.runner = NoPid /\ s.cfg.compiler \notin alive /\ Interactive(s.cfg.task)
         /\ o = "running" => s.cfg.runner # NoPid /\ s.cfg.runner \in alive
         /\ o = "retrieve" =>
              /\ ~Interactive(s.cfg.task)
              /\ \/ /\ s.cfg.runner = NoPid /\ s.cfg.compiler \notin alive
                    /\ comp[u] # NoTask /\ u \notin prog
                 \/ s.cfg.runner # NoPid /\ s.cfg.runner \notin alive /\ exec[u] # NoTask
         /\ o = "stopped" /\ ~Interactive(s.cfg.task) =>
              \/ s.cfg.runner = NoPid /\ s.cfg.compiler \notin alive /\ comp[u] = NoTask
              \/ s.cfg.runner # NoPid /\ s.cfg.runner \notin alive /\ exec[u] = NoTask
<1> DEFINE compiling == s.cfg.compiler \in alive /\ s.cfg.runner = NoPid
           old == s.age = 2
           unattended == Unattended(s)
<1>1. o = IF s.cfg.compiler = NoPid THEN "starting"
          ELSE IF old THEN "expired"
          ELSE IF compiling THEN "compiling"
          ELSE IF unattended THEN "expired"
          ELSE IF s.cfg.runner = NoPid THEN NoRunnerState(s, u)
          ELSE IF s.cfg.runner \in alive THEN "running"
          ELSE DeadRunnerState(s, u)
  BY DEF GetState
<1>2. NoRunnerState(s, u) =
        IF Interactive(s.cfg.task) THEN "beforeRunning"
        ELSE IF comp[u] = NoTask THEN "stopped"
        ELSE IF u \in prog THEN "compiling" ELSE "retrieve"
  BY DEF NoRunnerState
<1>3. DeadRunnerState(s, u) =
        IF Interactive(s.cfg.task) \/ exec[u] = NoTask THEN "stopped" ELSE "retrieve"
  BY DEF DeadRunnerState
<1> HIDE DEF old, unattended
<1>4. QED
  BY <1>1, <1>2, <1>3

LEMMA DeadIsEnded ==
  ASSUME TInv, LInv, NEW h \in Handlers \ Tasks, Live(h), hs[h].task \in Tasks,
         hs[h].task \notin Alive
  PROVE  Ended(hs[h].task)
<1>1. hs[h].task \in Handlers /\ hs[hs[h].task].pc \in {"idle", "done"}
  BY HandlerFacts DEF Alive, Live
<1>2. hs[hs[h].task].pc # "idle"
  BY DEF LInv, YoungInv
<1>3. QED
  BY <1>1, <1>2 DEF Ended

(* The config and the task of a process that decides.                      *)
LEMMA DeciderFacts ==
  ASSUME TInv, JInv, MInv, NEW h \in Handlers, At(h, "decide")
  PROVE  /\ Live(h) /\ hs[h].uid \in Uids /\ hs[h].task \in Tasks /\ hs[h].task # NoTask
         /\ cfg[hs[h].uid].task \in {NoTask, hs[h].task}
         /\ Agrees(hs[h].snap.cfg, cfg[hs[h].uid]) /\ Own(hs[h].snap.cfg, hs[h].task)
         /\ hs[h].snap.cfg \in Config
<1>1. Live(h) /\ hs[h].uid \in Uids /\ hs[h].task \in Tasks
  BY HandlerFacts DEF At, Live, TInv, HandlersAreAttached, Working, Pcs
<1>2. hs[h].snap.cfg \in Config
  BY DEF TInv, TypeOK, HandlerState, Snapshot
<1>3. QED
  BY <1>1, <1>2, NoConfigFacts DEF JInv, HandlersMeetTheirTask, MInv, SnapInv

(* A process that finds the task stopped has a reason to clean it.         *)
LEMMA StoppedReason ==
  ASSUME TInv, JInv, RInv, ResultsBelongToTask, LInv, MInv,
         NEW h \in Handlers \ Tasks, At(h, "decide"), Observed(h) = "stopped"
  PROVE  MarkReason(h)
<1> DEFINE s == hs[h].snap.cfg
           c == cfg[hs[h].uid]
           u == hs[h].uid
           t == hs[h].task
<1>f. /\ Live(h) /\ u \in Uids /\ t \in Tasks /\ t # NoTask /\ c.task \in {NoTask, t}
      /\ Agrees(s, c) /\ Own(s, t) /\ s \in Config
  BY DeciderFacts
<1>0. SUFFICES ASSUME ReadInfoOK(u), ~Interactive(t)
               PROVE  NoResult(u)
  BY DEF MarkReason
<1>1. c.task = t /\ s.task = t /\ ~s.cleaning
  BY <1>f, <1>0 DEF ReadInfoOK, Agrees, Own
<1>2. exec[u] \in {NoTask, comp[u]}
  BY <1>f DEF ResultsBelongToTask
<1>3. \/ s.runner = NoPid /\ s.compiler \notin Alive /\ comp[u] = NoTask /\ s.compiler # NoPid
      \/ s.runner # NoPid /\ s.runner \notin Alive /\ exec[u] = NoTask
  <2> HIDE DEF s, c, t
  <2>1. "stopped" = GetState(hs[h].snap, u, Alive)
    BY DEF Observed
  <2>2. hs[h].snap.cfg.task = t /\ hs[h].snap.cfg.task # NoTask /\ ~hs[h].snap.cfg.cleaning
    BY <1>f, <1>1 DEF s
  <2>3. \/ /\ hs[h].snap.cfg.runner = NoPid /\ hs[h].snap.cfg.compiler \notin Alive
           /\ comp[u] = NoTask
        \/ /\ hs[h].snap.cfg.runner # NoPid /\ hs[h].snap.cfg.runner \notin Alive
           /\ exec[u] = NoTask
    BY <1>0, <2>1, <2>2, GetStateMeans
  <2>4. hs[h].snap.cfg.compiler # NoPid
    BY <2>1, <2>2, GetStateMeans
  <2>5. QED
    BY <2>3, <2>4 DEF s
<1>4. CASE s.runner = NoPid
  <2>1. s.compiler = t /\ t \notin Alive /\ comp[u] = NoTask
    BY <1>f, <1>3, <1>4 DEF Own
  <2>2. Ended(t)
    BY <1>f, <2>1, DeadIsEnded
  <2>3. QED
    BY <1>0, <1>1, <1>2, <2>1, <2>2 DEF NoResult
<1>5. CASE s.runner # NoPid
  <2>1. s.runner \notin Alive /\ exec[u] = NoTask
    BY <1>3, <1>5
  <2>2. s.runner = t
    BY <1>f, <1>0, <1>1, <1>5 DEF Own, Config
  <2>3. Ended(t)
    BY <1>f, <2>1, <2>2, DeadIsEnded
  <2>4. c.runner # NoPid
    BY <1>f, <1>1, <1>5 DEF Agrees
  <2>5. QED
    BY <1>0, <1>1, <2>1, <2>3, <2>4 DEF NoResult
<1>6. QED
  BY <1>4, <1>5

LEMMA BeforeRunningReason ==
  ASSUME TInv, JInv, MInv, NEW h \in Handlers, At(h, "decide"), Observed(h) = "beforeRunning"
  PROVE  Interactive(hs[h].task)
<1>1. hs[h].snap.cfg.task # NoTask /\ Interactive(hs[h].snap.cfg.task)
  BY DEF Observed, GetState, NoRunnerState, DeadRunnerState
<1>2. QED
  BY <1>1, DeciderFacts DEF Own

LEMMA DecideProceeds ==
  ASSUME TInv, JInv, RInv, ResultsBelongToTask, LInv, MInv, NEW h \in Handlers, Decide(h)
  PROVE  AllProceed
<1>1. /\ At(h, "decide") /\ UNCHANGED store
      /\ released' = IF Observed(h) = "expired" THEN released \cup {hs[h].task} ELSE released
      /\ h \notin Tasks
  BY HandlersAssumption DEF Decide
<1>2. Live(h) /\ ~At(h, "create")
  BY <1>1 DEF At, Live
<1>3. Observed(h) \in {"stopped", "expired", "beforeRunning"} => MarkReason(h)
  BY <1>1, StoppedReason, BeforeRunningReason DEF MarkReason
<1>4. CASE h \in Monitors /\ MonitorDecides(h) /\ MonitorKeepsWatching(h)
  <2>0. hs[h] \in HandlerState
    BY DEF TInv, TypeOK
  <2>1. PICK l \in {"poll", "browser"} :
          hs' = [hs EXCEPT ![h] = [@ EXCEPT !.pc = l, !.seen = Observed(h), !.snap = NoSnapshot]]
    BY <1>4 DEF MonitorDecides
  <2> DEFINE r == [hs[h] EXCEPT !.pc = l, !.seen = Observed(h), !.snap = NoSnapshot]
  <2>2. /\ r.pc = l /\ r.uid = hs[h].uid /\ r.task = hs[h].task /\ r.seen = Observed(h)
        /\ r.next = hs[h].next
    BY <2>0 DEF HandlerState
  <2>3. hs' = [hs EXCEPT ![h] = r]
    BY <2>1
  <2> HIDE DEF r
  <2>4. hs'[h] = r
    BY <2>3, HandlerFacts
  <2>5. Observed(h) # "expired"
    BY <1>4 DEF MonitorKeepsWatching
  <2>6. Tells(h)
    BY <1>1, <1>4, <2>2, <2>4, <2>5 DEF Tells
  <2>7. QED
    BY <2>3, <2>6, OneProceeds DEF Proceeds
<1>5. CASE h \in Monitors /\ MonitorDecides(h) /\ ~MonitorKeepsWatching(h)
  <2>1. PICK l \in {"mark", "done"} : Clean(h, l)
    BY <1>5 DEF MonitorDecides
  <2>2. MarkReason(h)
    BY <1>3, <1>5 DEF MonitorKeepsWatching
  <2>3. h \notin Executors
    BY <1>5, HandlersAssumption
  <2>4. QED
    BY <1>2, <2>1, <2>2, <2>3, CleanProceeds
<1>6. CASE h \in Executors /\ ExecuteDecides(h)
  <2>1. h \notin Monitors
    BY <1>6, HandlersAssumption
  <2>2. CASE Continue(h, "poll")
    BY <1>1, <1>2, <2>1, <2>2, Labels2, GotoProceeds DEF Serving
  <2>3. CASE Observed(h) = "beforeRunning" /\ Continue(h, "runner")
    BY <1>1, <1>2, <2>1, <2>3, Labels2, GotoProceeds, BeforeRunningReason
  <2>4. CASE Observed(h) = "expired" /\ Clean(h, "done")
    BY <1>2, <1>3, <2>1, <2>4, CleanProceeds
  <2>5. CASE Finish(h)
    BY <2>5, FinishProceeds
  <2>6. QED
    BY <1>6, <2>2, <2>3, <2>4, <2>5 DEF ExecuteDecides
<1>7. CASE (h \in Admins /\ RunningDecides(h)) \/ (h \in Janitors /\ JanitorDecides(h))
  <2>1. h \notin Monitors /\ h \notin Executors
    BY <1>7, HandlersAssumption
  <2>2. CASE Finish(h)
    BY <2>2, FinishProceeds
  <2>3. CASE Observed(h) \in {"stopped", "expired"} /\ \E l \in {"mark", "done"} : Clean(h, l)
    BY <1>2, <1>3, <2>1, <2>3, CleanProceeds
  <2>4. QED
    BY <1>7, <2>2, <2>3 DEF RunningDecides, JanitorDecides
<1>8. QED
  BY <1>4, <1>5, <1>6, <1>7 DEF Decide

LEMMA ReadStateProceeds ==
  ASSUME TInv, MInv, NEW h \in Handlers, ReadState(h)
  PROVE  AllProceed
<1>0. hs[h] \in HandlerState /\ Live(h)
  BY DEF TInv, TypeOK, ReadState, Live
<1> DEFINE r == [hs[h] EXCEPT !.pc = IF At(h, "poll") THEN "decide" ELSE "visited",
                   !.snap = [cfg |-> cfg[hs[h].uid], age |-> age[hs[h].uid]]]
<1>1. /\ r.pc \in {"decide", "visited"} /\ (r.pc = "decide" => At(h, "poll"))
      /\ r.uid = hs[h].uid /\ r.task = hs[h].task
      /\ r.seen = hs[h].seen /\ r.next = hs[h].next /\ r.snap.cfg = cfg[hs[h].uid]
  BY <1>0 DEF HandlerState
<1>2. hs' = [hs EXCEPT ![h] = r]
  BY DEF ReadState
<1>3. hs[h].pc \notin Quitting
  BY DEF ReadState, Quitting
<1> HIDE DEF r
<1>4. hs'[h] = r
  BY <1>2, HandlerFacts
<1>5. /\ h \in Monitors => hs[h].next # "ending"
      /\ h \in Executors => (hs[h].next = "ending" => Interactive(hs[h].task))
  BY <1>0 DEF MInv, MonitorInv, ExecutorInv
<1>6. Onward(h)
  BY <1>0, <1>1, <1>3, <1>4, <1>5 DEF Onward, Serving
<1>7. QED
  BY <1>2, <1>6, OneProceeds DEF Proceeds

LEMMA EventProceeds ==
  ASSUME TInv, JInv, MInv, NEW h \in Handlers,
         \/ /\ h \in Monitors
            /\ ClientCloses(h) \/ ClientSends(h) \/ MonitorTimeout(h) \/ PassthroughTicket(h)
         \/ h \in Executors /\ (ExecuteGivesUp(h) \/ ExecuteStep(h))
         \/ h \in Admins /\ AdminStep(h)
  PROVE  AllProceed
<1>0. h \notin Tasks
  BY HandlersAssumption
<1>1. CASE h \in Monitors /\ (ClientCloses(h) \/ ClientSends(h) \/ MonitorTimeout(h))
  <2>1. Live(h) /\ ~At(h, "create") /\ Clean(h, "done") /\ h \notin Executors
    BY <1>1, HandlersAssumption
       DEF ClientCloses, ClientSends, MonitorTimeout, Watching, At, Live
  <2>2. MarkReason(h)
    BY <1>1 DEF ClientCloses, ClientSends, MonitorTimeout, MarkReason
  <2>3. QED
    BY <2>1, <2>2, CleanProceeds
<1>2. CASE h \in Monitors /\ PassthroughTicket(h)
  <2>1. Live(h) /\ h \notin Executors /\ hs[h].pc \notin Quitting
    BY <1>2, HandlersAssumption DEF PassthroughTicket, At, Live, Quitting
  <2>2. CASE Finish(h)
    BY <2>2, FinishProceeds
  <2>3. CASE Goto(h, "poll")
    BY <1>0, <2>1, <2>3, Labels2, GotoProceeds
  <2>4. QED
    BY <1>2, <2>2, <2>3 DEF PassthroughTicket
<1>3. CASE h \in Executors /\ ExecuteStep(h)
  <2>1. Live(h) /\ ~At(h, "create") /\ hs[h].pc \in Serving /\ h \notin Monitors
    BY <1>3, HandlersAssumption DEF ExecuteStep, ExecuteEnds, ExecuteLeaves, At, Live, Serving
  <2>2. Interactive(hs[h].task)
    BY <1>3, <2>1 DEF MInv, ExecutorInv
  <2>3. MarkReason(h)
    BY <2>2 DEF MarkReason
  <2>4. CASE Finish(h)
    BY <2>4, FinishProceeds
  <2>5. CASE Goto(h, "ending")
    BY <1>0, <2>1, <2>2, <2>5, Labels2, GotoProceeds
  <2>6. CASE \E l \in {"done", "ending"} : Clean(h, l)
    BY <2>1, <2>2, <2>3, <2>6, CleanProceeds
  <2>7. QED
    BY <1>3, <2>4, <2>5, <2>6 DEF ExecuteStep, ExecuteEnds, ExecuteLeaves
<1>4. CASE h \in Admins /\ VisitDecides(h)
  <2>1. Live(h) /\ ~At(h, "create") /\ h \notin Executors /\ h \notin Monitors
    BY <1>4, HandlersAssumption DEF VisitDecides, At, Live
  <2>2. CASE Finish(h)
    BY <2>2, FinishProceeds
  <2>3. CASE Continue(h, "session")
    BY <1>0, <2>1, <2>3, Labels2, GotoProceeds
  <2>4. CASE Observed(h) = "expired" /\ Clean(h, "done")
    <3>1. MarkReason(h)
      BY <1>4, <2>4 DEF VisitDecides, MarkReason
    <3>2. QED
      BY <2>1, <2>4, <3>1, CleanProceeds
  <2>5. QED
    BY <1>4, <2>2, <2>3, <2>4 DEF VisitDecides
<1>5. CASE ExecuteGivesUp(h) \/ GetResult(h) \/ Update(h) \/ VisitEnds(h)
  BY <1>5, FinishProceeds DEF ExecuteGivesUp, GetResult, Update, VisitEnds
<1>6. QED
  BY <1>1, <1>2, <1>3, <1>4, <1>5 DEF AdminStep

LEMMA CleanStepProceeds ==
  ASSUME TInv, LInv, MInv, NEW h \in Handlers, CleanStep(h)
  PROVE  AllProceed
<1>1. Live(h) /\ hs[h].pc \in Quitting
  BY DEF CleanStep, Mark, Kill, Check, Remove, At, Live, Quitting
<1>2. ASSUME NEW l \in {"kill", "check", "remove"}, Goto(h, l) PROVE AllProceed
  <2>1. l \in Pcs \ {"idle", "create", "decide", "mark", "zombie", "done"}
    BY Labels2
  <2>2. l \in Quitting /\ l \notin Serving /\ l # "runner"
    BY DEF Quitting, Serving
  <2>3. QED
    BY <1>1, <1>2, <2>1, <2>2, GotoProceeds
<1>3. CASE ReturnFromClean(h) /\ hs[h].pc \in {"check", "remove"}
  BY <1>3, ReturnFromCleanProceeds
<1>4. QED
  BY <1>2, <1>3 DEF CleanStep, Mark, Kill, Check, Remove, At

LEMMA OneArrives ==
  ASSUME TInv, NEW h \in Handlers \ Tasks,
         NEW l \in {"poll", "mark", "result", "update", "visit", "zombie"},
         NEW u \in Uids, NEW t \in {NoTask, cfg[u].task}, At(h, "idle"),
         hs' = [hs EXCEPT ![h] = Attached(l, u, t)],
         l = "mark" => cfg[u].task \in released',
         h \in Monitors => l # "zombie" /\ cfg'[u].monitor = h
  PROVE  AllProceed
<1> DEFINE r == Attached(l, u, t)
<1>1. AtPc(l) \in HandlerState /\ AtPc(l).pc = l
  BY AtPcOK DEF Pcs
<1>2. /\ r.pc = l /\ r.uid = u /\ r.task = t /\ r.seen = "prestarting" /\ r.next = "done"
  BY DEF Attached, AtPc
<1>3. hs' = [hs EXCEPT ![h] = r]
  OBVIOUS
<1> HIDE DEF r
<1>4. hs'[h] = r
  BY <1>3, HandlerFacts
<1>5. Arrives(h)
  BY <1>2, <1>4 DEF Arrives, Serving, At, Live
<1>6. QED
  BY <1>3, <1>5, OneProceeds DEF Proceeds

LEMMA OpenStepProceeds ==
  ASSUME TInv, JInv, NEW h \in Handlers, NEW k \in tickets,
         \/ h \in Monitors /\ OpenMonitor(h, k)
         \/ h \in Executors /\ OpenExecute(h, k)
         \/ /\ h \in Admins
            /\ \/ OpenRunning(h, k) \/ OpenStop(h, k) \/ OpenGetResult(h, k)
               \/ OpenUpdate(h, k) \/ OpenVisit(h, k)
  PROVE  AllProceed
<1>1. PICK l \in {"poll", "mark", "result", "update", "visit"} :
        /\ Open(h, k, l)
        /\ l = "mark" => k.task \in released'
        /\ h \in Monitors => k.sec = "monitor"
  BY HandlersAssumption
     DEF OpenMonitor, OpenExecute, OpenRunning, OpenStop, OpenGetResult, OpenUpdate, OpenVisit
<1>2. h \notin Tasks /\ At(h, "idle")
  BY <1>1, HandlersAssumption DEF Open
<1>3. k.uid \in Uids /\ cfg[k.uid].task = k.task
  BY HandlerFacts DEF Ticket, JInv, TicketsLeadToTheirTask
<1>4. CASE Finish(h)
  BY <1>4, FinishProceeds
<1>5. CASE TicketAccepted(k) /\ hs' = [hs EXCEPT ![h] = Attached(l, k.uid, k.task)]
  <2>1. h \in Monitors => cfg'[k.uid].monitor = h
    <3> SUFFICES ASSUME h \in Monitors PROVE cfg'[k.uid].monitor = h
      OBVIOUS
    <3>1. cfg' = [cfg EXCEPT ![k.uid].monitor = h]
      BY <1>1, <1>5 DEF Open, UseTicket, TicketAccepted
    <3>2. cfg[k.uid] \in Config
      BY <1>3, HandlerFacts
    <3>3. QED
      BY <1>3, <3>1, <3>2, HandlerFacts DEF Config
  <2>2. QED
    BY <1>1, <1>2, <1>3, <1>5, <2>1, OneArrives
<1>6. QED
  BY <1>1, <1>4, <1>5 DEF Open

LEMMA JanitorProceeds ==
  ASSUME TInv, NEW z \in Janitors, (\E u \in Uids : JanitorVisit(z, u)) \/ JanitorRemoves(z)
  PROVE  AllProceed
<1>1. z \in Handlers /\ z \notin Tasks /\ z \notin Monitors
  BY HandlersAssumption DEF Handlers
<1>2. CASE \E u \in Uids : JanitorNoHome(z, u) \/ JanitorOrphanHome(z, u)
  BY <1>2, NobodyProceeds DEF JanitorNoHome, JanitorOrphanHome
<1>3. CASE \E u \in Uids : JanitorOpens(z, u)
  BY <1>1, <1>3, OneArrives DEF JanitorOpens
<1>4. CASE JanitorRemoves(z)
  BY <1>1, <1>4, FinishProceeds DEF JanitorRemoves
<1>5. QED
  BY <1>2, <1>3, <1>4 DEF JanitorVisit

LEMMA RequestProceeds ==
  ASSUME ~UidReuse, TInv, NEW t \in Tasks, NEW u \in Uids,
         \/ Request(t, u) \/ RequestSkipsHome(t, u) \/ RequestFails(t, u)
         \/ ProgramBuilds(t, u) \/ ProgramEnds(t, u)
  PROVE  AllProceed
<1>0. t \in Handlers
  BY HandlerFacts
<1>1. CASE Request(t, u)
  <2>1. Attached("create", u, t).pc = "create" /\ Attached("create", u, t).uid = u
        /\ Attached("create", u, t).task = t
    BY DEF Attached, AtPc
  <2>2. hs'[t] = Attached("create", u, t)
    BY <1>0, <1>1, HandlerFacts DEF Request
  <2>3. Starts(t)
    BY <1>1, <2>1, <2>2 DEF Starts, Request, Drawable, SelectPrisoner
  <2>4. QED
    BY <1>0, <1>1, <2>3, OneProceeds DEF Proceeds, Request
<1>2. CASE RequestFails(t, u)
  BY <1>0, <1>2, FinishProceeds DEF RequestFails
<1>3. CASE RequestSkipsHome(t, u) \/ ProgramBuilds(t, u) \/ ProgramEnds(t, u)
  BY <1>3, NobodyProceeds DEF RequestSkipsHome, ProgramBuilds, ProgramEnds
<1>4. QED
  BY <1>1, <1>2, <1>3

LEMMA EverybodyProceeds ==
  ASSUME ~UidReuse, TInv, JInv, RInv, ResultsBelongToTask, LInv, MInv, [Next]_vars
  PROVE  AllProceed
<1>w. /\ Monitors \subseteq Handlers /\ Executors \subseteq Handlers /\ Admins \subseteq Handlers
      /\ CanCrash \subseteq Handlers
  BY HandlersAssumption DEF Handlers
<1>1. CASE \/ \E u \in Uids : Tick(u)
           \/ \E h \in CanCrash : Crash(h)
           \/ UNCHANGED vars
  BY <1>w, <1>1, NobodyProceeds, FinishProceeds DEF Tick, Crash, vars
<1>2. CASE \E h \in Handlers : PollStep(h)
  BY <1>2, ReadStateProceeds, DecideProceeds DEF PollStep
<1>3. CASE \/ \E h \in Monitors :
                ClientCloses(h) \/ ClientSends(h) \/ MonitorTimeout(h) \/ PassthroughTicket(h)
           \/ \E h \in Executors : ExecuteGivesUp(h) \/ ExecuteStep(h)
           \/ \E h \in Admins : AdminStep(h)
  BY <1>w, <1>3, EventProceeds
<1>4. CASE \/ \E h \in Monitors, k \in tickets : OpenMonitor(h, k)
           \/ \E h \in Executors, k \in tickets : OpenExecute(h, k)
           \/ \E h \in Admins, k \in tickets :
                \/ OpenRunning(h, k) \/ OpenStop(h, k) \/ OpenGetResult(h, k)
                \/ OpenUpdate(h, k) \/ OpenVisit(h, k)
  BY <1>w, <1>4, OpenStepProceeds
<1>5. QED
  BY <1>1, <1>2, <1>3, <1>4, TaskStepProceeds, RunStepProceeds, CleanStepProceeds,
     JanitorProceeds, RequestProceeds DEF Next, Workers

LEMMA ReleasedGrows ==
  ASSUME [Next]_vars
  PROVE  released \subseteq released'
<1>1. ASSUME NEW h, TaskStep(h) \/ RunStep(h) \/ CleanStep(h)
      PROVE  released' = released
  BY <1>1 DEF TaskStep, RunStep, CleanStep, Create, SaveFiles, ExtraInfo, RegisterCompiler,
       SaveCompilation, Compiled, WaitMonitor, SaveExecution, RegisterRunner, Launch, LoopEnds,
       LoopWarns, LoopKills, LoopThrows, Mark, Kill, Check, Remove, history
<1>2. ASSUME NEW h, \/ PollStep(h) \/ ClientCloses(h) \/ ClientSends(h) \/ MonitorTimeout(h)
                    \/ PassthroughTicket(h) \/ ExecuteGivesUp(h) \/ ExecuteStep(h) \/ AdminStep(h)
      PROVE  released \subseteq released'
  BY <1>2 DEF PollStep, ReadState, Decide, ClientCloses, ClientSends, MonitorTimeout,
       PassthroughTicket, ExecuteGivesUp, ExecuteStep, ExecuteEnds, ExecuteLeaves, AdminStep,
       GetResult, Update, VisitDecides, VisitEnds, history
<1>3. ASSUME NEW h, NEW k, \/ OpenMonitor(h, k) \/ OpenExecute(h, k) \/ OpenRunning(h, k)
                           \/ OpenStop(h, k) \/ OpenGetResult(h, k) \/ OpenUpdate(h, k)
                           \/ OpenVisit(h, k)
      PROVE  released \subseteq released'
  BY <1>3 DEF OpenMonitor, OpenExecute, OpenRunning, OpenStop, OpenGetResult, OpenUpdate,
       OpenVisit, history
<1>4. ASSUME NEW t, NEW u, \/ Request(t, u) \/ RequestSkipsHome(t, u) \/ RequestFails(t, u)
                           \/ ProgramBuilds(t, u) \/ ProgramEnds(t, u) \/ JanitorVisit(t, u)
                           \/ JanitorRemoves(t) \/ Tick(u) \/ Crash(t)
      PROVE  released' = released
  BY <1>4 DEF Request, RequestSkipsHome, RequestFails, ProgramBuilds, ProgramEnds, JanitorVisit,
       JanitorNoHome, JanitorOpens, JanitorOrphanHome, JanitorRemoves, Tick, Crash, history
<1>5. CASE UNCHANGED vars
  BY <1>5 DEF vars
<1>6. CASE Next
  BY <1>1, <1>2, <1>3, <1>4, <1>6 DEF Next
<1>7. QED
  BY <1>5, <1>6

-----------------------------------------------------------------------------
(* What such steps preserve.                                               *)

Step ==
  /\ TInv /\ JInv /\ RInv /\ ResultsBelongToTask /\ LInv /\ MInv
  /\ TInv' /\ JInv' /\ RInv' /\ ResultsBelongToTask' /\ LInv'
  /\ StoreFacts /\ AllProceed /\ RegisteredStep /\ FinalStep /\ released \subseteq released'

(* Where a process that is at work after the step comes from.              *)
LEMMA Before ==
  ASSUME Step, NEW h \in Handlers, Live(h)'
  PROVE  \/ Live(h) /\ hs'[h].uid = hs[h].uid /\ hs'[h].task = hs[h].task
         \/ Arrives(h)
         \/ h \in Tasks /\ Starts(h)
  BY DEF Step, AllProceed, Proceeds, Onward, Leaves, Tells, Live, At

LEMMA TaskBefore ==
  ASSUME Step, NEW t \in Tasks, hs[t].pc # "idle"
  PROVE  /\ hs'[t].pc # "idle"
         /\ Ended(t) => Ended(t)'
         /\ Live(t)' => Live(t) /\ hs'[t].uid = hs[t].uid /\ hs'[t].task = hs[t].task
<1>1. t \in Handlers /\ t \notin Janitors /\ t \notin Monitors
  BY HandlersAssumption DEF Handlers
<1>2. Proceeds(t)
  BY <1>1 DEF Step, AllProceed
<1>3. QED
  BY <1>1, <1>2 DEF Proceeds, Onward, Leaves, Arrives, Starts, Tells, Ended, Live, At

LEMMA SameUidKept ==
  ASSUME Step
  PROVE  SameUid'
<1> SUFFICES ASSUME NEW h \in Handlers, NEW t \in Tasks, Live(h)', Live(t)', hs'[h].task = t
             PROVE  hs'[h].uid = hs'[t].uid
  BY DEF SameUid
<1>w. t \in Handlers /\ t # NoTask
  BY NoConfigFacts DEF Handlers
<1>1. CASE h = t
  BY <1>1
<1>2. CASE h # t /\ hs[t].pc # "idle"
  <2>1. Live(t) /\ hs'[t].uid = hs[t].uid
    BY <1>2, TaskBefore
  <2>2. CASE Live(h) /\ hs'[h].uid = hs[h].uid /\ hs'[h].task = hs[h].task
    BY <2>1, <2>2 DEF Step, MInv, SameUid
  <2>3. CASE Arrives(h)
    <3>1. hs'[h].uid \in Uids /\ cfg[hs'[h].uid].task = t
      BY <1>w, <2>3 DEF Arrives
    <3>2. hs[t].task = t
      BY <2>1 DEF Step, RInv, OwnTask
    <3>3. QED
      BY <1>w, <2>1, <3>1, <3>2 DEF Step, LInv, PlaceOfTask
  <2>4. CASE Starts(h)
    BY <1>2, <2>4 DEF Starts
  <2>5. QED
    BY <2>2, <2>3, <2>4, Before
<1>3. CASE h # t /\ hs[t].pc = "idle"
  <2>1. CASE Live(h) /\ hs'[h].task = hs[h].task
    BY <1>3, <2>1 DEF Step, LInv, YoungInv
  <2>2. CASE Arrives(h)
    <3>1. hs'[h].uid \in Uids /\ cfg[hs'[h].uid].task = t
      BY <1>w, <2>2 DEF Arrives
    <3>2. QED
      BY <1>3, <3>1 DEF Step, RInv, FreshInv
  <2>3. CASE Starts(h)
    BY <1>3, <2>3 DEF Starts
  <2>4. QED
    BY <2>1, <2>2, <2>3, Before
<1>4. QED
  BY <1>1, <1>2, <1>3

LEMMA ProcsAtHomeKept ==
  ASSUME Step
  PROVE  ProcsAtHome'
<1> SUFFICES ASSUME NEW u \in Uids, NEW t \in procs'[u]
             PROVE  hs'[t].pc # "idle" /\ (Live(t)' => hs'[t].uid = u)
  BY DEF ProcsAtHome
<1>1. t \in Tasks /\ t \in Handlers
  BY DEF Step, TInv, TypeOK, StoreTypeOK, Handlers
<1>2. hs[t].pc # "idle" /\ (Live(t) => hs[t].uid = u)
  <2>1. CASE t \in procs[u]
    BY <2>1 DEF Step, MInv, ProcsAtHome
  <2>2. CASE \E g \in Handlers : AtWork(g) /\ hs[g].uid = u /\ hs[g].task = t
    <3>1. PICK g \in Handlers : Live(g) /\ hs[g].uid = u /\ hs[g].task = t
      BY <2>2 DEF AtWork, Working, Live
    <3>2. hs[t].pc # "idle"
      BY <1>1, <3>1 DEF Step, LInv, YoungInv, Live
    <3>3. QED
      BY <1>1, <3>1, <3>2 DEF Step, MInv, SameUid
  <2>3. QED
    BY <2>1, <2>2 DEF Step, StoreFacts, ProcsMove
<1>3. QED
  BY <1>1, <1>2, TaskBefore

(* No new config comes to the uid of a process at work.                    *)
LEMMA NotCreated ==
  ASSUME Step, NEW h \in Handlers, Live(h), h \in Tasks => ~At(h, "create")
  PROVE  ~Created(hs[h].uid)
  BY DEF Created, Step, JInv, CreatingAlone, At

LEMMA ConfigKept ==
  ASSUME Step, NEW u \in Uids, ~Created(u), cfg'[u].task # NoTask
  PROVE  /\ cfg[u].task = cfg'[u].task /\ cfg[u].task # NoTask
         /\ cfg[u].cleaning => cfg'[u] = cfg[u]
         /\ \A f \in {"compiler", "runner", "monitor"} : cfg[u][f] = NoPid \/ cfg'[u][f] = cfg[u][f]
         /\ cfg'[u].runner = cfg[u].runner \/ RunnerComes(u)
<1>1. cfg[u].task = cfg'[u].task /\ cfg[u].task # NoTask
  BY NoConfigFacts DEF Step, StoreFacts, ConfigMoves, Removed
<1>2. cfg[u].cleaning => cfg'[u] = cfg[u]
  BY NoConfigFacts DEF Step, FinalStep
<1>3. QED
  BY <1>1, <1>2 DEF Step, StoreFacts, ConfigMoves, RegisteredStep

LEMMA AgreesKept ==
  ASSUME Step, NEW u \in Uids, ~Created(u), NEW s, Agrees(s, cfg[u])
  PROVE  Agrees(s, cfg'[u])
<1>1. CASE cfg'[u].task # NoTask
  <2>1. /\ cfg[u].task # NoTask
        /\ cfg[u].cleaning => cfg'[u].cleaning
        /\ cfg[u].compiler = NoPid \/ cfg'[u].compiler = cfg[u].compiler
        /\ cfg[u].runner = NoPid \/ cfg'[u].runner = cfg[u].runner
    BY <1>1, ConfigKept
  <2>2. QED
    BY <1>1, <2>1 DEF Agrees
<1>2. CASE cfg'[u].task = NoTask
  BY <1>2 DEF Agrees
<1>3. QED
  BY <1>1, <1>2

LEMMA OwnConfig ==
  ASSUME Step, NEW u \in Uids, NEW t \in Tasks, cfg[u].task \in {NoTask, t}
  PROVE  Own(cfg[u], t)
<1>1. cfg[u].compiler \in {NoPid, t}
  <2>1. cfg[u].compiler \in Tasks \cup {NoPid}
    BY HandlerFacts DEF Step, Config
  <2>2. QED
    BY <2>1, NoConfigFacts DEF Step, RInv, CompilerInv
<1>2. cfg[u].task # NoTask =>
        /\ cfg[u].runner \in Tasks => cfg[u].runner = t /\ ~Interactive(t)
        /\ cfg[u].runner \in Executors => Interactive(t)
  BY DEF Step, RInv, RunnerInv
<1>3. QED
  BY <1>1, <1>2 DEF Own

LEMMA SnapKept ==
  ASSUME Step
  PROVE  SnapInv'
<1> SUFFICES ASSUME NEW h \in Handlers, At(h, "decide")'
             PROVE  Agrees(hs'[h].snap.cfg, cfg'[hs'[h].uid]) /\ Own(hs'[h].snap.cfg, hs'[h].task)
  BY DEF SnapInv, Agrees, Own
<1>1. CASE hs'[h] = hs[h]
  <2>1. At(h, "decide") /\ Live(h) /\ hs[h].uid \in Uids
    BY <1>1, HandlerFacts DEF At, Live, Step
  <2>2. ~Created(hs[h].uid)
    BY <2>1, NotCreated DEF At
  <2>3. Agrees(hs[h].snap.cfg, cfg[hs[h].uid]) /\ Own(hs[h].snap.cfg, hs[h].task)
    BY <2>1 DEF Step, MInv, SnapInv
  <2>4. QED
    BY <1>1, <2>1, <2>2, <2>3, AgreesKept
<1>2. CASE Onward(h)
  <2>1. /\ At(h, "poll") /\ hs'[h].snap.cfg = cfg[hs[h].uid]
        /\ hs'[h].uid = hs[h].uid /\ hs'[h].task = hs[h].task
    BY <1>2 DEF Onward, At
  <2>2. /\ Live(h) /\ hs[h].uid \in Uids /\ hs[h].task \in Tasks
        /\ cfg[hs[h].uid].task \in {NoTask, hs[h].task}
    BY <2>1, HandlerFacts, NoConfigFacts
       DEF At, Live, Step, TInv, HandlersAreAttached, Working, Pcs, JInv, HandlersMeetTheirTask
  <2>3. ~Created(hs[h].uid)
    BY <2>1, <2>2, NotCreated DEF At
  <2>4. Agrees(cfg[hs[h].uid], cfg[hs[h].uid])
    BY DEF Agrees
  <2>5. QED
    BY <2>1, <2>2, <2>3, <2>4, AgreesKept, OwnConfig
<1>3. QED
  BY <1>1, <1>2 DEF Step, AllProceed, Proceeds, Leaves, Arrives, Starts, Tells, At, Live

LEMMA BuiltKept ==
  ASSUME Step
  PROVE  BuiltInv'
<1>p. ASSUME NEW u \in Uids, u \in prog, cfg'[u].task # NoTask PROVE u \in prog'
  BY <1>p, NoConfigFacts DEF Step, StoreFacts, ProgMoves
<1>1. ASSUME NEW u \in Uids, cfg'[u].runner \in Tasks PROVE u \in prog'
  <2>1. cfg'[u].task \in Tasks /\ cfg'[u].task # NoTask
    BY <1>1, NoConfigFacts DEF Step, RInv, RunnerInv
  <2>2. ~Created(u)
    <3> SUFFICES ASSUME NEW t \in Tasks, cfg'[u] = NewConfig(t) PROVE FALSE
      BY DEF Created
    <3>1. cfg'[u].runner = NoPid
      BY DEF NewConfig
    <3>2. QED
      BY <1>1, <3>1, NoConfigFacts
  <2>3. cfg[u].task # NoTask /\ (cfg'[u].runner = cfg[u].runner \/ RunnerComes(u))
    BY <2>1, <2>2, ConfigKept
  <2>4. CASE cfg'[u].runner = cfg[u].runner
    BY <1>1, <1>p, <2>1, <2>4 DEF Step, MInv, BuiltInv
  <2>5. CASE RunnerComes(u)
    BY <1>1, <1>p, <2>1, <2>3, <2>5 DEF RunnerComes, Step, MInv, BuiltInv
  <2>6. QED
    BY <2>3, <2>4, <2>5
<1>2. ASSUME NEW t \in Tasks, At(t, "runner")', cfg'[hs'[t].uid].task # NoTask
      PROVE  hs'[t].uid \in prog'
  <2>0. t \in Handlers /\ t \notin Monitors
    BY HandlersAssumption DEF Handlers
  <2>1. Live(t) /\ hs'[t].uid = hs[t].uid /\ (hs'[t] = hs[t] \/ hs[t].uid \in prog)
    BY <1>2, <2>0 DEF Step, AllProceed, Proceeds, Onward, Leaves, Arrives, Starts, Tells, At, Live
  <2>2. hs[t].uid \in Uids
    BY <2>0, <2>1, HandlerFacts DEF Step
  <2>3. CASE hs'[t] = hs[t]
    <3>1. At(t, "runner")
      BY <1>2, <2>3 DEF At
    <3>2. ~Created(hs[t].uid)
      BY <2>0, <2>1, <3>1, NotCreated DEF At
    <3>3. cfg[hs[t].uid].task # NoTask
      BY <1>2, <2>1, <2>2, <3>2, ConfigKept
    <3>4. QED
      BY <1>2, <1>p, <2>1, <2>2, <3>1, <3>3 DEF Step, MInv, BuiltInv
  <2>4. CASE hs[t].uid \in prog
    BY <1>2, <1>p, <2>1, <2>2, <2>4
  <2>5. QED
    BY <2>1, <2>3, <2>4
<1>3. QED
  BY <1>1, <1>2 DEF BuiltInv

LEMMA MonitorKept ==
  ASSUME Step
  PROVE  MonitorInv'
<1> SUFFICES ASSUME NEW h \in Monitors, Live(h)'
             PROVE  /\ hs'[h].next # "ending" /\ hs'[h].pc # "zombie"
                    /\ cfg'[hs'[h].uid].task # NoTask => cfg'[hs'[h].uid].monitor = h
  BY DEF MonitorInv
<1>w. h \in Handlers /\ h \notin Tasks /\ h # NoPid
  BY HandlersAssumption, StoreAssumption DEF Handlers, Pids
<1>1. CASE Arrives(h)
  BY <1>1 DEF Arrives
<1>2. CASE hs'[h] = hs[h] \/ Onward(h) \/ Tells(h)
  <2>1. Live(h) /\ hs'[h].uid = hs[h].uid
    BY <1>2 DEF Onward, Tells, Live, At
  <2>2. /\ hs[h].next # "ending" /\ hs[h].pc # "zombie"
        /\ cfg[hs[h].uid].task # NoTask => cfg[hs[h].uid].monitor = h
    BY <2>1 DEF Step, MInv, MonitorInv
  <2>3. hs'[h].next # "ending" /\ hs'[h].pc # "zombie"
    BY <1>2, <2>2 DEF Onward, Tells
  <2>4. ASSUME cfg'[hs[h].uid].task # NoTask PROVE cfg'[hs[h].uid].monitor = h
    <3>1. ~Created(hs[h].uid) /\ hs[h].uid \in Uids
      BY <1>w, <2>1, NotCreated, HandlerFacts DEF Step
    <3>2. QED
      BY <1>w, <2>2, <2>4, <3>1, ConfigKept
  <2>5. QED
    BY <2>1, <2>3, <2>4
<1>3. QED
  BY <1>w, <1>1, <1>2 DEF Step, AllProceed, Proceeds, Leaves

LEMMA ExecutorKept ==
  ASSUME Step
  PROVE  ExecutorInv'
<1> SUFFICES ASSUME NEW h \in Executors, Live(h)', hs'[h].pc \in Serving \/ hs'[h].next = "ending"
             PROVE  Interactive(hs'[h].task)
  BY DEF ExecutorInv, Interactive
<1>w. h \in Handlers /\ h \notin Tasks /\ h \notin Monitors
  BY HandlersAssumption DEF Handlers
<1>1. CASE hs'[h] = hs[h]
  BY <1>1 DEF Step, MInv, ExecutorInv, Live
<1>2. CASE Onward(h)
  BY <1>2 DEF Onward
<1>3. ~Arrives(h) /\ ~Leaves(h)
  BY DEF Arrives, Leaves
<1>4. QED
  BY <1>w, <1>1, <1>2, <1>3 DEF Step, AllProceed, Proceeds, Tells

(* Once a batch task has ended nothing changes its runner, its results or  *)
(* its program any more.                                                   *)
LEMMA EndedTask ==
  ASSUME Step, NEW u \in Uids, cfg[u].task \in Tasks, ~Interactive(cfg[u].task), Ended(cfg[u].task)
  PROVE  /\ ~RunnerComes(u) /\ ~Saving(u)
         /\ \A t \in procs[u] : ~At(t, "compiling")
<1> DEFINE t == cfg[u].task
<1>w. Tasks \subseteq Handlers /\ Executors \subseteq Handlers
  BY DEF Handlers
<1>1. ASSUME NEW h \in Handlers, Live(h), hs[h].uid = u, hs[h].task # NoTask
      PROVE  hs[h].task = t
  BY <1>1, NoConfigFacts DEF Step, JInv, HandlersMeetTheirTask
<1>2. ~Live(t)
  BY DEF Ended, Live
<1>3. ASSUME NEW s \in Tasks, Live(s), hs[s].uid = u PROVE FALSE
  <2>1. hs[s].task = s /\ s # NoTask
    BY <1>3, NoConfigFacts DEF Step, RInv, OwnTask
  <2>2. QED
    BY <1>w, <1>1, <1>2, <1>3, <2>1
<1>4. ~RunnerComes(u)
  <2> SUFFICES ASSUME NEW h \in Workers, At(h, "runner"), hs[h].uid = u PROVE FALSE
    BY DEF RunnerComes
  <2>1. Live(h) /\ h \in Handlers
    BY <1>w DEF At, Live, Workers
  <2>2. h \in Executors
    BY <1>3, <2>1 DEF Workers
  <2>3. hs[h].task \in Tasks
    BY <2>1 DEF Step, TInv, HandlersAreAttached, At, Working, Pcs
  <2>4. Interactive(hs[h].task)
    BY <2>2 DEF Step, RInv, PlaceInv
  <2>5. QED
    BY <1>1, <2>1, <2>3, <2>4, NoConfigFacts
<1>5. ~Saving(u)
  BY <1>3 DEF Saving
<1>6. ASSUME NEW s \in procs[u], At(s, "compiling") PROVE FALSE
  <2>1. s \in Tasks /\ Live(s)
    BY <1>6, HandlerFacts DEF At, Live, Step
  <2>2. hs[s].uid = u
    BY <2>1 DEF Step, MInv, ProcsAtHome
  <2>3. QED
    BY <1>3, <2>1, <2>2
<1>7. QED
  BY <1>4, <1>5, <1>6

LEMMA AnnouncedOnward ==
  ASSUME Step, NEW h \in Monitors, hs'[h] = hs[h] \/ Onward(h), Live(h)'
  PROVE  Announced(h)'
<1> DEFINE u == hs[h].uid
           t == hs[h].task
           x == hs[h].seen
<1>w. h \in Handlers /\ h \notin Tasks
  BY HandlersAssumption DEF Handlers
<1>1. /\ Live(h) /\ hs'[h].uid = u /\ hs'[h].task = t /\ hs'[h].seen = x
      /\ hs'[h].pc = "decide" => \/ At(h, "decide") /\ hs'[h].snap = hs[h].snap
                                 \/ At(h, "poll") /\ hs'[h].snap.cfg = cfg[u]
  BY DEF Onward, Live, At
<1>2. Announced(h) /\ u \in Uids /\ ~Created(u)
  BY <1>w, <1>1, HandlerFacts, NotCreated DEF Step, MInv, AnnouncedInv
<1>3. BorneOut(x, cfg'[u])
  <2> SUFFICES ASSUME cfg'[u].task # NoTask
               PROVE  /\ x \in {"compiling", "beforeRunning", "running", "retrieve"}
                           => cfg'[u].compiler # NoPid
                      /\ x = "running" => cfg'[u].runner # NoPid
    BY DEF BorneOut
  <2>1. /\ cfg[u].task # NoTask
        /\ cfg[u].compiler = NoPid \/ cfg'[u].compiler = cfg[u].compiler
        /\ cfg[u].runner = NoPid \/ cfg'[u].runner = cfg[u].runner
    BY <1>2, ConfigKept
  <2>2. QED
    BY <1>2, <2>1 DEF Announced, BorneOut
<1>4. hs'[h].pc = "decide" => BorneOut(x, hs'[h].snap.cfg)
  BY <1>1, <1>2 DEF Announced
<1>6. ASSUME NEW s \in Tasks, Ended(s) PROVE Ended(s)'
  <2>1. hs[s].pc # "idle"
    BY <1>6 DEF Ended
  <2>2. QED
    BY <1>6, <2>1, TaskBefore
<1>7. ASSUME x = "retrieve", cfg'[u].task # NoTask, t \in Tasks
      PROVE  /\ cfg'[u].runner = NoPid => u \notin prog'
             /\ hs'[h].pc = "decide" => hs'[h].snap.cfg.runner = cfg'[u].runner
  <2>1. cfg[u].task # NoTask /\ (cfg'[u].runner = cfg[u].runner \/ RunnerComes(u))
    BY <1>2, <1>7, ConfigKept
  <2>2. cfg[u].task = t
    BY <1>w, <1>1, <1>7, <2>1, NoConfigFacts DEF Step, JInv, HandlersMeetTheirTask
  <2>3. ~Interactive(t) /\ Ended(t)
    BY <1>2, <1>7 DEF Announced
  <2>4. cfg'[u].runner = cfg[u].runner /\ \A s \in procs[u] : ~At(s, "compiling")
    BY <1>2, <1>7, <2>1, <2>2, <2>3, EndedTask
  <2>5. u \in prog' => u \in prog
    BY <1>2, <2>4 DEF Step, StoreFacts, ProgMoves
  <2>6. QED
    BY <1>1, <1>2, <1>7, <2>1, <2>4, <2>5 DEF Announced
<1>8. t \in Tasks
  <2>1. hs[h].pc \in Working \ {"zombie"}
    BY <1>w, <1>1 DEF Working, Live, Step, TInv, TypeOK, HandlerState, MInv, MonitorInv
  <2>2. QED
    BY <1>w, <2>1 DEF Step, TInv, HandlersAreAttached, Working
<1>9. QED
  <2>1. x = "beforeRunning" => Interactive(t) /\ Ended(t)
    BY <1>2 DEF Announced
  <2>2. x = "retrieve" => ~Interactive(t) /\ Ended(t)
    BY <1>2 DEF Announced
  <2>3. x # "stopped"
    BY <1>2 DEF Announced
  <2>4. (x \in {"beforeRunning", "retrieve"}) => hs'[t].pc = "done"
    BY <1>6, <1>8, <2>1, <2>2 DEF Ended
  <2>5. QED
    BY <1>1, <1>3, <1>4, <1>7, <1>8, <2>1, <2>2, <2>3, <2>4 DEF Announced, Interactive, Ended, At

(* What a monitor has found that goes on watching.                         *)
LEMMA TellFacts ==
  ASSUME Step, NEW h \in Monitors, Tells(h), NEW o, o = Observed(h),
         NEW s, s = hs[h].snap.cfg, NEW u, u = hs[h].uid, NEW t, t = hs[h].task
  PROVE  /\ h \in Handlers /\ Live(h) /\ u \in Uids /\ t \in Tasks
         /\ cfg[u].task \in {NoTask, t}
         /\ Agrees(s, cfg[u]) /\ Own(s, t) /\ s.task = t /\ ~s.cleaning
         /\ s.runner \in Tasks \cup Executors \cup {NoPid}
         /\ o \in ProcessStates \ {"stopped"}
         /\ o # "starting" <=> s.compiler # NoPid
         /\ o \in {"compiling", "beforeRunning"} => s.runner = NoPid
         /\ o = "compiling" =>
              ~Ended(t) \/ (~Interactive(t) /\ comp[u] # NoTask /\ u \in prog)
         /\ o = "beforeRunning" => Interactive(t) /\ Ended(t)
         /\ o = "running" => s.runner # NoPid /\ (Interactive(t) \/ ~Ended(t))
         /\ o = "retrieve" =>
              /\ ~Interactive(t) /\ Ended(t)
              /\ \/ s.runner = NoPid /\ comp[u] # NoTask /\ u \notin prog
                 \/ s.runner # NoPid /\ exec[u] # NoTask
<1>w. h \in Handlers /\ h \notin Tasks /\ At(h, "decide")
  BY HandlersAssumption DEF Handlers, Tells
<1>f. /\ Live(h) /\ u \in Uids /\ t \in Tasks /\ t # NoTask /\ cfg[u].task \in {NoTask, t}
      /\ Agrees(s, cfg[u]) /\ Own(s, t) /\ s \in Config
  BY <1>w, DeciderFacts DEF Step
<1>0. o \in ProcessStates \ {"stopped"}
  BY ObservedOK DEF Tells, MonitorKeepsWatching
<1>1. hs[h].snap.cfg.task # NoTask /\ ~hs[h].snap.cfg.cleaning
  BY <1>0 DEF Observed, GetState
<1>2. o = GetState(hs[h].snap, u, Alive)
  BY DEF Observed
<1>3. s.task = t /\ ~s.cleaning
  BY <1>f, <1>1 DEF Own
<1>4. /\ o = "starting" <=> s.compiler = NoPid
      /\ o = "compiling" =>
           /\ s.runner = NoPid
           /\ s.compiler \in Alive \/ (~Interactive(s.task) /\ comp[u] # NoTask /\ u \in prog)
      /\ o = "beforeRunning" => s.runner = NoPid /\ s.compiler \notin Alive /\ Interactive(s.task)
      /\ o = "running" => s.runner # NoPid /\ s.runner \in Alive
      /\ o = "retrieve" =>
           /\ ~Interactive(s.task)
           /\ \/ /\ s.runner = NoPid /\ s.compiler \notin Alive
                 /\ comp[u] # NoTask /\ u \notin prog
              \/ s.runner # NoPid /\ s.runner \notin Alive /\ exec[u] # NoTask
  BY <1>1, <1>2, GetStateMeans
<1>5. s.runner \in Tasks \cup Executors \cup {NoPid}
  BY <1>f DEF Config
<1>6. t \in Alive <=> ~Ended(t)
  <2>1. t \in Handlers
    BY <1>f, HandlerFacts DEF Step
  <2>2. t \notin Alive => Ended(t)
    BY <1>w, <1>f, DeadIsEnded DEF Step
  <2>3. QED
    BY <2>1, <2>2 DEF Alive, Live, Ended
<1>7. o # "starting" => s.compiler = t
  BY <1>f, <1>4 DEF Own
<1>8. s.runner # NoPid /\ ~Interactive(t) => s.runner = t
  BY <1>f, <1>3, <1>5 DEF Own
<1>9. QED
  BY <1>w, <1>f, <1>0, <1>3, <1>4, <1>5, <1>6, <1>7, <1>8

LEMMA AnnouncedTells ==
  ASSUME Step, NEW h \in Monitors, Tells(h)
  PROVE  Announced(h)'
<1>1. PICK o, s, u, t :
        o = Observed(h) /\ s = hs[h].snap.cfg /\ u = hs[h].uid /\ t = hs[h].task
  OBVIOUS
<1>2. /\ hs'[h].uid = u /\ hs'[h].task = t /\ hs'[h].seen = o /\ hs'[h].pc # "decide"
      /\ cfg' = cfg /\ prog' = prog
  BY <1>1 DEF Tells, store
<1>f. /\ t \in Tasks /\ o \in ProcessStates \ {"stopped"} /\ Agrees(s, cfg[u]) /\ s.task = t
      /\ o # "starting" <=> s.compiler # NoPid
      /\ o = "running" => s.runner # NoPid
      /\ o = "beforeRunning" => Interactive(t) /\ Ended(t)
      /\ o = "retrieve" => /\ ~Interactive(t) /\ Ended(t)
                           /\ s.runner # NoPid \/ u \notin prog
  BY <1>1, TellFacts
<1>3. Ended(t) => hs'[t].pc = "done"
  <2>1. Ended(t) => hs[t].pc # "idle" /\ Ended(t)'
    BY <1>f, TaskBefore DEF Ended
  <2>2. QED
    BY <2>1 DEF Ended
<1>4. cfg[u].task # NoTask =>
        /\ s.compiler # NoPid => cfg[u].compiler # NoPid
        /\ s.runner # NoPid => cfg[u].runner # NoPid
  BY <1>f DEF Agrees
<1>5. BorneOut(o, cfg[u])
  BY <1>f, <1>4 DEF BorneOut
<1>6. QED
  BY <1>2, <1>f, <1>3, <1>4, <1>5 DEF Announced, Interactive, Ended, At

LEMMA AnnouncedKept ==
  ASSUME Step
  PROVE  AnnouncedInv'
<1> SUFFICES ASSUME NEW h \in Monitors, Live(h)' PROVE Announced(h)'
  BY DEF AnnouncedInv
<1>w. h \in Handlers /\ h \notin Tasks
  BY HandlersAssumption DEF Handlers
<1>1. CASE Arrives(h)
  <2>1. hs'[h].seen = "prestarting" /\ hs'[h].pc # "decide"
    BY <1>1 DEF Arrives
  <2>2. QED
    BY <2>1 DEF Announced, BorneOut, At
<1>2. QED
  BY <1>w, <1>1, AnnouncedOnward, AnnouncedTells DEF Step, AllProceed, Proceeds, Leaves

(* What AnnouncedStatesAdvance says of one step.                           *)
AdvanceStep ==
  \A h \in Monitors : Live(h) /\ hs'[h].pc # "done" =>
    StateRank[hs'[h].seen] >= StateRank[hs[h].seen]

LEMMA RankTold ==
  ASSUME Step, NEW h \in Monitors, Tells(h)
  PROVE  StateRank[Observed(h)] >= StateRank[hs[h].seen]
<1>1. PICK o, s, u, t :
        o = Observed(h) /\ s = hs[h].snap.cfg /\ u = hs[h].uid /\ t = hs[h].task
  OBVIOUS
<1> DEFINE x == hs[h].seen
<1>f. /\ h \in Handlers /\ Live(h) /\ u \in Uids /\ t \in Tasks /\ t # NoTask
      /\ cfg[u].task \in {NoTask, t} /\ Agrees(s, cfg[u]) /\ s.task = t
      /\ o \in ProcessStates \ {"stopped"}
      /\ o # "starting" <=> s.compiler # NoPid
      /\ o \in {"compiling", "beforeRunning"} => s.runner = NoPid
      /\ o = "compiling" =>
           ~Ended(t) \/ (~Interactive(t) /\ comp[u] # NoTask /\ u \in prog)
      /\ o = "beforeRunning" => Interactive(t) /\ Ended(t)
      /\ o = "running" => s.runner # NoPid /\ (Interactive(t) \/ ~Ended(t))
  BY <1>1, TellFacts, NoConfigFacts
<1>g. /\ At(h, "decide") /\ x \in ProcessStates
      /\ x # "stopped" /\ BorneOut(x, s)
      /\ x = "beforeRunning" => Interactive(t) /\ Ended(t)
      /\ x = "retrieve" =>
           /\ ~Interactive(t) /\ Ended(t)
           /\ cfg[u].task # NoTask =>
                (cfg[u].runner = NoPid => u \notin prog) /\ s.runner = cfg[u].runner
  <2>1. At(h, "decide") /\ x \in ProcessStates
    BY <1>f DEF Tells, Step, TInv, TypeOK, HandlerState
  <2>2. Announced(h)
    BY <1>f DEF Step, MInv, AnnouncedInv
  <2>3. QED
    BY <1>1, <2>1, <2>2 DEF Announced
<1>2. /\ x \in {"compiling", "beforeRunning", "running", "retrieve"} => s.compiler # NoPid
      /\ x = "running" => s.runner # NoPid
  BY <1>f, <1>g DEF BorneOut
<1>3. comp[u] # NoTask => cfg[u].task # NoTask
  BY <1>f DEF Step, ResultsBelongToTask
<1>4. o = "starting" => x \in {"prestarting", "starting"}
  BY <1>f, <1>g, <1>2 DEF ProcessStates
<1>5. o = "compiling" => x \in {"prestarting", "starting", "compiling"}
  BY <1>f, <1>g, <1>2, <1>3 DEF ProcessStates
<1>6. o = "beforeRunning" => x \in {"prestarting", "starting", "compiling", "beforeRunning"}
  BY <1>f, <1>g, <1>2 DEF ProcessStates
<1>7. o = "running" => x # "retrieve"
  BY <1>f, <1>g
<1>8. o # "prestarting"
  BY <1>1 DEF Observed, GetState, NoRunnerState, DeadRunnerState
<1> HIDE DEF x
<1>9. StateRank[o] >= StateRank[x]
  <2>1. o \in {"starting", "compiling", "beforeRunning", "running", "retrieve"}
    BY <1>f, <1>8 DEF ProcessStates
  <2>2. x \in {"prestarting", "starting", "compiling", "beforeRunning", "running", "retrieve"}
    BY <1>g DEF ProcessStates
  <2>3. QED
    BY <1>4, <1>5, <1>6, <1>7, <2>1, <2>2 DEF StateRank
<1>10. QED
  BY <1>1, <1>9 DEF x

LEMMA StatesAdvance ==
  ASSUME Step
  PROVE  AdvanceStep
<1> SUFFICES ASSUME NEW h \in Monitors, Live(h), hs'[h].pc # "done"
             PROVE  StateRank[hs'[h].seen] >= StateRank[hs[h].seen]
  BY DEF AdvanceStep
<1>w. h \in Handlers /\ h \notin Tasks /\ h \notin Janitors
  BY HandlersAssumption DEF Handlers
<1>1. CASE Tells(h)
  <2>1. hs'[h].seen = Observed(h)
    BY <1>1 DEF Tells
  <2>2. QED
    BY <1>1, <2>1, RankTold
<1>2. CASE hs'[h].seen = hs[h].seen
  <2>1. hs[h].seen \in ProcessStates
    BY <1>w DEF Step, TInv, TypeOK, HandlerState
  <2>2. StateRank[hs[h].seen] \in Nat
    BY <2>1 DEF ProcessStates, StateRank
  <2>3. QED
    BY <1>2, <2>2
<1>3. QED
  BY <1>w, <1>1, <1>2 DEF Step, AllProceed, Proceeds, Onward, Leaves, Arrives, Live, At

(* Nobody wants a task that nobody wanted before.                          *)
LEMMA UnwantedKept ==
  ASSUME Step, NEW u \in Uids, ~Created(u), cfg'[u].task # NoTask,
         cfg[u].task \notin released', Unwanted(u)
  PROVE  Unwanted(u)'
<1>0. PICK t : t = cfg[u].task
  OBVIOUS
<1>1. /\ cfg'[u].task = t /\ t # NoTask
      /\ \A f \in {"compiler", "runner", "monitor"} : cfg[u][f] = NoPid \/ cfg'[u][f] = cfg[u][f]
      /\ cfg'[u].runner = cfg[u].runner \/ RunnerComes(u)
  BY <1>0, ConfigKept
<1>2. t \in Tasks /\ t \notin released'
  BY <1>0, <1>1, HandlerFacts DEF Step, Config
<1>3. CASE Interactive(t)
  BY <1>0, <1>1, <1>3 DEF Unwanted, Interactive
<1>4. CASE NoResult(u)
  <2>1. Ended(t) /\ ~Interactive(t)
    BY <1>0, <1>4 DEF NoResult
  <2>2. hs'[t].pc = "done"
    <3>1. hs[t].pc # "idle"
      BY <2>1 DEF Ended
    <3>2. Ended(t)'
      BY <1>2, <2>1, <3>1, TaskBefore
    <3>3. QED
      BY <3>2 DEF Ended
  <2>3. cfg'[u].runner = cfg[u].runner /\ ~Saving(u)
    BY <1>0, <1>1, <1>2, <2>1, EndedTask
  <2>4. ~Removed(u) /\ ~Taken(u)
    BY <1>0, <1>1, <1>2, NoConfigFacts DEF Removed, Taken
  <2>5. comp'[u] = comp[u] /\ exec'[u] = exec[u]
    BY <2>3, <2>4 DEF Step, StoreFacts, ResultMoves
  <2>6. QED
    BY <1>0, <1>1, <1>4, <2>1, <2>2, <2>3, <2>5 DEF Unwanted, NoResult, Ended, Interactive
<1>5. CASE Unwatched(u)
  <2>1. PICK h : h = cfg[u].monitor
    OBVIOUS
  <2>2. /\ h \in Monitors /\ h \in Handlers \ (Tasks \cup Janitors) /\ h # NoPid
        /\ hs[h].pc = "done" \/ (hs[h].pc \in Quitting /\ hs[h].seen # "retrieve")
    BY <1>5, <2>1, HandlersAssumption, StoreAssumption DEF Unwatched, Handlers, Pids, At
  <2>3. cfg'[u].monitor = h
    BY <1>1, <2>1, <2>2
  <2>4. hs'[h].pc = "done" \/ (hs'[h].pc \in Quitting /\ hs'[h].seen # "retrieve")
    <3>1. Proceeds(h)
      BY <2>2 DEF Step, AllProceed
    <3>2. CASE Onward(h)
      BY <2>2, <3>2 DEF Onward, Live
    <3>3. QED
      BY <2>2, <3>1, <3>2 DEF Proceeds, Leaves, Arrives, Tells, Quitting, At
  <2>5. QED
    BY <2>2, <2>3, <2>4 DEF Unwanted, Unwatched, At
<1>6. QED
  BY <1>0, <1>3, <1>4, <1>5 DEF Unwanted

(* A process that is about to mark a task of a client who has not got its  *)
(* result has a reason.                                                    *)
LEMMA MarkUnwanted ==
  ASSUME Step, NEW u \in Uids, ~Created(u), cfg'[u].task \notin released' \cup {NoTask},
         ~cfg[u].cleaning,
         NEW h \in Handlers, Onward(h), hs'[h].pc = "mark", hs[h].uid = u
  PROVE  Unwanted(u)'
<1>1. cfg[u].task = cfg'[u].task /\ cfg[u].task # NoTask
  BY ConfigKept
<1>2. Live(h) /\ hs'[h].uid = u /\ hs'[h].task = hs[h].task /\ hs'[h].seen = hs[h].seen
  BY DEF Onward
<1>3. hs[h].task = cfg[u].task
  <2>1. hs'[h].task \in Tasks
    BY DEF Step, TInv, HandlersAreAttached, Working, Pcs
  <2>2. QED
    BY <1>1, <1>2, <2>1, NoConfigFacts DEF Step, JInv, HandlersMeetTheirTask
<1>4. MarkReason(h)
  BY DEF Onward
<1>5. CASE Interactive(hs[h].task)
  BY <1>1, <1>3, <1>5 DEF Unwanted, Interactive
<1>6. CASE NoResult(u)
  BY <1>1, <1>6, UnwantedKept DEF Unwanted
<1>7. CASE h \in Monitors /\ hs[h].seen # "retrieve"
  <2>1. cfg[u].monitor = h
    BY <1>1, <1>2, <1>7 DEF Step, MInv, MonitorInv
  <2>2. h # NoPid
    BY <1>7, StoreAssumption DEF Pids
  <2>3. cfg'[u].monitor = h
    BY <1>1, <2>1, <2>2, ConfigKept
  <2>4. QED
    BY <1>2, <1>7, <2>3 DEF Unwanted, Unwatched, Quitting
<1>8. QED
  BY <1>1, <1>3, <1>4, <1>5, <1>6, <1>7 DEF MarkReason, ReadInfoOK

LEMMA DoomedKept ==
  ASSUME Step
  PROVE  DoomedInv'
<1> SUFFICES ASSUME NEW u \in Uids, Doomed(u)', cfg'[u].task \notin released' \cup {NoTask}
             PROVE  Unwanted(u)'
  BY DEF DoomedInv
<1>1. cfg'[u].cleaning \/ \E h \in Handlers : hs'[h].pc = "mark" /\ hs'[h].uid = u
  BY DEF Doomed, At
<1>2. ASSUME NEW h \in Handlers, hs'[h].pc = "mark", hs'[h].uid = u
      PROVE  /\ ~Created(u)
             /\ At(h, "mark") \/ Onward(h)
             /\ hs[h].uid = u
  <2>1. ~Arrives(h)
    <3> SUFFICES ASSUME Arrives(h) PROVE FALSE
      OBVIOUS
    <3>1. cfg[u].task \in released'
      BY <1>2 DEF Arrives
    <3>2. cfg[u].task # NoTask /\ cfg[u].task # cfg'[u].task
      BY <3>1, NoConfigFacts DEF Step, TInv, TypeOK
    <3>3. cfg'[u] = NoConfig
      BY <3>2, NoConfigFacts DEF Step, StoreFacts, ConfigMoves, Removed, Created
    <3>4. QED
      BY <3>3 DEF NoConfig, NewConfig
  <2>2. hs'[h] = hs[h] \/ Onward(h)
    <3>1. Proceeds(h) /\ ~Leaves(h) /\ ~Starts(h) /\ ~Tells(h)
      BY <1>2 DEF Step, AllProceed, Leaves, Starts, Tells, Live
    <3>2. QED
      BY <2>1, <3>1 DEF Proceeds
  <2>3. Live(h) /\ hs[h].uid = u /\ ~At(h, "create")
    BY <1>2, <2>2 DEF Onward, Live, At
  <2>4. QED
    BY <1>2, <2>2, <2>3, NotCreated DEF At
<1>3. ~Created(u)
  <2>1. CASE cfg'[u].cleaning
    <3>1. Created(u) => cfg'[u].cleaning = FALSE
      BY DEF Created, NewConfig
    <3>2. QED
      BY <2>1, <3>1
  <2>2. QED
    BY <1>1, <1>2, <2>1
<1>4. cfg[u].task = cfg'[u].task
  BY <1>3, ConfigKept
<1>5. Doomed(u) => Unwanted(u)
  BY <1>4 DEF Step, MInv, DoomedInv
<1>6. CASE Doomed(u)
  BY <1>3, <1>4, <1>5, <1>6, UnwantedKept
<1>7. CASE ~Doomed(u)
  <2>1. ~cfg'[u].cleaning
    BY <1>7 DEF Step, StoreFacts, ConfigMoves
  <2>2. PICK h \in Handlers : hs'[h].pc = "mark" /\ hs'[h].uid = u
    BY <1>1, <2>1
  <2>3. Onward(h) /\ hs[h].uid = u
    BY <1>2, <1>7, <2>2 DEF Doomed
  <2>4. ~cfg[u].cleaning
    BY <1>7 DEF Doomed
  <2>5. QED
    BY <1>3, <2>2, <2>3, <2>4, MarkUnwanted
<1>8. QED
  BY <1>6, <1>7

(* The task of a client that was told to come for its result is not one to *)
(* clean.                                                                  *)
LEMMA NotDoomed ==
  ASSUME DoomedInv', MonitorInv', NEW h \in Monitors, Live(h)', hs'[h].seen = "retrieve",
         NEW u \in Uids, u = hs'[h].uid, NEW t \in Tasks \ released', ~Interactive(t),
         cfg'[u].task = t, comp'[u] = t, cfg'[u].runner # NoPid => exec'[u] = t
  PROVE  ~Doomed(u)'
<1>1. t # NoTask
  BY NoConfigFacts
<1>2. cfg'[u].monitor = h /\ hs'[h].pc # "done"
  BY <1>1 DEF MonitorInv, Live
<1>3. ~Interactive(cfg[u].task)'
  BY DEF Interactive
<1>4. ~NoResult(u)'
  BY <1>1 DEF NoResult
<1>5. ~Unwatched(u)'
  BY <1>2 DEF Unwatched, At
<1>6. ~Unwanted(u)'
  BY <1>3, <1>4, <1>5 DEF Unwanted
<1>7. QED
  BY <1>1, <1>6 DEF DoomedInv

LEMMA ToldOnward ==
  ASSUME Step, DoomedInv', MonitorInv', NEW h \in Monitors, hs'[h] = hs[h] \/ Onward(h),
         Told(h)'
  PROVE  ResultWaits(h)'
<1>w. h \in Handlers /\ h \notin Tasks
  BY HandlersAssumption DEF Handlers
<1>p. Live(h)' /\ hs'[h].seen = "retrieve" /\ hs'[h].task \notin released'
  BY DEF Told
<1>1. PICK u, t : u = hs[h].uid /\ t = hs[h].task
  OBVIOUS
<1>2. Live(h) /\ hs'[h].uid = u /\ hs'[h].task = t /\ hs[h].seen = "retrieve"
  BY <1>1, <1>p DEF Onward, Live
<1>3. t \notin released'
  BY <1>2, <1>p
<1>4. u \in Uids /\ ~Created(u)
  BY <1>w, <1>1, <1>2, HandlerFacts, NotCreated DEF Step
<1>5. t \in Tasks /\ t # NoTask
  <2>1. hs[h].pc \in Working \ {"zombie"}
    BY <1>w, <1>2 DEF Working, Live, Step, TInv, TypeOK, HandlerState, MInv, MonitorInv
  <2>2. QED
    BY <1>w, <1>1, <2>1, NoConfigFacts DEF Step, TInv, HandlersAreAttached, Working
<1>6. /\ cfg[u].task = t /\ ~Doomed(u) /\ comp[u] = t
      /\ cfg[u].runner # NoPid => exec[u] = t
  <2>1. Told(h)
    BY <1>1, <1>2, <1>3 DEF Told, Step
  <2>2. QED
    BY <1>1, <2>1 DEF Step, MInv, ToldInv, ResultWaits
<1>7. ~Interactive(t) /\ Ended(t)
  BY <1>1, <1>2 DEF Step, MInv, AnnouncedInv, Announced
<1>8. ~Removed(u) /\ ~Taken(u) /\ ~Saving(u) /\ ~RunnerComes(u)
  <2>1. ~Saving(u) /\ ~RunnerComes(u)
    BY <1>4, <1>5, <1>6, <1>7, EndedTask
  <2>2. ReadInfoOK(u)
    BY <1>5, <1>6 DEF Doomed, ReadInfoOK
  <2>3. QED
    BY <1>3, <1>5, <1>6, <2>1, <2>2 DEF Removed, Taken
<1>9. cfg'[u].task = t /\ cfg'[u].runner = cfg[u].runner
  BY <1>4, <1>5, <1>6, <1>8 DEF Step, StoreFacts, ConfigMoves
<1>10. comp'[u] = comp[u] /\ exec'[u] = exec[u]
  BY <1>4, <1>8 DEF Step, StoreFacts, ResultMoves
<1>11. ~Doomed(u)'
  BY <1>2, <1>3, <1>4, <1>5, <1>6, <1>7, <1>9, <1>10, <1>p, NotDoomed
<1>12. QED
  BY <1>2, <1>6, <1>9, <1>10, <1>11 DEF ResultWaits, Doomed, At

LEMMA ToldTells ==
  ASSUME Step, DoomedInv', MonitorInv', NEW h \in Monitors, Tells(h), Told(h)'
  PROVE  ResultWaits(h)'
<1>1. PICK o, s, u, t :
        o = Observed(h) /\ s = hs[h].snap.cfg /\ u = hs[h].uid /\ t = hs[h].task
  OBVIOUS
<1>p. Live(h)' /\ hs'[h].seen = "retrieve" /\ hs'[h].task \notin released'
  BY DEF Told
<1>2. /\ hs'[h].uid = u /\ hs'[h].task = t /\ o = "retrieve"
      /\ cfg' = cfg /\ comp' = comp /\ exec' = exec
  BY <1>1, <1>p DEF Tells, store
<1>f. /\ u \in Uids /\ t \in Tasks /\ cfg[u].task \in {NoTask, t}
      /\ ~Interactive(t)
      /\ (comp[u] # NoTask /\ u \notin prog) \/ exec[u] # NoTask
  <2>1. /\ u \in Uids /\ t \in Tasks /\ cfg[u].task \in {NoTask, t}
        /\ o = "retrieve" =>
             /\ ~Interactive(t)
             /\ \/ s.runner = NoPid /\ comp[u] # NoTask /\ u \notin prog
                \/ s.runner # NoPid /\ exec[u] # NoTask
    BY <1>1, TellFacts
  <2>2. QED
    BY <1>2, <2>1
<1>3. comp[u] = t /\ cfg[u].task = t /\ exec[u] \in {NoTask, t}
  BY <1>f DEF Step, ResultsBelongToTask
<1>4. cfg[u].runner # NoPid => exec[u] = t
  <2>1. CASE exec[u] # NoTask
    BY <1>3, <2>1
  <2>2. CASE u \notin prog
    <3>1. cfg[u].runner \notin Tasks
      BY <1>f, <2>2 DEF Step, MInv, BuiltInv
    <3>2. cfg[u].runner \notin Executors
      BY <1>f, <1>3 DEF Step, RInv, RunnerInv
    <3>3. cfg[u].runner \in Tasks \cup Executors \cup {NoPid}
      BY <1>f, HandlerFacts DEF Step, Config
    <3>4. QED
      BY <3>1, <3>2, <3>3
  <2>3. QED
    BY <1>f, <2>1, <2>2
<1>5. ~Doomed(u)'
  <2>1. t \in Tasks \ released'
    BY <1>f, <1>2, <1>p
  <2>2. QED
    BY <1>2, <1>f, <1>3, <1>4, <1>p, <2>1, NotDoomed
<1>6. QED
  BY <1>2, <1>3, <1>4, <1>5 DEF ResultWaits, Doomed, At

LEMMA ToldKept ==
  ASSUME Step, DoomedInv', MonitorInv'
  PROVE  ToldInv'
<1> SUFFICES ASSUME NEW h \in Monitors, Told(h)' PROVE ResultWaits(h)'
  BY DEF ToldInv
<1>w. h \in Handlers /\ h \notin Tasks
  BY HandlersAssumption DEF Handlers
<1>1. ~Leaves(h) /\ ~Arrives(h)
  BY DEF Told, Leaves, Arrives
<1>2. QED
  BY <1>w, <1>1, ToldOnward, ToldTells DEF Step, AllProceed, Proceeds

LEMMA MInvInit == Init => MInv
<1> SUFFICES ASSUME Init PROVE MInv
  OBVIOUS
<1>1. \A h \in Handlers : hs[h].pc = "idle"
  BY AtPcOK DEF Init, Pcs
<1>2. \A u \in Uids : /\ cfg[u] = NoConfig /\ procs[u] = {}
                     /\ cfg[u].task = NoTask /\ cfg[u].runner = NoPid
  BY DEF Init, StoreInit, NoConfig, NewConfig
<1>3. SnapInv /\ SameUid /\ ProcsAtHome /\ AnnouncedInv /\ MonitorInv /\ ExecutorInv /\ ToldInv
  BY <1>1, <1>2, HandlersAssumption
     DEF SnapInv, SameUid, ProcsAtHome, AnnouncedInv, MonitorInv, ExecutorInv, ToldInv, Told,
         At, Live, Handlers
<1>4. BuiltInv
  <2>1. NoPid \notin Tasks
    BY StoreAssumption DEF Pids
  <2>2. \A t \in Tasks : ~At(t, "runner")
    BY <1>1 DEF At, Handlers
  <2>3. QED
    BY <1>2, <2>1, <2>2 DEF BuiltInv
<1>5. DoomedInv
  BY <1>2 DEF DoomedInv
<1>6. QED
  BY <1>3, <1>4, <1>5 DEF MInv

LEMMA MInvNext ==
  ASSUME ~UidReuse, Timely, TInv, JInv, RInv, ResultsBelongToTask, LInv, MInv, [Next]_vars
  PROVE  (TInv /\ JInv /\ RInv /\ ResultsBelongToTask /\ LInv /\ MInv)' /\ AdvanceStep
<1>1. TInv' /\ JInv' /\ RInv' /\ ResultsBelongToTask' /\ RegisteredStep
  BY AllInvNext
<1>2. LInv'
  BY <1>1, LInvNext
<1>3. FinalStep
  <2>1. UNCHANGED vars => FinalStep
    BY DEF vars, FinalStep
  <2>2. QED
    BY <2>1, JInvNext
<1>4. Step
  BY <1>1, <1>2, <1>3, AllStoreFacts, EverybodyProceeds, ReleasedGrows DEF Step
<1>5. MonitorInv' /\ DoomedInv'
  BY <1>4, MonitorKept, DoomedKept
<1>6. MInv'
  BY <1>4, <1>5, SnapKept, SameUidKept, ProcsAtHomeKept, BuiltKept, AnnouncedKept, ExecutorKept,
     ToldKept DEF MInv
<1>7. QED
  BY <1>1, <1>2, <1>4, <1>6, StatesAdvance

(* A client that was told to come for its result finds it, and the ticket  *)
(* it needs, until it takes the result, stops the task or lets its time    *)
(* run out: no other process that looks at the task gives up on it, and    *)
(* one that already cleans it had no client left to tell.                  *)
THEOREM ToldResultsWait ==
  ASSUME ~UidReuse, Timely
  PROVE Spec => []RetrieveHasResult
<1>1. Init => TInv /\ JInv /\ RInv /\ ResultsBelongToTask /\ LInv /\ MInv
  BY AllInvInit, LInvInit, MInvInit
<1>2. (TInv /\ JInv /\ RInv /\ ResultsBelongToTask /\ LInv /\ MInv) /\ [Next]_vars
        => (TInv /\ JInv /\ RInv /\ ResultsBelongToTask /\ LInv /\ MInv)'
  BY MInvNext
<1>3. TInv /\ LInv /\ MInv => RetrieveHasResult
  <2> SUFFICES ASSUME TInv, LInv, MInv, NEW h \in Monitors, Told(h)
               PROVE  /\ comp[hs[h].uid] = hs[h].task
                      /\ cfg[hs[h].uid].runner # NoPid => exec[hs[h].uid] = hs[h].task
                      /\ \E k \in tickets : k.task = hs[h].task /\ k.sec = "admin"
    BY DEF RetrieveHasResult, Told
  <2>1. ResultWaits(h)
    BY DEF MInv, ToldInv
  <2>2. h \in Handlers /\ Live(h) /\ hs[h].pc # "zombie"
    BY DEF Handlers, Told, MInv, MonitorInv
  <2>3. hs[h].uid \in Uids /\ hs[h].task \in Tasks
    BY <2>2 DEF TInv, TypeOK, HandlerState, HandlersAreAttached, Working, Live
  <2>4. ReadInfoOK(hs[h].uid)
    BY <2>1, <2>3, NoConfigFacts DEF ResultWaits, Doomed, ReadInfoOK
  <2>5. QED
    BY <2>1, <2>3, <2>4 DEF ResultWaits, LInv, AdminInv
<1>4. QED
  BY <1>1, <1>2, <1>3, PTL DEF Spec

(* What a monitor tells its client only ever goes forward, although the    *)
(* config may have gone on between reading it and looking at processes and *)
(* files: an old config says no more than the registered processes bear    *)
(* out, and what has ended does not come back.                             *)
THEOREM AnnouncementsAdvance ==
  ASSUME ~UidReuse, Timely
  PROVE Spec => AnnouncedStatesAdvance
<1>1. Init => TInv /\ JInv /\ RInv /\ ResultsBelongToTask /\ LInv /\ MInv
  BY AllInvInit, LInvInit, MInvInit
<1>2. (TInv /\ JInv /\ RInv /\ ResultsBelongToTask /\ LInv /\ MInv) /\ [Next]_vars
        => (TInv /\ JInv /\ RInv /\ ResultsBelongToTask /\ LInv /\ MInv)'
  BY MInvNext
<1>3. (TInv /\ JInv /\ RInv /\ ResultsBelongToTask /\ LInv /\ MInv) /\ [Next]_vars =>
        [\A h \in Monitors : Live(h) /\ hs'[h].pc # "done" =>
           StateRank[hs'[h].seen] >= StateRank[hs[h].seen]]_vars
  BY MInvNext DEF AdvanceStep
<1>4. QED
  BY <1>1, <1>2, <1>3, PTL DEF Spec, AnnouncedStatesAdvance
-----------------------------------------------------------------------------
(* The life of a task.  Module TaskLife allows a registration and an       *)
(* output only at its place in the life of the task, while the code looks  *)
(* at little more than CLEANING: that the registrations come in order      *)
(* follows from where the processes are.                                   *)

Preparing == {"save", "extra", "compiler"}
Compiling == {"launchCompiler", "compiling", "saveCompilation", "compiled", "waitMonitor",
              "runner"}
Executing == {"launch", "running", "saveExecution"}
Staged == Preparing \cup Compiling \cup Executing \cup {"browser"}

(* What the config c of a task says while its child is at l.               *)
Stage(l, c, t) ==
  /\ l \in Preparing => c.compiler = NoPid /\ c.runner = NoPid
  /\ l \in Compiling => c.compiler = t /\ c.runner = NoPid
  /\ l \in Executing => c.compiler = t /\ c.runner = t

StageInv ==
  \A t \in Tasks : \A u \in Uids :
    hs[t].uid = u /\ cfg[u].task = t => Stage(hs[t].pc, cfg[u], t)

OrderInv == \A u \in Uids : cfg[u].runner # NoPid => cfg[u].compiler # NoPid

(* An execute websocket comes to run a task that has been compiled.        *)
HasCompiler(u, t) == cfg[u].task = t => cfg[u].compiler # NoPid

Ready(h) ==
  /\ Ended(hs[h].task)
  /\ \A u \in Uids : hs[h].uid = u => HasCompiler(u, hs[h].task)

ReadyInv == \A h \in Executors : At(h, "runner") => Ready(h)

BrowserInv == \A h \in Handlers : At(h, "browser") => h \in Monitors /\ hs[h].seen = "running"

VInv == StageInv /\ OrderInv /\ ReadyInv /\ BrowserInv

-----------------------------------------------------------------------------
(* The moves of processes that leave each where its config is.             *)

SameStage(l, m) == \E S \in {Preparing, Compiling, Executing} : l \in S /\ m \in S

KeepsStage(h, r) ==
  \/ r.pc \notin IF h \in Tasks THEN Staged ELSE {"runner", "browser"}
  \/ h \in Tasks /\ r.uid = hs[h].uid /\ SameStage(hs[h].pc, r.pc)
  \/ /\ h \in Executors /\ r.pc = "runner" /\ Ended(r.task) /\ cfg' = cfg
     /\ \A u \in Uids : r.uid = u => HasCompiler(u, r.task)
  \/ h \in Monitors /\ r.pc = "browser" /\ r.seen = "running"

AllKeep == \A h \in Handlers : hs'[h] = hs[h] \/ KeepsStage(h, hs'[h])

BirthsKeep == \A t \in Tasks : Unborn(t)' <=> Unborn(t)

Calm == AllKeep /\ BirthsKeep

LEMMA OneKeeps ==
  ASSUME TInv, NEW h \in Handlers, NEW r, hs' = [hs EXCEPT ![h] = r], KeepsStage(h, r)
  PROVE  AllKeep
<1>1. hs'[h] = r /\ \A g \in Handlers \ {h} : hs'[g] = hs[g]
  BY HandlerFacts
<1>2. QED
  BY <1>1 DEF AllKeep

LEMMA OneCalm ==
  ASSUME TInv, NEW h \in Handlers, NEW r, hs' = [hs EXCEPT ![h] = r], KeepsStage(h, r),
         h \in Tasks => (r.pc \in {"idle", "create"} <=> Unborn(h))
  PROVE  Calm
<1>1. hs'[h] = r /\ \A g \in Handlers \ {h} : hs'[g] = hs[g]
  BY HandlerFacts
<1>2. BirthsKeep
  BY <1>1, HandlerFacts DEF BirthsKeep, Unborn
<1>3. QED
  BY <1>2, OneKeeps DEF Calm

LEMMA NobodyCalm ==
  ASSUME hs' = hs
  PROVE  Calm
  BY DEF Calm, AllKeep, BirthsKeep, Unborn

LEMMA GotoCalm ==
  ASSUME TInv, NEW h \in Handlers, NEW l \in Pcs \ {"idle", "create"},
         Goto(h, l) \/ Continue(h, l),
         IF h \in Tasks
         THEN ~Unborn(h) /\ (l \notin Staged \/ SameStage(hs[h].pc, l))
         ELSE l \notin {"runner", "browser"}
  PROVE  Calm
<1>0. hs[h] \in HandlerState
  BY DEF TInv, TypeOK
<1>1. PICK r : r.pc = l /\ r.uid = hs[h].uid /\ hs' = [hs EXCEPT ![h] = r]
  <2>1. CASE Goto(h, l)
    <3> DEFINE r == [hs[h] EXCEPT !.pc = l]
    <3>1. r.pc = l /\ r.uid = hs[h].uid
      BY <1>0 DEF HandlerState
    <3>2. hs' = [hs EXCEPT ![h] = r]
      BY <2>1 DEF Goto
    <3> HIDE DEF r
    <3>3. QED
      BY <3>1, <3>2
  <2>2. CASE Continue(h, l)
    <3> DEFINE r == [hs[h] EXCEPT !.pc = l, !.snap = NoSnapshot]
    <3>1. r.pc = l /\ r.uid = hs[h].uid
      BY <1>0 DEF HandlerState
    <3>2. hs' = [hs EXCEPT ![h] = r]
      BY <2>2 DEF Continue
    <3> HIDE DEF r
    <3>3. QED
      BY <3>1, <3>2
  <2>3. QED
    BY <2>1, <2>2
<1>2. KeepsStage(h, r)
  BY <1>1 DEF KeepsStage
<1>3. h \in Tasks => (r.pc \in {"idle", "create"} <=> Unborn(h))
  BY <1>1
<1>4. QED
  BY <1>1, <1>2, <1>3, OneCalm

LEMMA FinishKeeps ==
  ASSUME TInv, NEW h \in Handlers, Finish(h)
  PROVE  /\ AllKeep
         /\ h \notin Tasks \/ ~Unborn(h) => Calm
         /\ h \in Tasks => hs'[h].pc = "done" /\ \A g \in Handlers \ {h} : hs'[g] = hs[g]
<1>1. PICK l \in {"idle", "done"} :
        hs' = [hs EXCEPT ![h] = AtPc(l)] /\ (h \notin Janitors => l = "done")
  BY DEF Finish
<1>2. AtPc(l).pc = l /\ hs'[h] = AtPc(l) /\ \A g \in Handlers \ {h} : hs'[g] = hs[g]
  BY <1>1, HandlerFacts, AtPcOK DEF Pcs
<1>3. KeepsStage(h, AtPc(l))
  BY <1>2 DEF KeepsStage, Staged, Preparing, Compiling, Executing
<1>4. h \in Tasks => l = "done"
  BY <1>1, HandlersAssumption
<1>5. h \notin Tasks \/ ~Unborn(h) => Calm
  BY <1>1, <1>2, <1>3, <1>4, OneCalm
<1>6. QED
  BY <1>1, <1>2, <1>3, <1>4, <1>5, OneKeeps

LEMMA CleanCalm ==
  ASSUME TInv, NEW h \in Handlers, NEW l, Clean(h, l), h \notin Tasks \/ ~Unborn(h)
  PROVE  Calm
<1>0. hs[h] \in HandlerState
  BY DEF TInv, TypeOK
<1> DEFINE r == [hs[h] EXCEPT !.pc = "mark", !.next = l, !.snap = NoSnapshot]
<1>1. r.pc = "mark"
  BY <1>0 DEF HandlerState
<1>2. hs' = [hs EXCEPT ![h] = r]
  BY DEF Clean
<1> HIDE DEF r
<1>3. KeepsStage(h, r)
  BY <1>1 DEF KeepsStage, Staged, Preparing, Compiling, Executing
<1>4. QED
  BY <1>1, <1>2, <1>3, OneCalm

LEMMA ReturnFromCleanCalm ==
  ASSUME TInv, NEW h \in Handlers, ReturnFromClean(h), h \notin Tasks \/ ~Unborn(h)
  PROVE  Calm
<1>0. hs[h] \in HandlerState
  BY DEF TInv, TypeOK
<1>1. CASE hs[h].next = "done"
  BY <1>1, FinishKeeps DEF ReturnFromClean
<1>2. CASE hs[h].next # "done"
  <2> DEFINE r == [hs[h] EXCEPT !.pc = hs[h].next, !.next = "done"]
  <2>1. r.pc \in {"mark", "ending"}
    BY <1>0, <1>2 DEF HandlerState
  <2>2. hs' = [hs EXCEPT ![h] = r]
    BY <1>2 DEF ReturnFromClean
  <2> HIDE DEF r
  <2>3. KeepsStage(h, r)
    BY <2>1 DEF KeepsStage, Staged, Preparing, Compiling, Executing
  <2>4. QED
    BY <2>1, <2>2, <2>3, OneCalm
<1>3. QED
  BY <1>1, <1>2

LEMMA ArriveCalm ==
  ASSUME TInv, NEW h \in Handlers \ Tasks, NEW l \in Pcs \ {"runner", "browser"}, NEW u, NEW t,
         hs' = [hs EXCEPT ![h] = Attached(l, u, t)]
  PROVE  Calm
<1>1. AtPc(l).pc = l /\ AtPc(l) \in HandlerState
  BY AtPcOK
<1>2. Attached(l, u, t).pc = l
  BY DEF Attached, AtPc
<1>3. KeepsStage(h, Attached(l, u, t))
  BY <1>2 DEF KeepsStage
<1>4. QED
  BY <1>3, OneCalm

-----------------------------------------------------------------------------
(* The kinds of steps, by what they do to a life.                          *)

Refuses ==
  /\ AllKeep
  /\ \E t \in Tasks : Unborn(t) /\ hs'[t].pc = "done" /\ \A g \in Handlers \ {t} : hs'[g] = hs[g]
  /\ UNCHANGED <<cfg, comp, exec>>

Writes ==
  \/ UNCHANGED <<cfg, comp, exec>>
  \/ \E h, k : k \in tickets /\ (k.sec = "monitor" => h \in Monitors) /\ UseTicket(k, h)
  \/ \E h \in Monitors :
       At(h, "browser") /\ ReadInfoOK(hs[h].uid) /\ AddPassthroughTicket(hs[h].uid)
  \/ \E t \in Tasks :
       /\ At(t, "saveCompilation") /\ ReadInfoOK(hs[t].uid) /\ comp[hs[t].uid] = NoTask
       /\ SetCompilationOutput(t, hs[t].uid)
  \/ \E t \in Tasks :
       /\ At(t, "saveExecution") /\ ReadInfoOK(hs[t].uid)
       /\ comp[hs[t].uid] # NoTask /\ exec[hs[t].uid] = NoTask
       /\ SetExecutionOutput(t, hs[t].uid)
  \/ \E h \in Handlers : At(h, "result") /\ ~Interactive(hs[h].task) /\ TakeResult(hs[h].uid)
  \/ \E h \in Handlers : At(h, "mark") /\ MarkCleaning(hs[h].uid, hs[h].task)
  \/ \E u \in Uids : ~ReadInfoOK(u) /\ CleanPrisonerFiles(u)

LifeKind ==
  \/ Calm /\ Writes
  \/ Refuses
  \/ \E t \in Tasks : Create(t) \/ RegisterCompiler(t)
  \/ \E h \in Workers : RegisterRunner(h)

LEMMA TaskStepLife ==
  ASSUME TInv, NEW t \in Tasks, TaskStep(t)
  PROVE  LifeKind
<1>1. t \in Handlers
  BY HandlerFacts
<1>2. CASE Create(t) \/ RegisterCompiler(t)
  BY <1>2 DEF LifeKind
<1>3. CASE \/ SaveFiles(t) \/ ExtraInfo(t) \/ SaveCompilation(t) \/ Compiled(t)
           \/ WaitMonitor(t) \/ SaveExecution(t)
  <2>1. ~Unborn(t)
    BY <1>3 DEF SaveFiles, ExtraInfo, SaveCompilation, Compiled, WaitMonitor, SaveExecution, At,
                Unborn
  <2>2. \/ Finish(t)
        \/ \E l \in {"extra", "compiler"} : Goto(t, l) /\ hs[t].pc \in Preparing
        \/ \E l \in {"compiled", "waitMonitor", "runner"} : Goto(t, l) /\ hs[t].pc \in Compiling
    BY <1>3 DEF SaveFiles, ExtraInfo, SaveCompilation, Compiled, WaitMonitor, SaveExecution, At,
                Preparing, Compiling
  <2>3. Calm
    <3>1. ASSUME NEW l \in {"extra", "compiler"}, Goto(t, l), hs[t].pc \in Preparing
          PROVE  Calm
      <4>1. l \in Pcs \ {"idle", "create"} /\ SameStage(hs[t].pc, l)
        BY <3>1 DEF Pcs, SameStage, Preparing
      <4>2. QED
        BY <1>1, <2>1, <3>1, <4>1, GotoCalm
    <3>2. ASSUME NEW l \in {"compiled", "waitMonitor", "runner"}, Goto(t, l),
                 hs[t].pc \in Compiling
          PROVE  Calm
      <4>1. l \in Pcs \ {"idle", "create"} /\ SameStage(hs[t].pc, l)
        BY <3>2 DEF Pcs, SameStage, Compiling
      <4>2. QED
        BY <1>1, <2>1, <3>2, <4>1, GotoCalm
    <3>3. QED
      BY <1>1, <2>1, <2>2, <3>1, <3>2, FinishKeeps
  <2>4. Writes
    <3>1. CASE SaveCompilation(t)
      BY <3>1 DEF SaveCompilation, Writes, store
    <3>2. CASE SaveExecution(t)
      BY <3>2 DEF SaveExecution, Writes, store
    <3>3. CASE SaveFiles(t) \/ ExtraInfo(t) \/ Compiled(t) \/ WaitMonitor(t)
      BY <3>3 DEF SaveFiles, ExtraInfo, Compiled, WaitMonitor, Writes, store
    <3>4. QED
      BY <1>3, <3>1, <3>2, <3>3
  <2>5. QED
    BY <2>3, <2>4 DEF LifeKind
<1>4. QED
  BY <1>2, <1>3 DEF TaskStep

LEMMA RunStepLife ==
  ASSUME TInv, NEW h \in Workers, RunStep(h)
  PROVE  LifeKind
<1>1. h \in Handlers
  BY DEF Workers, Handlers
<1>2. CASE RegisterRunner(h)
  BY <1>2 DEF LifeKind
<1>3. CASE Launch(h) \/ LoopEnds(h) \/ LoopWarns(h) \/ LoopKills(h) \/ LoopThrows(h)
  <2>1. hs[h].pc \in {"launchCompiler", "compiling", "launch", "running"} /\ ~Unborn(h)
    BY <1>3 DEF Launch, LoopOf, LoopEnds, LoopWarns, LoopKills, LoopThrows, InLoop, Unborn
  <2>2. ASSUME NEW l \in {"compiling", "running", "saveCompilation", "saveExecution", "ending",
                          "ran"},
               Goto(h, l), h \in Tasks => SameStage(hs[h].pc, l)
        PROVE  Calm
    <3>1. l \in Pcs \ {"idle", "create"} /\ l \notin {"runner", "browser"}
      BY DEF Pcs
    <3>2. QED
      BY <1>1, <2>1, <2>2, <3>1, GotoCalm
  <2>3. ASSUME Goto(h, AfterLoop(h)) PROVE Calm
    <3>1. AfterLoop(h) \in {"saveCompilation", "saveExecution", "ending", "ran"}
      BY DEF AfterLoop
    <3>2. h \in Tasks => SameStage(hs[h].pc, AfterLoop(h))
      BY <2>1 DEF AfterLoop, SameStage, Compiling, Executing
    <3>3. PICK l \in {"saveCompilation", "saveExecution", "ending", "ran"} : l = AfterLoop(h)
      BY <3>1
    <3>4. Goto(h, l) /\ (h \in Tasks => SameStage(hs[h].pc, l))
      BY <2>3, <3>2, <3>3
    <3>5. QED
      BY <2>2, <3>4
  <2>4. ASSUME NEW l \in {"compiling", "running"}, Goto(h, l), hs[h].pc \in DOMAIN LoopOf,
               l = "compiling" <=> At(h, "launchCompiler")
        PROVE  Calm
    <3>1. SameStage(hs[h].pc, l)
      BY <2>4 DEF SameStage, Compiling, Executing, LoopOf, At
    <3>2. QED
      BY <2>2, <2>4, <3>1
  <2>5. Calm
    <3>1. CASE Launch(h)
      <4>1. \/ Goto(h, AfterLoop(h))
            \/ At(h, "launchCompiler") /\ Goto(h, "compiling")
            \/ At(h, "launch") /\ Goto(h, "running")
        BY <3>1 DEF Launch, LoopOf, At
      <4>2. QED
        BY <2>3, <2>4, <4>1 DEF LoopOf, At
    <3>2. CASE LoopEnds(h) \/ LoopWarns(h) \/ LoopKills(h) \/ LoopThrows(h)
      <4>1. hs' = hs \/ Finish(h) \/ Goto(h, AfterLoop(h))
        BY <3>2 DEF LoopEnds, LoopWarns, LoopKills, LoopThrows
      <4>2. QED
        BY <1>1, <2>1, <2>3, <4>1, FinishKeeps, NobodyCalm
    <3>3. QED
      BY <1>3, <3>1, <3>2
  <2>6. UNCHANGED <<cfg, comp, exec>>
    BY <1>3 DEF Launch, LoopEnds, LoopWarns, LoopKills, LoopThrows, StopPrisonerProcess, store
  <2>7. QED
    BY <2>5, <2>6 DEF LifeKind, Writes
<1>4. QED
  BY <1>2, <1>3 DEF RunStep

(* A process that is told to run a task finds its compilation at an end.   *)
LEMMA BeforeRunningIsReady ==
  ASSUME TInv, JInv, LInv, MInv, NEW h \in Handlers \ Tasks, At(h, "decide"),
         Observed(h) = "beforeRunning"
  PROVE  /\ Ended(hs[h].task)
         /\ \A u \in Uids : hs[h].uid = u => HasCompiler(u, hs[h].task)
<1>1. /\ hs[h].snap.cfg.task # NoTask
      /\ hs[h].snap.cfg.compiler # NoPid /\ hs[h].snap.cfg.compiler \notin Alive
  BY DEF Observed, GetState, NoRunnerState, DeadRunnerState
<1>2. hs[h].snap.cfg.compiler = hs[h].task
  BY <1>1, DeciderFacts DEF Own
<1>3. Ended(hs[h].task)
  BY <1>1, <1>2, DeciderFacts, DeadIsEnded
<1>4. \A u \in Uids : hs[h].uid = u => HasCompiler(u, hs[h].task)
  BY <1>1, DeciderFacts DEF Agrees, HasCompiler
<1>5. QED
  BY <1>3, <1>4

LEMMA DecideLife ==
  ASSUME TInv, JInv, LInv, MInv, NEW h \in Handlers, Decide(h)
  PROVE  Calm /\ Writes
<1>0. hs[h] \in HandlerState
  BY DEF TInv, TypeOK
<1>1. At(h, "decide") /\ UNCHANGED store /\ h \notin Tasks
  BY HandlersAssumption DEF Decide
<1>2. Writes
  BY <1>1 DEF Writes, store
<1>3. CASE \/ Finish(h)
           \/ \E l : Clean(h, l)
           \/ Continue(h, "poll")
  <2>1. "poll" \in Pcs \ {"idle", "create"} /\ "poll" \notin {"runner", "browser"}
    BY DEF Pcs
  <2>2. QED
    BY <1>1, <1>2, <1>3, <2>1, FinishKeeps, CleanCalm, GotoCalm
<1>4. CASE h \in Monitors /\ MonitorDecides(h) /\ MonitorKeepsWatching(h)
  <2>1. PICK l \in {"poll", "browser"} :
          /\ hs' = [hs EXCEPT ![h] = [@ EXCEPT !.pc = l, !.seen = Observed(h),
                                               !.snap = NoSnapshot]]
          /\ l = "browser" => Observed(h) = "running"
    BY <1>4 DEF MonitorDecides
  <2> DEFINE r == [hs[h] EXCEPT !.pc = l, !.seen = Observed(h), !.snap = NoSnapshot]
  <2>2. r.pc = l /\ r.seen = Observed(h)
    BY <1>0 DEF HandlerState
  <2>3. hs' = [hs EXCEPT ![h] = r]
    BY <2>1
  <2> HIDE DEF r
  <2>4. KeepsStage(h, r)
    BY <1>1, <1>4, <2>1, <2>2 DEF KeepsStage
  <2>5. QED
    BY <1>1, <1>2, <2>3, <2>4, OneCalm
<1>5. CASE h \in Executors /\ Observed(h) = "beforeRunning" /\ Continue(h, "runner")
  <2> DEFINE r == [hs[h] EXCEPT !.pc = "runner", !.snap = NoSnapshot]
  <2>1. r.pc = "runner" /\ r.uid = hs[h].uid /\ r.task = hs[h].task
    BY <1>0 DEF HandlerState
  <2>2. hs' = [hs EXCEPT ![h] = r]
    BY <1>5 DEF Continue
  <2> HIDE DEF r
  <2>3. KeepsStage(h, r)
    BY <1>1, <1>5, <2>1, BeforeRunningIsReady DEF KeepsStage, store
  <2>4. QED
    BY <1>1, <1>2, <2>2, <2>3, OneCalm
<1>6. CASE h \in Monitors /\ MonitorDecides(h) /\ ~MonitorKeepsWatching(h)
  BY <1>3, <1>6 DEF MonitorDecides
<1>7. CASE h \in Executors /\ ExecuteDecides(h)
  BY <1>3, <1>5, <1>7 DEF ExecuteDecides
<1>8. CASE (h \in Admins /\ RunningDecides(h)) \/ (h \in Janitors /\ JanitorDecides(h))
  BY <1>3, <1>8 DEF RunningDecides, JanitorDecides
<1>9. QED
  BY <1>4, <1>6, <1>7, <1>8 DEF Decide

LEMMA ReadStateLife ==
  ASSUME TInv, NEW h \in Handlers, ReadState(h)
  PROVE  Calm /\ Writes
<1>0. hs[h] \in HandlerState
  BY DEF TInv, TypeOK
<1> DEFINE r == [hs[h] EXCEPT !.pc = IF At(h, "poll") THEN "decide" ELSE "visited",
                   !.snap = [cfg |-> cfg[hs[h].uid], age |-> age[hs[h].uid]]]
<1>1. r.pc \in {"decide", "visited"}
  BY <1>0 DEF HandlerState
<1>2. hs' = [hs EXCEPT ![h] = r]
  BY DEF ReadState
<1> HIDE DEF r
<1>3. ~Unborn(h)
  BY DEF ReadState, Unborn
<1>4. KeepsStage(h, r)
  BY <1>1 DEF KeepsStage, Staged, Preparing, Compiling, Executing
<1>5. Calm
  BY <1>1, <1>2, <1>3, <1>4, OneCalm
<1>6. QED
  BY <1>5 DEF ReadState, Writes, store

LEMMA CleanStepLife ==
  ASSUME TInv, LInv, NEW h \in Handlers, CleanStep(h)
  PROVE  Calm /\ Writes
<1>1. ~Unborn(h)
  BY DEF CleanStep, Mark, Kill, Check, Remove, At, Unborn
<1>2. ASSUME NEW l \in {"kill", "check", "remove"}, Goto(h, l) PROVE Calm
  <2>1. l \in Pcs \ {"idle", "create"} /\ l \notin Staged
    BY DEF Pcs, Staged, Preparing, Compiling, Executing
  <2>2. QED
    BY <1>1, <1>2, <2>1, GotoCalm DEF Staged, Compiling
<1>3. Calm
  BY <1>1, <1>2, ReturnFromCleanCalm DEF CleanStep, Mark, Kill, Check, Remove
<1>4. Writes
  <2>1. CASE Mark(h)
    BY <2>1 DEF Mark, Writes
  <2>2. CASE Remove(h)
    <3>1. hs[h].uid \in Uids /\ ~ReadInfoOK(hs[h].uid)
      BY <2>2, HandlerFacts DEF Remove, At, Live, LInv, MarkedInv, Marked
    <3>2. QED
      BY <2>2, <3>1 DEF Remove, Writes
  <2>3. CASE Kill(h) \/ Check(h)
    BY <2>3 DEF Kill, Check, StopPrisonerProcess, Writes, store
  <2>4. QED
    BY <2>1, <2>2, <2>3 DEF CleanStep
<1>5. QED
  BY <1>3, <1>4

LEMMA EventLife ==
  ASSUME TInv, NEW h \in Handlers \ Tasks,
         \/ /\ h \in Monitors
            /\ ClientCloses(h) \/ ClientSends(h) \/ MonitorTimeout(h) \/ PassthroughTicket(h)
         \/ ExecuteGivesUp(h) \/ ExecuteStep(h) \/ AdminStep(h)
  PROVE  Calm /\ Writes
<1>1. \/ Finish(h)
      \/ \E l : Clean(h, l)
      \/ \E l \in {"poll", "session", "ending"} : Goto(h, l) \/ Continue(h, l)
  BY DEF ClientCloses, ClientSends, MonitorTimeout, PassthroughTicket, ExecuteGivesUp,
         ExecuteStep, ExecuteEnds, ExecuteLeaves, AdminStep, GetResult, Update, VisitDecides,
         VisitEnds
<1>2. ASSUME NEW l \in {"poll", "session", "ending"}, Goto(h, l) \/ Continue(h, l) PROVE Calm
  <2>1. l \in Pcs \ {"idle", "create"} /\ l \notin {"runner", "browser"}
    BY DEF Pcs
  <2>2. QED
    BY <1>2, <2>1, GotoCalm
<1>3. Calm
  BY <1>1, <1>2, FinishKeeps, CleanCalm
<1>4. Writes
  <2>1. CASE h \in Monitors /\ PassthroughTicket(h)
    BY <2>1 DEF PassthroughTicket, Writes, store
  <2>2. CASE GetResult(h)
    BY <2>2 DEF GetResult, Writes, store
  <2>3. CASE \/ ClientCloses(h) \/ ClientSends(h) \/ MonitorTimeout(h) \/ ExecuteGivesUp(h)
             \/ ExecuteStep(h) \/ Update(h) \/ VisitDecides(h) \/ VisitEnds(h)
    BY <2>3 DEF ClientCloses, ClientSends, MonitorTimeout, ExecuteGivesUp, ExecuteStep,
                ExecuteEnds, ExecuteLeaves, Update, VisitDecides, VisitEnds, Writes, store
  <2>4. QED
    BY <2>1, <2>2, <2>3 DEF AdminStep
<1>5. QED
  BY <1>3, <1>4

LEMMA OpenLife ==
  ASSUME TInv, NEW h \in Handlers, NEW k \in tickets,
         \/ h \in Monitors /\ OpenMonitor(h, k)
         \/ h \in Executors /\ OpenExecute(h, k)
         \/ /\ h \in Admins
            /\ \/ OpenRunning(h, k) \/ OpenStop(h, k) \/ OpenGetResult(h, k)
               \/ OpenUpdate(h, k) \/ OpenVisit(h, k)
  PROVE  Calm /\ Writes
<1>1. PICK l \in {"poll", "mark", "result", "update", "visit"} :
        Open(h, k, l) /\ (k.sec = "monitor" => h \in Monitors)
  BY DEF OpenMonitor, OpenExecute, OpenRunning, OpenStop, OpenGetResult, OpenUpdate, OpenVisit
<1>2. h \notin Tasks /\ l \in Pcs \ {"runner", "browser"}
  BY HandlersAssumption DEF Pcs
<1>3. Calm
  BY <1>1, <1>2, FinishKeeps, ArriveCalm DEF Open
<1>4. QED
  BY <1>1, <1>3 DEF Open, Writes

LEMMA JanitorLife ==
  ASSUME TInv, LInv, NEW z \in Janitors, (\E u \in Uids : JanitorVisit(z, u)) \/ JanitorRemoves(z)
  PROVE  Calm /\ Writes
<1>1. z \in Handlers \ Tasks
  BY HandlersAssumption DEF Handlers
<1>2. CASE \E u \in Uids : JanitorNoHome(z, u) \/ JanitorOrphanHome(z, u)
  <2>1. PICK u \in Uids : CleanPrisonerFiles(u) /\ (u \notin home \/ cfg[u].task = NoTask)
    BY <1>2 DEF JanitorNoHome, JanitorOrphanHome
  <2>2. ~ReadInfoOK(u)
    BY <2>1 DEF LInv, HomeInv, ReadInfoOK
  <2>3. hs' = hs
    BY <1>2 DEF JanitorNoHome, JanitorOrphanHome
  <2>4. QED
    BY <2>1, <2>2, <2>3, NobodyCalm DEF Writes
<1>3. CASE \E u \in Uids : JanitorOpens(z, u)
  <2>1. PICK u \in Uids : JanitorOpens(z, u)
    BY <1>3
  <2>2. \E l \in {"poll", "zombie"} : \E t : hs' = [hs EXCEPT ![z] = Attached(l, u, t)]
    BY <2>1 DEF JanitorOpens
  <2>3. Calm
    <3>1. ASSUME NEW l \in {"poll", "zombie"}, NEW t, hs' = [hs EXCEPT ![z] = Attached(l, u, t)]
          PROVE  Calm
      <4>1. l \in Pcs \ {"runner", "browser"}
        BY DEF Pcs
      <4>2. QED
        BY <1>1, <3>1, <4>1, ArriveCalm
    <3>2. QED
      BY <2>2, <3>1
  <2>4. QED
    BY <2>1, <2>3 DEF JanitorOpens, Writes, store
<1>4. CASE JanitorRemoves(z)
  <2>1. hs[z].uid \in Uids /\ ~ReadInfoOK(hs[z].uid)
    BY <1>1, <1>4, HandlerFacts DEF JanitorRemoves, At, Live, LInv, MarkedInv, Marked
  <2>2. Calm
    BY <1>1, <1>4, FinishKeeps DEF JanitorRemoves
  <2>3. QED
    BY <1>4, <2>1, <2>2 DEF JanitorRemoves, Writes, store
<1>5. QED
  BY <1>2, <1>3, <1>4 DEF JanitorVisit

LEMMA FinishLife ==
  ASSUME TInv, NEW h \in Handlers, Finish(h), UNCHANGED <<cfg, comp, exec>>
  PROVE  LifeKind
<1>1. CASE h \in Tasks /\ Unborn(h)
  BY <1>1, FinishKeeps DEF LifeKind, Refuses
<1>2. CASE h \notin Tasks \/ ~Unborn(h)
  BY <1>2, FinishKeeps DEF LifeKind, Writes
<1>3. QED
  BY <1>1, <1>2

LEMMA RequestLife ==
  ASSUME TInv, NEW t \in Tasks, NEW u \in Uids,
         \/ Request(t, u) \/ RequestSkipsHome(t, u) \/ RequestFails(t, u)
         \/ ProgramBuilds(t, u) \/ ProgramEnds(t, u)
  PROVE  LifeKind
<1>0. t \in Handlers
  BY HandlerFacts
<1>1. CASE Request(t, u)
  <2>1. Attached("create", u, t).pc = "create"
    BY DEF Attached, AtPc
  <2>2. KeepsStage(t, Attached("create", u, t))
    BY <2>1 DEF KeepsStage, Staged, Preparing, Compiling, Executing
  <2>3. Unborn(t) /\ hs' = [hs EXCEPT ![t] = Attached("create", u, t)]
    BY <1>1 DEF Request, Unborn, At
  <2>4. Calm
    BY <1>0, <2>1, <2>2, <2>3, OneCalm
  <2>5. UNCHANGED <<cfg, comp, exec>>
    BY <1>1 DEF Request, SelectPrisoner
  <2>6. QED
    BY <2>4, <2>5 DEF LifeKind, Writes
<1>2. CASE RequestFails(t, u)
  BY <1>0, <1>2, FinishLife DEF RequestFails, SelectFails
<1>3. CASE RequestSkipsHome(t, u) \/ ProgramBuilds(t, u) \/ ProgramEnds(t, u)
  <2>1. hs' = hs /\ UNCHANGED <<cfg, comp, exec>>
    BY <1>3 DEF RequestSkipsHome, SelectOrphanHome, ProgramBuilds, ProgramEnds
  <2>2. QED
    BY <2>1, NobodyCalm DEF LifeKind, Writes
<1>4. QED
  BY <1>1, <1>2, <1>3

LEMMA LifeKinds ==
  ASSUME TInv, JInv, LInv, MInv, [Next]_vars
  PROVE  LifeKind
<1>w. /\ Monitors \subseteq Handlers \ Tasks /\ Executors \subseteq Handlers \ Tasks
      /\ Admins \subseteq Handlers \ Tasks /\ CanCrash \subseteq Handlers
  BY HandlersAssumption DEF Handlers
<1>1. CASE (\E u \in Uids : Tick(u)) \/ UNCHANGED vars
  <2>1. hs' = hs /\ UNCHANGED <<cfg, comp, exec>>
    BY <1>1 DEF Tick, vars
  <2>2. QED
    BY <2>1, NobodyCalm DEF LifeKind, Writes
<1>2. CASE \E h \in CanCrash : Crash(h)
  BY <1>w, <1>2, FinishLife DEF Crash, store
<1>3. CASE \E h \in Handlers : PollStep(h) \/ CleanStep(h)
  BY <1>3, ReadStateLife, DecideLife, CleanStepLife DEF PollStep, LifeKind
<1>4. CASE \/ \E h \in Monitors :
                ClientCloses(h) \/ ClientSends(h) \/ MonitorTimeout(h) \/ PassthroughTicket(h)
           \/ \E h \in Executors : ExecuteGivesUp(h) \/ ExecuteStep(h)
           \/ \E h \in Admins : AdminStep(h)
  BY <1>w, <1>4, EventLife DEF LifeKind
<1>5. CASE \/ \E h \in Monitors, k \in tickets : OpenMonitor(h, k)
           \/ \E h \in Executors, k \in tickets : OpenExecute(h, k)
           \/ \E h \in Admins, k \in tickets :
                \/ OpenRunning(h, k) \/ OpenStop(h, k) \/ OpenGetResult(h, k)
                \/ OpenUpdate(h, k) \/ OpenVisit(h, k)
  BY <1>w, <1>5, OpenLife DEF LifeKind
<1>6. CASE \E z \in Janitors : (\E u \in Uids : JanitorVisit(z, u)) \/ JanitorRemoves(z)
  BY <1>6, JanitorLife DEF LifeKind
<1>7. QED
  BY <1>1, <1>2, <1>3, <1>4, <1>5, <1>6, TaskStepLife, RunStepLife, RequestLife DEF Next, Workers

-----------------------------------------------------------------------------
(* What the kinds preserve of VInv.                                        *)

EndsLast == \A t \in Tasks : Ended(t) => Ended(t)'

ConfigHolds(u) ==
  \/ cfg'[u] = NoConfig
  \/ /\ cfg'[u].task = cfg[u].task
     /\ cfg'[u].compiler = cfg[u].compiler
     /\ cfg'[u].runner = cfg[u].runner

LEMMA ProceedingEndsLast ==
  ASSUME TInv, AllProceed
  PROVE  EndsLast
<1> SUFFICES ASSUME NEW t \in Tasks, Ended(t) PROVE Ended(t)'
  BY DEF EndsLast
<1>1. Proceeds(t) /\ t \notin Monitors
  BY HandlerFacts, HandlersAssumption DEF AllProceed
<1>2. QED
  BY <1>1, HandlersAssumption
     DEF Proceeds, Onward, Leaves, Arrives, Starts, Tells, Ended, Live, At

LEMMA SameRegistrations ==
  ASSUME NEW c \in Config, NEW p, NEW d,
         \/ d = c \/ d = [c EXCEPT !.monitor = p] \/ d = [c EXCEPT !.http = p]
         \/ d = [c EXCEPT !.cleaning = p]
  PROVE  d.task = c.task /\ d.compiler = c.compiler /\ d.runner = c.runner
  BY DEF Config

LEMMA WritesHold ==
  ASSUME TInv, Writes, NEW u \in Uids
  PROVE  ConfigHolds(u)
<1>f. cfg \in [Uids -> Config] /\ cfg[u] \in Config
  BY HandlerFacts
<1>1. \/ cfg' = cfg
      \/ \E v, p : \/ cfg' = [cfg EXCEPT ![v].monitor = p]
                   \/ cfg' = [cfg EXCEPT ![v].http = p]
                   \/ cfg' = [cfg EXCEPT ![v].cleaning = p]
      \/ \E v : cfg' = [cfg EXCEPT ![v] = NoConfig]
  BY DEF Writes, UseTicket, AddPassthroughTicket, SetCompilationOutput, SetExecutionOutput,
         TakeResult, MarkCleaning, CleanPrisonerFiles
<1>2. \/ cfg'[u] = NoConfig
      \/ \E p : \/ cfg'[u] = cfg[u]
                \/ cfg'[u] = [cfg[u] EXCEPT !.monitor = p]
                \/ cfg'[u] = [cfg[u] EXCEPT !.http = p]
                \/ cfg'[u] = [cfg[u] EXCEPT !.cleaning = p]
  BY <1>f, <1>1
<1>3. CASE cfg'[u] = NoConfig
  BY <1>3 DEF ConfigHolds
<1>4. CASE cfg'[u] # NoConfig
  <2>1. PICK p : \/ cfg'[u] = cfg[u]
                 \/ cfg'[u] = [cfg[u] EXCEPT !.monitor = p]
                 \/ cfg'[u] = [cfg[u] EXCEPT !.http = p]
                 \/ cfg'[u] = [cfg[u] EXCEPT !.cleaning = p]
    BY <1>2, <1>4
  <2>2. QED
    BY <1>f, <2>1, SameRegistrations DEF ConfigHolds
<1>5. QED
  BY <1>3, <1>4

LEMMA HoldingKeeps ==
  ASSUME TInv, TInv', VInv, AllKeep, EndsLast, \A u \in Uids : ConfigHolds(u)
  PROVE  VInv'
<1>1. StageInv'
  <2> SUFFICES ASSUME NEW t \in Tasks, NEW u \in Uids, hs'[t].uid = u, cfg'[u].task = t
               PROVE  Stage(hs'[t].pc, cfg'[u], t)
    BY DEF StageInv
  <2>1. cfg[u].task = t /\ cfg'[u].compiler = cfg[u].compiler /\ cfg'[u].runner = cfg[u].runner
    BY NoConfigFacts DEF ConfigHolds
  <2>2. CASE hs'[t] = hs[t]
    BY <2>1, <2>2 DEF VInv, StageInv, Stage
  <2>3. CASE hs'[t].pc \notin Staged
    BY <2>3 DEF Stage, Staged
  <2>4. CASE hs'[t].uid = hs[t].uid /\ SameStage(hs[t].pc, hs'[t].pc)
    <3>1. Stage(hs[t].pc, cfg[u], t)
      BY <2>1, <2>4 DEF VInv, StageInv
    <3>2. QED
      BY <2>1, <2>4, <3>1 DEF Stage, SameStage, Preparing, Compiling, Executing
  <2>5. QED
    BY <2>2, <2>3, <2>4, HandlerFacts, HandlersAssumption DEF AllKeep, KeepsStage
<1>2. OrderInv'
  BY NoConfigFacts DEF VInv, OrderInv, ConfigHolds
<1>3. ReadyInv'
  <2> SUFFICES ASSUME NEW h \in Executors, At(h, "runner")' PROVE Ready(h)'
    BY DEF ReadyInv
  <2>1. h \in Handlers \ Tasks /\ hs'[h].pc = "runner" /\ hs'[h].task \in Tasks
    BY HandlersAssumption DEF At, TInv, HandlersAreAttached, Working, Pcs, Handlers
  <2>2. PICK t \in Tasks : t = hs'[h].task
    BY <2>1
  <2>3. Ended(t) /\ \A u \in Uids : hs'[h].uid = u => HasCompiler(u, t)
    <3>1. CASE hs'[h] = hs[h]
      BY <2>1, <2>2, <3>1 DEF VInv, ReadyInv, Ready, At
    <3>2. CASE KeepsStage(h, hs'[h])
      BY <2>1, <2>2, <3>2, HandlersAssumption DEF KeepsStage
    <3>3. QED
      BY <2>1, <3>1, <3>2 DEF AllKeep
  <2>4. hs'[t].pc = "done"
    BY <2>3 DEF EndsLast, Ended
  <2>5. ASSUME NEW u \in Uids, hs'[h].uid = u, cfg'[u].task = t PROVE cfg'[u].compiler # NoPid
    BY <2>3, <2>5, NoConfigFacts DEF HasCompiler, ConfigHolds
  <2>6. QED
    BY <2>2, <2>4, <2>5 DEF Ready, Ended, HasCompiler
<1>4. BrowserInv'
  BY HandlersAssumption
     DEF VInv, BrowserInv, At, AllKeep, KeepsStage, SameStage, Staged, Preparing, Compiling,
         Executing
<1>5. QED
  BY <1>1, <1>2, <1>3, <1>4 DEF VInv

LEMMA CreateKeepsLife ==
  ASSUME TInv, JInv, RInv, VInv, NEW t \in Tasks, Create(t)
  PROVE  VInv'
<1> DEFINE u == hs[t].uid
<1>1. At(t, "create") /\ u \in ctrl /\ u \in Uids /\ t \in Handlers \ Executors
  BY HandlerFacts, HandlersAssumption DEF Create, JInv, CreatingAlone, At, Live
<1>2. cfg' = [cfg EXCEPT ![u] = NewConfig(t)] /\ Goto(t, "save")
  BY <1>1 DEF Create, CreateTask
<1>3. /\ hs'[t].pc = "save" /\ hs'[t].uid = u
      /\ \A h \in Handlers \ {t} : hs'[h] = hs[h]
  BY <1>1, <1>2, HandlerFacts DEF Goto, HandlerState
<1>4. /\ cfg'[u].task = t /\ cfg'[u].compiler = NoPid /\ cfg'[u].runner = NoPid
      /\ \A v \in Uids \ {u} : cfg'[v] = cfg[v]
  BY <1>1, <1>2, HandlerFacts DEF NewConfig
<1>5. \A h \in Executors : Live(h) => hs[h].task # t
  BY <1>1 DEF RInv, FreshInv, At
<1> HIDE DEF u
<1>6. StageInv'
  <2>1. ASSUME NEW s \in Tasks, NEW v \in Uids, hs'[s].uid = v, cfg'[v].task = s
        PROVE  Stage(hs'[s].pc, cfg'[v], s)
    <3>1. CASE s = t
      BY <1>3, <1>4, <2>1, <3>1 DEF Stage, Preparing, Compiling, Executing
    <3>2. CASE s # t
      BY <1>3, <1>4, <2>1, <3>2, HandlerFacts DEF VInv, StageInv
    <3>3. QED
      BY <3>1, <3>2
  <2>2. QED
    BY <2>1 DEF StageInv
<1>7. OrderInv'
  BY <1>4 DEF VInv, OrderInv
<1>8. ReadyInv'
  <2> SUFFICES ASSUME NEW h \in Executors, At(h, "runner")' PROVE Ready(h)'
    BY DEF ReadyInv
  <2>1. h \in Handlers /\ hs'[h] = hs[h]
    BY <1>1, <1>3 DEF Handlers
  <2>2. At(h, "runner") /\ Live(h) /\ Ready(h)
    BY <2>1 DEF At, Live, VInv, ReadyInv
  <2>3. hs[h].task # t /\ hs[h].task \in Tasks
    BY <1>5, <2>1, <2>2 DEF TInv, HandlersAreAttached, At, Working, Pcs
  <2>4. hs'[hs[h].task] = hs[hs[h].task]
    BY <1>3, <2>3, HandlerFacts
  <2>5. \A v \in Uids : hs[h].uid = v /\ cfg'[v].task = hs[h].task => cfg'[v].compiler # NoPid
    BY <1>4, <2>2, <2>3 DEF Ready, HasCompiler
  <2>6. QED
    BY <2>1, <2>2, <2>4, <2>5 DEF Ready, Ended, HasCompiler
<1>9. BrowserInv'
  BY <1>3 DEF VInv, BrowserInv, At
<1>10. QED
  BY <1>6, <1>7, <1>8, <1>9 DEF VInv

(* The child of the task registers itself and starts the compiler.         *)
LEMMA CompilerFacts ==
  ASSUME TInv, JInv, RInv, VInv, NEW t \in Tasks, RegisterCompiler(t), ReadInfoOK(hs[t].uid)
  PROVE  /\ hs[t].uid \in Uids /\ t \in Handlers \ Executors
         /\ cfg[hs[t].uid].task = t
         /\ cfg[hs[t].uid].compiler = NoPid /\ cfg[hs[t].uid].runner = NoPid
         /\ SetCompiler(t, hs[t].uid) /\ cfg' = [cfg EXCEPT ![hs[t].uid].compiler = t]
         /\ hs'[t].pc = "launchCompiler" /\ hs'[t].uid = hs[t].uid
         /\ \A h \in Handlers \ {t} : hs'[h] = hs[h]
<1>1. AtWork(t) /\ Live(t) /\ t \in Handlers \ Executors /\ t \in Workers
  BY HandlerFacts, HandlersAssumption
     DEF RegisterCompiler, AtWork, Live, Working, Pcs, At, Workers
<1>2. hs[t].uid \in Uids /\ cfg[hs[t].uid].task = t
  BY <1>1, WorkerConfig DEF RInv, OwnTask
<1>3. cfg[hs[t].uid].compiler = NoPid /\ cfg[hs[t].uid].runner = NoPid
  BY <1>2 DEF RegisterCompiler, At, VInv, StageInv, Stage, Preparing
<1>4. SetCompiler(t, hs[t].uid) /\ Goto(t, "launchCompiler")
  BY DEF RegisterCompiler
<1>5. /\ hs'[t].pc = "launchCompiler" /\ hs'[t].uid = hs[t].uid
      /\ \A h \in Handlers \ {t} : hs'[h] = hs[h]
  BY <1>1, <1>4, HandlerFacts DEF Goto, HandlerState
<1>6. QED
  BY <1>1, <1>2, <1>3, <1>4, <1>5 DEF SetCompiler

LEMMA CompilerKeepsLife ==
  ASSUME TInv, TInv', JInv, RInv, VInv, EndsLast, NEW t \in Tasks, RegisterCompiler(t)
  PROVE  VInv'
<1>1. CASE ~ReadInfoOK(hs[t].uid)
  <2>1. Finish(t) /\ cfg' = cfg
    BY <1>1 DEF RegisterCompiler, store
  <2>2. AllKeep
    BY <2>1, FinishKeeps, HandlerFacts
  <2>3. QED
    BY <2>1, <2>2, HoldingKeeps DEF ConfigHolds
<1>2. CASE ReadInfoOK(hs[t].uid)
  <2> DEFINE u == hs[t].uid
  <2>1. /\ u \in Uids /\ t \in Handlers \ Executors /\ cfg[u].task = t
        /\ cfg[u].runner = NoPid
        /\ hs'[t].pc = "launchCompiler" /\ hs'[t].uid = u
        /\ \A h \in Handlers \ {t} : hs'[h] = hs[h]
    BY <1>2, CompilerFacts
  <2>2. /\ cfg'[u].compiler = t /\ cfg'[u].runner = NoPid /\ cfg'[u].task = t
        /\ \A v \in Uids \ {u} : cfg'[v] = cfg[v]
    <3>1. cfg \in [Uids -> Config] /\ cfg[u] \in Config
      BY <2>1, HandlerFacts
    <3>2. cfg' = [cfg EXCEPT ![u] = [cfg[u] EXCEPT !.compiler = t]]
      BY <1>2, CompilerFacts
    <3>3. /\ cfg'[u] = [cfg[u] EXCEPT !.compiler = t]
          /\ \A v \in Uids \ {u} : cfg'[v] = cfg[v]
      BY <2>1, <3>1, <3>2
    <3>4. QED
      BY <2>1, <3>1, <3>3 DEF Config
  <2>3. t # NoPid
    BY NoConfigFacts
  <2> HIDE DEF u
  <2>4. StageInv'
    <3>1. ASSUME NEW s \in Tasks, NEW v \in Uids, hs'[s].uid = v, cfg'[v].task = s
          PROVE  Stage(hs'[s].pc, cfg'[v], s)
      <4>1. CASE s = t
        BY <2>1, <2>2, <3>1, <4>1 DEF Stage, Preparing, Compiling, Executing
      <4>2. CASE s # t
        BY <2>1, <2>2, <3>1, <4>2, HandlerFacts DEF VInv, StageInv
      <4>3. QED
        BY <4>1, <4>2
    <3>2. QED
      BY <3>1 DEF StageInv
  <2>5. OrderInv'
    BY <2>2 DEF VInv, OrderInv
  <2>6. ReadyInv'
    <3> SUFFICES ASSUME NEW h \in Executors, At(h, "runner")' PROVE Ready(h)'
      BY DEF ReadyInv
    <3>1. h \in Handlers /\ hs'[h] = hs[h]
      BY <2>1 DEF Handlers
    <3>2. At(h, "runner") /\ Ready(h)
      BY <3>1 DEF At, VInv, ReadyInv
    <3>3. PICK s \in Tasks : s = hs[h].task
      BY <3>1, <3>2 DEF TInv, HandlersAreAttached, At, Working, Pcs
    <3>4. hs'[s].pc = "done"
      BY <3>2, <3>3 DEF Ready, EndsLast, Ended
    <3>5. \A v \in Uids : hs[h].uid = v /\ cfg'[v].task = s => cfg'[v].compiler # NoPid
      BY <2>2, <2>3, <3>2, <3>3 DEF Ready, HasCompiler
    <3>6. QED
      BY <3>1, <3>3, <3>4, <3>5 DEF Ready, Ended, HasCompiler
  <2>7. BrowserInv'
    BY <2>1 DEF VInv, BrowserInv, At
  <2>8. QED
    BY <2>4, <2>5, <2>6, <2>7 DEF VInv
<1>3. QED
  BY <1>1, <1>2

(* A process starts the program of a task that has been compiled.          *)
LEMMA RunnerFacts ==
  ASSUME TInv, JInv, RInv, VInv, NEW h \in Workers, RegisterRunner(h), ReadInfoOK(hs[h].uid)
  PROVE  /\ hs[h].uid \in Uids /\ h \in Handlers
         /\ cfg[hs[h].uid].task = hs[h].task /\ hs[h].task \in Tasks
         /\ cfg[hs[h].uid].compiler # NoPid /\ cfg[hs[h].uid].runner = NoPid
         /\ \/ h = hs[h].task /\ ~Interactive(h)
            \/ h \in Executors /\ Interactive(hs[h].task) /\ Ended(hs[h].task)
         /\ SetRunner(h, hs[h].uid) /\ cfg' = [cfg EXCEPT ![hs[h].uid].runner = h]
         /\ hs'[h].pc = "launch" /\ hs'[h].uid = hs[h].uid
         /\ \A g \in Handlers \ {h} : hs'[g] = hs[g]
<1>1. At(h, "runner") /\ AtWork(h) /\ Live(h) /\ h \in Handlers
  BY HandlerFacts DEF RegisterRunner, AtWork, Live, Working, Pcs, At, Workers, Handlers
<1>2. hs[h].uid \in Uids /\ cfg[hs[h].uid].task = hs[h].task /\ hs[h].task \in Tasks
  BY <1>1, WorkerConfig
<1>3. SetRunner(h, hs[h].uid) /\ Goto(h, "launch")
  BY DEF RegisterRunner
<1>4. /\ hs'[h].pc = "launch" /\ hs'[h].uid = hs[h].uid
      /\ \A g \in Handlers \ {h} : hs'[g] = hs[g]
  BY <1>1, <1>3, HandlerFacts DEF Goto, HandlerState
<1>5. /\ cfg[hs[h].uid].compiler # NoPid /\ cfg[hs[h].uid].runner = NoPid
      /\ \/ h = hs[h].task /\ ~Interactive(h)
         \/ h \in Executors /\ Interactive(hs[h].task) /\ Ended(hs[h].task)
  <2>1. CASE h \in Tasks
    <3>1. hs[h].task = h /\ ~Interactive(h)
      BY <1>1, <2>1 DEF RInv, OwnTask, PlaceInv
    <3>2. Stage(hs[h].pc, cfg[hs[h].uid], h)
      BY <1>2, <2>1, <3>1 DEF VInv, StageInv
    <3>3. cfg[hs[h].uid].compiler = h /\ cfg[hs[h].uid].runner = NoPid
      BY <1>1, <3>2 DEF Stage, Compiling, At
    <3>4. QED
      BY <2>1, <3>1, <3>3, NoConfigFacts
  <2>2. CASE h \in Executors
    <3>1. Ready(h) /\ Interactive(hs[h].task) /\ cfg[hs[h].uid].runner \notin Executors
      BY <1>1, <1>2, <2>2 DEF VInv, ReadyInv, RInv, PlaceInv, EarlyInv, Early, At
    <3>2. cfg[hs[h].uid].runner \in Tasks \cup Executors \cup {NoPid}
      BY <1>2, HandlerFacts DEF Config
    <3>3. cfg[hs[h].uid].runner = NoPid
      BY <1>2, <3>1, <3>2 DEF RInv, RunnerInv
    <3>4. QED
      BY <1>2, <2>2, <3>1, <3>3 DEF Ready, HasCompiler
  <2>3. QED
    BY <2>1, <2>2 DEF Workers
<1>6. QED
  BY <1>1, <1>2, <1>3, <1>4, <1>5 DEF SetRunner

LEMMA RunnerKeepsLife ==
  ASSUME TInv, TInv', JInv, RInv, VInv, EndsLast, NEW h \in Workers, RegisterRunner(h)
  PROVE  VInv'
<1>1. CASE ~ReadInfoOK(hs[h].uid)
  <2>1. Finish(h) /\ cfg' = cfg
    BY <1>1 DEF RegisterRunner, store
  <2>2. AllKeep
    BY <2>1, FinishKeeps DEF Workers, Handlers
  <2>3. QED
    BY <2>1, <2>2, HoldingKeeps DEF ConfigHolds
<1>2. CASE ReadInfoOK(hs[h].uid)
  <2> DEFINE u == hs[h].uid
  <2>1. /\ u \in Uids /\ h \in Handlers
        /\ cfg[u].task = hs[h].task /\ hs[h].task \in Tasks
        /\ cfg[u].compiler # NoPid
        /\ h = hs[h].task \/ (h \in Executors /\ Ended(hs[h].task))
        /\ hs'[h].pc = "launch" /\ hs'[h].uid = u
        /\ \A g \in Handlers \ {h} : hs'[g] = hs[g]
    BY <1>2, RunnerFacts
  <2>2. /\ cfg'[u].compiler = cfg[u].compiler /\ cfg'[u].runner = h
        /\ cfg'[u].task = cfg[u].task
        /\ \A v \in Uids \ {u} : cfg'[v] = cfg[v]
    <3>1. cfg \in [Uids -> Config] /\ cfg[u] \in Config
      BY <2>1, HandlerFacts
    <3>2. cfg' = [cfg EXCEPT ![u] = [cfg[u] EXCEPT !.runner = h]]
      BY <1>2, RunnerFacts
    <3>3. /\ cfg'[u] = [cfg[u] EXCEPT !.runner = h]
          /\ \A v \in Uids \ {u} : cfg'[v] = cfg[v]
      BY <2>1, <3>1, <3>2
    <3>4. QED
      BY <2>1, <3>1, <3>3 DEF Config
  <2> HIDE DEF u
  <2>3. StageInv'
    <3>1. ASSUME NEW s \in Tasks, NEW v \in Uids, hs'[s].uid = v, cfg'[v].task = s
          PROVE  Stage(hs'[s].pc, cfg'[v], s)
      <4>1. CASE v # u
        <5>1. s # h
          BY <2>1, <3>1, <4>1
        <5>2. QED
          BY <2>1, <2>2, <3>1, <4>1, <5>1, HandlerFacts DEF VInv, StageInv
      <4>2. CASE v = u /\ s = h
        <5>1. Stage(hs[s].pc, cfg[u], s)
          BY <2>1, <2>2, <3>1, <4>2 DEF VInv, StageInv, u
        <5>2. cfg[u].compiler = s
          BY <1>2, <2>1, <4>2, <5>1 DEF RegisterRunner, At, Stage, Compiling
        <5>3. QED
          BY <2>1, <2>2, <4>2, <5>2 DEF Stage, Preparing, Compiling, Executing
      <4>3. CASE v = u /\ s # h
        <5>1. hs'[s].pc = "done"
          BY <2>1, <2>2, <3>1, <4>3, HandlerFacts DEF Ended
        <5>2. QED
          BY <5>1 DEF Stage, Preparing, Compiling, Executing
      <4>4. QED
        BY <4>1, <4>2, <4>3
    <3>2. QED
      BY <3>1 DEF StageInv
  <2>4. OrderInv'
    BY <2>1, <2>2 DEF VInv, OrderInv
  <2>5. ReadyInv'
    <3> SUFFICES ASSUME NEW g \in Executors, At(g, "runner")' PROVE Ready(g)'
      BY DEF ReadyInv
    <3>1. g \in Handlers /\ hs'[g] = hs[g]
      BY <2>1 DEF Handlers, At
    <3>2. At(g, "runner") /\ Ready(g)
      BY <3>1 DEF At, VInv, ReadyInv
    <3>3. PICK s \in Tasks : s = hs[g].task
      BY <3>1, <3>2 DEF TInv, HandlersAreAttached, At, Working, Pcs
    <3>4. hs'[s].pc = "done"
      BY <3>2, <3>3 DEF Ready, EndsLast, Ended
    <3>5. \A v \in Uids : hs[g].uid = v /\ cfg'[v].task = s => cfg'[v].compiler # NoPid
      BY <2>2, <3>2, <3>3 DEF Ready, HasCompiler
    <3>6. QED
      BY <3>1, <3>3, <3>4, <3>5 DEF Ready, Ended, HasCompiler
  <2>6. BrowserInv'
    BY <2>1 DEF VInv, BrowserInv, At
  <2>7. QED
    BY <2>3, <2>4, <2>5, <2>6 DEF VInv
<1>3. QED
  BY <1>1, <1>2

-----------------------------------------------------------------------------
(* VInv is an invariant.                                                   *)

LEMMA VInvInit == Init => VInv
<1> SUFFICES ASSUME Init PROVE VInv
  OBVIOUS
<1>1. \A h \in Handlers : hs[h].pc = "idle"
  BY AtPcOK DEF Init, Pcs
<1>2. \A u \in Uids : cfg[u] = NoConfig
  BY DEF Init, StoreInit
<1>3. QED
  BY <1>1, <1>2, NoConfigFacts
     DEF VInv, StageInv, OrderInv, ReadyInv, BrowserInv, Stage, Preparing, Compiling, Executing,
         At, Handlers

LEMMA VInvNext ==
  ASSUME ~UidReuse, Timely, TInv, JInv, RInv, ResultsBelongToTask, LInv, MInv, VInv, [Next]_vars
  PROVE  VInv'
<1>1. TInv'
  BY AllInvNext
<1>2. EndsLast
  BY EverybodyProceeds, ProceedingEndsLast
<1>3. CASE Calm /\ Writes
  <2>1. \A u \in Uids : ConfigHolds(u)
    BY <1>3, WritesHold
  <2>2. QED
    BY <1>1, <1>2, <1>3, <2>1, HoldingKeeps DEF Calm
<1>4. CASE Refuses
  BY <1>1, <1>2, <1>4, HoldingKeeps DEF Refuses, ConfigHolds
<1>5. CASE \E t \in Tasks : Create(t) \/ RegisterCompiler(t)
  BY <1>1, <1>2, <1>5, CreateKeepsLife, CompilerKeepsLife
<1>6. CASE \E h \in Workers : RegisterRunner(h)
  BY <1>1, <1>2, <1>6, RunnerKeepsLife
<1>7. QED
  BY <1>3, <1>4, <1>5, <1>6, LifeKinds DEF LifeKind

-----------------------------------------------------------------------------
(* The lives before and after a step that changes one uid.                 *)

Lives == [t \in Tasks |-> LifeOf(t)]

LifeStep == Life!Next \/ UNCHANGED Lives

OnlyAt(u) ==
  \A v \in Uids \ {u} : cfg'[v] = cfg[v] /\ comp'[v] = comp[v] /\ exec'[v] = exec[v]

SameLife(t) == LifeOf(t)' = LifeOf(t)

LEMMA OnlyOne ==
  ASSUME NEW f, NEW t, NEW u \in Uids, f[u].task = t, \A v \in Uids : f[v].task = t => v = u
  PROVE  (CHOOSE v \in Uids : f[v].task = t) = u
  OBVIOUS

LEMMA LifeHere ==
  ASSUME OnePlace, NEW t \in Tasks, NEW u \in Uids, cfg[u].task = t
  PROVE  LifeOf(t) = LifeAt(u)
<1>1. \A v \in Uids : cfg[v].task = t => v = u
  BY NoConfigFacts DEF OnePlace
<1>2. (CHOOSE v \in Uids : cfg[v].task = t) = u
  BY <1>1, OnlyOne
<1>3. QED
  BY <1>2 DEF LifeOf

LEMMA LifeHereNext ==
  ASSUME OnePlace', NEW t \in Tasks, NEW u \in Uids, cfg'[u].task = t
  PROVE  LifeOf(t)' = LifeAt(u)'
<1>1. \A v \in Uids : cfg'[v].task = t => v = u
  BY NoConfigFacts DEF OnePlace
<1>2. (CHOOSE v \in Uids : cfg'[v].task = t) = u
  BY <1>1, OnlyOne
<1>3. QED
  BY <1>2 DEF LifeOf

LEMMA OthersLive ==
  ASSUME OnePlace, OnePlace', NEW u \in Uids, OnlyAt(u),
         NEW t \in Tasks, Unborn(t)' <=> Unborn(t), cfg[u].task # t, cfg'[u].task # t
  PROVE  SameLife(t)
<1>1. CASE \E v \in Uids : cfg[v].task = t
  <2>1. PICK v \in Uids : cfg[v].task = t
    BY <1>1
  <2>2. cfg'[v] = cfg[v] /\ comp'[v] = comp[v] /\ exec'[v] = exec[v]
    BY <2>1 DEF OnlyAt
  <2>3. LifeOf(t) = LifeAt(v) /\ LifeOf(t)' = LifeAt(v)'
    BY <2>1, <2>2, LifeHere, LifeHereNext
  <2>4. LifeAt(v)' = LifeAt(v)
    BY <2>2 DEF LifeAt, Result
  <2>5. QED
    BY <2>3, <2>4 DEF SameLife
<1>2. CASE ~\E v \in Uids : cfg[v].task = t
  <2>1. ~\E v \in Uids : cfg'[v].task = t
    BY <1>2 DEF OnlyAt
  <2>2. LifeOf(t) = LifeWithout(t) /\ LifeOf(t)' = LifeWithout(t)'
    BY <1>2, <2>1 DEF LifeOf
  <2>3. LifeWithout(t)' = LifeWithout(t)
    BY DEF LifeWithout
  <2>4. QED
    BY <2>2, <2>3 DEF SameLife
<1>3. QED
  BY <1>1, <1>2

(* A step that leaves the task where it is.                                *)
LEMMA OneLives ==
  ASSUME OnePlace, OnePlace', BirthsKeep, NEW u \in Uids, OnlyAt(u), NEW t \in Tasks,
         cfg[u].task = t, cfg'[u].task = t
  PROVE  /\ LifeOf(t) = LifeAt(u) /\ LifeOf(t)' = LifeAt(u)'
         /\ \A s \in Tasks \ {t} : SameLife(s)
<1>1. LifeOf(t) = LifeAt(u) /\ LifeOf(t)' = LifeAt(u)'
  BY LifeHere, LifeHereNext
<1>2. ASSUME NEW s \in Tasks \ {t} PROVE SameLife(s)
  BY OthersLive DEF BirthsKeep
<1>3. QED
  BY <1>1, <1>2

LEMMA LifeChanges ==
  ASSUME NEW t \in Tasks, NEW l, LifeOf(t)' = l, \A s \in Tasks \ {t} : SameLife(s)
  PROVE  Life!Changes(t, l)
<1>1. \A s \in Tasks : LifeOf(s)' = IF s = t THEN l ELSE LifeOf(s)
  BY DEF SameLife
<1>2. [s \in Tasks |-> LifeOf(s)'] = [[s \in Tasks |-> LifeOf(s)] EXCEPT ![t] = l]
  BY <1>1
<1>3. QED
  BY <1>2 DEF Life!Changes

LEMMA NothingChanges ==
  ASSUME \A t \in Tasks : SameLife(t)
  PROVE  LifeStep
<1>1. [t \in Tasks |-> LifeOf(t)'] = [t \in Tasks |-> LifeOf(t)]
  BY DEF SameLife
<1>2. QED
  BY <1>1 DEF LifeStep, Lives

(* A step at a uid that holds no task.                                     *)
LEMMA EmptyPlace ==
  ASSUME OnePlace, OnePlace', BirthsKeep, NEW u \in Uids, OnlyAt(u),
         cfg[u].task = NoTask, cfg'[u].task = NoTask
  PROVE  LifeStep
<1>1. \A t \in Tasks : SameLife(t)
  BY OthersLive, NoConfigFacts DEF BirthsKeep
<1>2. QED
  BY <1>1, NothingChanges

LEMMA SamePlace ==
  ASSUME UNCHANGED <<cfg, comp, exec>>, NEW t \in Tasks, Unborn(t)' <=> Unborn(t)
  PROVE  SameLife(t)
<1>1. \A u \in Uids : LifeAt(u)' = LifeAt(u)
  BY DEF LifeAt, Result
<1>2. LifeWithout(t)' = LifeWithout(t)
  BY DEF LifeWithout
<1>3. CASE \E u \in Uids : cfg[u].task = t
  <2>1. (CHOOSE u \in Uids : cfg'[u].task = t) = (CHOOSE u \in Uids : cfg[u].task = t)
    OBVIOUS
  <2>2. PICK v \in Uids : v = CHOOSE u \in Uids : cfg[u].task = t
    BY <1>3
  <2>3. LifeOf(t) = LifeAt(v)
    BY <1>3, <2>2 DEF LifeOf
  <2>4. LifeOf(t)' = LifeAt(v)'
    BY <1>3, <2>1, <2>2 DEF LifeOf
  <2>5. QED
    BY <1>1, <2>3, <2>4 DEF SameLife
<1>4. CASE ~\E u \in Uids : cfg[u].task = t
  BY <1>2, <1>4 DEF SameLife, LifeOf
<1>5. QED
  BY <1>3, <1>4

LEMMA SamePlaces ==
  ASSUME Calm, UNCHANGED <<cfg, comp, exec>>
  PROVE  LifeStep
<1>1. \A t \in Tasks : SameLife(t)
  BY SamePlace DEF Calm, BirthsKeep
<1>2. QED
  BY <1>1, NothingChanges

-----------------------------------------------------------------------------
(* Each kind of step is a step of TaskLife, or none.                       *)

(* An action of TaskLife is a step of a life.                              *)
LEMMA AnAction ==
  ASSUME NEW t \in Tasks,
         \/ Life!Request(t) \/ Life!Compile(t) \/ Life!SaveCompilation(t)
         \/ Life!SaveExecution(t) \/ Life!Publish(t) \/ Life!Fetch(t) \/ Life!Condemn(t)
         \/ Life!Remove(t)
         \/ \E p \in Tasks \cup Executors : Life!Run(t, p)
         \/ \E m \in Monitors : Life!Watch(t, m)
  PROVE  LifeStep
  BY DEF LifeStep, Life!Next

LEMMA LivesAt ==
  ASSUME NEW t \in Tasks
  PROVE  Lives[t] = LifeOf(t) /\ [s \in Tasks |-> LifeOf(s)][t] = LifeOf(t)
  BY DEF Lives

LEMMA WatchLives ==
  ASSUME TInv, RInv, RInv', BirthsKeep, NEW u \in Uids, NEW m \in Monitors,
         ReadInfoOK(u), cfg[u].monitor = NoPid,
         cfg' = [cfg EXCEPT ![u].monitor = m], UNCHANGED <<comp, exec>>
  PROVE  LifeStep
<1>1. PICK t \in Tasks : cfg[u].task = t
  BY HandlerFacts DEF ReadInfoOK, Config
<1>2. cfg \in [Uids -> Config] /\ cfg[u] \in Config
  BY HandlerFacts
<1>3. /\ cfg'[u] = [cfg[u] EXCEPT !.monitor = m]
      /\ \A v \in Uids \ {u} : cfg'[v] = cfg[v]
  BY <1>2
<1>4. /\ cfg'[u].task = t /\ cfg'[u].cleaning = cfg[u].cleaning
      /\ cfg'[u].compiler = cfg[u].compiler /\ cfg'[u].runner = cfg[u].runner
      /\ cfg'[u].monitor = m /\ cfg'[u].http = cfg[u].http
  BY <1>1, <1>2, <1>3 DEF Config
<1>5. OnlyAt(u)
  BY <1>3 DEF OnlyAt
<1>6. /\ LifeOf(t) = LifeAt(u) /\ LifeOf(t)' = LifeAt(u)'
      /\ \A s \in Tasks \ {t} : SameLife(s)
  BY <1>1, <1>4, <1>5, OneLives DEF RInv
<1>7. LifeAt(u)' = [LifeOf(t) EXCEPT !.monitor = m]
  BY <1>4, <1>6 DEF LifeAt, Result
<1>8. Life!Changes(t, [LifeOf(t) EXCEPT !.monitor = m])
  BY <1>6, <1>7, LifeChanges
<1>9. LifeOf(t).phase = "open" /\ LifeOf(t).monitor = NoPid
  BY <1>6 DEF LifeAt, ReadInfoOK
<1>10. Life!Watch(t, m)
  BY <1>8, <1>9, LivesAt DEF Life!Watch, Life!In
<1>11. QED
  BY <1>10, AnAction

LEMMA PublishLives ==
  ASSUME TInv, RInv, RInv', MInv, VInv, BirthsKeep, NEW h \in Monitors,
         At(h, "browser"), ReadInfoOK(hs[h].uid), AddPassthroughTicket(hs[h].uid)
  PROVE  LifeStep
<1>1. h \in Handlers /\ Live(h) /\ hs[h].seen = "running"
  BY DEF VInv, BrowserInv, At, Live, Handlers
<1>2. PICK u \in Uids : u = hs[h].uid
  BY <1>1, HandlerFacts
<1>3. PICK t \in Tasks : cfg[u].task = t
  BY <1>2, HandlerFacts DEF ReadInfoOK, Config
<1>4. cfg[u].runner # NoPid
  BY <1>1, <1>2, NoConfigFacts DEF MInv, AnnouncedInv, Announced, BorneOut, ReadInfoOK
<1>5. cfg \in [Uids -> Config] /\ cfg[u] \in Config
  BY HandlerFacts
<1>6. cfg' = [cfg EXCEPT ![u] = [cfg[u] EXCEPT !.http = TRUE]] /\ UNCHANGED <<comp, exec>>
  BY <1>2 DEF AddPassthroughTicket
<1>7. /\ cfg'[u] = [cfg[u] EXCEPT !.http = TRUE]
      /\ \A v \in Uids \ {u} : cfg'[v] = cfg[v]
  BY <1>5, <1>6
<1>8. /\ cfg'[u].task = t /\ cfg'[u].cleaning = cfg[u].cleaning
      /\ cfg'[u].compiler = cfg[u].compiler /\ cfg'[u].runner = cfg[u].runner
      /\ cfg'[u].monitor = cfg[u].monitor /\ cfg'[u].http = TRUE
  BY <1>3, <1>5, <1>7 DEF Config
<1>9. OnlyAt(u)
  BY <1>6, <1>7 DEF OnlyAt
<1>10. /\ LifeOf(t) = LifeAt(u) /\ LifeOf(t)' = LifeAt(u)'
       /\ \A s \in Tasks \ {t} : SameLife(s)
  BY <1>3, <1>8, <1>9, OneLives DEF RInv
<1>11. LifeAt(u)' = [LifeOf(t) EXCEPT !.web = TRUE]
  <2>1. /\ cfg'[u].cleaning = cfg[u].cleaning /\ cfg'[u].compiler = cfg[u].compiler
        /\ cfg'[u].runner = cfg[u].runner /\ cfg'[u].monitor = cfg[u].monitor
        /\ Result(u)' = Result(u)
    BY <1>6, <1>8 DEF Result
  <2>2. LifeAt(u)' = [LifeOf(t) EXCEPT !.web = cfg'[u].http]
    BY <1>10, <2>1 DEF LifeAt
  <2>3. QED
    BY <1>8, <2>2
<1>12. Life!Changes(t, [LifeOf(t) EXCEPT !.web = TRUE])
  BY <1>10, <1>11, LifeChanges
<1>13. LifeOf(t).phase = "open" /\ LifeOf(t).runner # NoPid
  BY <1>2, <1>4, <1>10 DEF LifeAt, ReadInfoOK
<1>14. Life!Publish(t)
  BY <1>12, <1>13, LivesAt DEF Life!Publish, Life!Running, Life!In
<1>15. QED
  BY <1>14, AnAction

LEMMA CondemnLives ==
  ASSUME TInv, RInv, RInv', BirthsKeep, NEW u \in Uids, NEW p, MarkCleaning(u, p)
  PROVE  LifeStep
<1>1. cfg \in [Uids -> Config] /\ cfg[u] \in Config
  BY HandlerFacts
<1>2. CASE cfg[u].task = NoTask
  <2>1. cfg' = cfg /\ UNCHANGED <<comp, exec>>
    BY <1>2 DEF MarkCleaning
  <2>2. QED
    BY <1>2, <2>1, EmptyPlace DEF OnlyAt, RInv
<1>3. CASE cfg[u].task # NoTask
  <2>1. PICK t \in Tasks : cfg[u].task = t
    BY <1>1, <1>3 DEF Config
  <2>2. /\ cfg' = [cfg EXCEPT ![u] = [cfg[u] EXCEPT !.cleaning = TRUE]]
        /\ UNCHANGED <<comp, exec>>
    BY <1>3 DEF MarkCleaning
  <2>3. /\ cfg'[u] = [cfg[u] EXCEPT !.cleaning = TRUE]
        /\ \A v \in Uids \ {u} : cfg'[v] = cfg[v]
    BY <1>1, <2>2
  <2>4. /\ cfg'[u].task = t /\ cfg'[u].cleaning = TRUE
        /\ cfg'[u].compiler = cfg[u].compiler /\ cfg'[u].runner = cfg[u].runner
        /\ cfg'[u].monitor = cfg[u].monitor /\ cfg'[u].http = cfg[u].http
    BY <1>1, <2>1, <2>3 DEF Config
  <2>5. OnlyAt(u)
    BY <2>2, <2>3 DEF OnlyAt
  <2>6. /\ LifeOf(t) = LifeAt(u) /\ LifeOf(t)' = LifeAt(u)'
        /\ \A s \in Tasks \ {t} : SameLife(s)
    BY <2>1, <2>4, <2>5, OneLives DEF RInv
  <2>7. LifeAt(u)' = [LifeOf(t) EXCEPT !.phase = "condemned"]
    BY <2>2, <2>4, <2>6 DEF LifeAt, Result
  <2>8. CASE cfg[u].cleaning
    <3>1. LifeAt(u)' = LifeAt(u)
      BY <2>2, <2>4, <2>8 DEF LifeAt, Result
    <3>2. \A s \in Tasks : SameLife(s)
      BY <2>6, <3>1 DEF SameLife
    <3>3. QED
      BY <3>2, NothingChanges
  <2>9. CASE ~cfg[u].cleaning
    <3>1. Life!Changes(t, [LifeOf(t) EXCEPT !.phase = "condemned"])
      BY <2>6, <2>7, LifeChanges
    <3>2. LifeOf(t).phase = "open"
      BY <2>6, <2>9 DEF LifeAt
    <3>3. Life!Condemn(t)
      BY <3>1, <3>2, LivesAt DEF Life!Condemn, Life!In
    <3>4. QED
      BY <3>3, AnAction
  <2>10. QED
    BY <2>8, <2>9
<1>4. QED
  BY <1>2, <1>3

LEMMA RemoveLives ==
  ASSUME TInv, RInv, RInv', BirthsKeep, NEW u \in Uids, ~ReadInfoOK(u), CleanPrisonerFiles(u)
  PROVE  LifeStep
<1>1. cfg \in [Uids -> Config] /\ cfg[u] \in Config
  BY HandlerFacts
<1>2. /\ cfg'[u] = NoConfig /\ cfg'[u].task = NoTask
      /\ \A v \in Uids \ {u} : cfg'[v] = cfg[v]
  BY <1>1, NoConfigFacts DEF CleanPrisonerFiles
<1>3. OnlyAt(u)
  <2>1. /\ comp \in [Uids -> Tasks \cup {NoTask}] /\ exec \in [Uids -> Tasks \cup {NoTask}]
        /\ comp' = [comp EXCEPT ![u] = NoTask] /\ exec' = [exec EXCEPT ![u] = NoTask]
    BY DEF TInv, TypeOK, StoreTypeOK, CleanPrisonerFiles
  <2>2. QED
    BY <1>2, <2>1 DEF OnlyAt
<1>4. CASE cfg[u].task = NoTask
  BY <1>2, <1>3, <1>4, EmptyPlace DEF RInv
<1>5. CASE cfg[u].task # NoTask
  <2>1. PICK t \in Tasks : cfg[u].task = t
    BY <1>1, <1>5 DEF Config
  <2>2. \A v \in Uids : cfg'[v].task # t
    BY <1>2, <2>1, NoConfigFacts DEF RInv, OnePlace
  <2>3. ~Unborn(t) /\ ~Unborn(t)'
    BY <2>1 DEF RInv, FreshInv, Unborn, BirthsKeep
  <2>4. LifeOf(t) = LifeAt(u)
    BY <2>1, LifeHere DEF RInv
  <2>5. LifeOf(t)' = Life!Life("gone")
    BY <2>2, <2>3 DEF LifeOf, LifeWithout, Life!Life
  <2>6. \A s \in Tasks \ {t} : SameLife(s)
    BY <1>2, <1>3, <2>1, OthersLive, NoConfigFacts DEF RInv, BirthsKeep
  <2>7. Life!Changes(t, Life!Life("gone"))
    BY <2>5, <2>6, LifeChanges
  <2>8. LifeOf(t).phase = "condemned"
    BY <2>1, <2>4, NoConfigFacts DEF LifeAt, ReadInfoOK
  <2>9. Life!Remove(t)
    BY <2>7, <2>8, LivesAt DEF Life!Remove, Life!In
  <2>10. QED
    BY <2>9, AnAction
<1>6. QED
  BY <1>4, <1>5

(* The child of a task that saves an output finds its own task.            *)
LEMMA SaverFacts ==
  ASSUME TInv, JInv, RInv, VInv, NEW t \in Tasks, ReadInfoOK(hs[t].uid), AtWork(t)
  PROVE  hs[t].uid \in Uids /\ cfg[hs[t].uid].task = t /\ Stage(hs[t].pc, cfg[hs[t].uid], t)
<1>1. t \in Workers /\ Live(t)
  BY DEF Workers, AtWork, Working, Live
<1>2. hs[t].uid \in Uids /\ cfg[hs[t].uid].task = t
  BY <1>1, WorkerConfig DEF RInv, OwnTask
<1>3. QED
  BY <1>2 DEF VInv, StageInv

LEMMA ResultLives ==
  ASSUME RInv, RInv', BirthsKeep, NEW u \in Uids, NEW t \in Tasks, cfg[u].task = t,
         cfg' = cfg, \A v \in Uids \ {u} : comp'[v] = comp[v] /\ exec'[v] = exec[v],
         NEW r, Result(u)' = r
  PROVE  LifeOf(t) = LifeAt(u) /\ Life!Changes(t, [LifeOf(t) EXCEPT !.result = r])
<1>1. OnlyAt(u)
  BY DEF OnlyAt
<1>2. /\ LifeOf(t) = LifeAt(u) /\ LifeOf(t)' = LifeAt(u)'
      /\ \A s \in Tasks \ {t} : SameLife(s)
  BY <1>1, OneLives DEF RInv
<1>3. LifeAt(u)' = [LifeOf(t) EXCEPT !.result = r]
  BY <1>2 DEF LifeAt
<1>4. QED
  BY <1>2, <1>3, LifeChanges

LEMMA SaveCompilationLives ==
  ASSUME TInv, JInv, RInv, RInv', ResultsBelongToTask, VInv, BirthsKeep, NEW t \in Tasks,
         At(t, "saveCompilation"), ReadInfoOK(hs[t].uid), comp[hs[t].uid] = NoTask,
         SetCompilationOutput(t, hs[t].uid)
  PROVE  LifeStep
<1>1. AtWork(t)
  BY DEF AtWork, At, Working, Pcs
<1>2. PICK u \in Uids : u = hs[t].uid /\ cfg[u].task = t /\ Stage(hs[t].pc, cfg[u], t)
  BY <1>1, SaverFacts
<1>3. cfg[u].compiler = t /\ cfg[u].runner = NoPid /\ t # NoPid /\ t # NoTask
  BY <1>2, NoConfigFacts DEF At, Stage, Compiling
<1>4. comp[u] = NoTask /\ exec[u] = NoTask
  BY <1>2 DEF ResultsBelongToTask
<1>5. comp \in [Uids -> Tasks \cup {NoTask}]
  BY DEF TInv, TypeOK, StoreTypeOK
<1>6. cfg' = cfg /\ comp' = [comp EXCEPT ![u] = t] /\ exec' = exec
  BY <1>2 DEF SetCompilationOutput
<1>7. comp'[u] = t /\ \A v \in Uids \ {u} : comp'[v] = comp[v] /\ exec'[v] = exec[v]
  BY <1>5, <1>6
<1>8. Result(u) = "none" /\ Result(u)' = "compilation"
  BY <1>3, <1>4, <1>6, <1>7 DEF Result
<1>9. /\ LifeOf(t) = LifeAt(u)
      /\ Life!Changes(t, [LifeOf(t) EXCEPT !.result = "compilation"])
  BY <1>2, <1>6, <1>7, <1>8, ResultLives
<1>10. /\ LifeOf(t).phase = "open" /\ LifeOf(t).compiler # NoPid /\ LifeOf(t).runner = NoPid
       /\ LifeOf(t).result = "none"
  BY <1>2, <1>3, <1>8, <1>9 DEF LifeAt, ReadInfoOK
<1>11. Life!SaveCompilation(t)
  BY <1>9, <1>10, LivesAt DEF Life!SaveCompilation, Life!Compiling, Life!In
<1>12. QED
  BY <1>11, AnAction

LEMMA SaveExecutionLives ==
  ASSUME TInv, JInv, RInv, RInv', VInv, BirthsKeep, NEW t \in Tasks,
         At(t, "saveExecution"), ReadInfoOK(hs[t].uid),
         comp[hs[t].uid] # NoTask, exec[hs[t].uid] = NoTask,
         SetExecutionOutput(t, hs[t].uid)
  PROVE  LifeStep
<1>1. AtWork(t)
  BY DEF AtWork, At, Working, Pcs
<1>2. PICK u \in Uids : u = hs[t].uid /\ cfg[u].task = t /\ Stage(hs[t].pc, cfg[u], t)
  BY <1>1, SaverFacts
<1>3. cfg[u].runner = t /\ t # NoPid /\ t # NoTask
  BY <1>2, NoConfigFacts DEF At, Stage, Executing
<1>4. t \in BatchTasks
  BY <1>2, <1>3 DEF RInv, RunnerInv, Interactive
<1>5. exec \in [Uids -> Tasks \cup {NoTask}]
  BY DEF TInv, TypeOK, StoreTypeOK
<1>6. cfg' = cfg /\ exec' = [exec EXCEPT ![u] = t] /\ comp' = comp
  BY <1>2 DEF SetExecutionOutput
<1>7. exec'[u] = t /\ \A v \in Uids \ {u} : comp'[v] = comp[v] /\ exec'[v] = exec[v]
  BY <1>5, <1>6
<1>8. Result(u) = "compilation" /\ Result(u)' = "execution"
  BY <1>2, <1>3, <1>6, <1>7 DEF Result
<1>9. /\ LifeOf(t) = LifeAt(u)
      /\ Life!Changes(t, [LifeOf(t) EXCEPT !.result = "execution"])
  BY <1>2, <1>6, <1>7, <1>8, ResultLives
<1>10. LifeOf(t).phase = "open" /\ LifeOf(t).runner # NoPid /\ LifeOf(t).result = "compilation"
  BY <1>2, <1>3, <1>8, <1>9 DEF LifeAt, ReadInfoOK
<1>11. Life!SaveExecution(t)
  BY <1>4, <1>9, <1>10, LivesAt DEF Life!SaveExecution, Life!Running, Life!In
<1>12. QED
  BY <1>11, AnAction

LEMMA FetchLives ==
  ASSUME TInv, JInv, RInv, RInv', BirthsKeep, NEW h \in Handlers, At(h, "result"),
         ~Interactive(hs[h].task), TakeResult(hs[h].uid)
  PROVE  LifeStep
<1>1. /\ Live(h) /\ hs[h].uid \in Uids /\ hs[h].task \in Tasks
      /\ cfg[hs[h].uid].task \in {NoTask, hs[h].task}
  <2>1. hs[h].pc \in Working \ {"zombie"} /\ Live(h)
    BY DEF At, Working, Pcs, Live
  <2>2. hs[h].uid \in Uids /\ hs[h].task \in Tasks
    BY <2>1 DEF TInv, HandlersAreAttached
  <2>3. QED
    BY <2>1, <2>2, NoConfigFacts DEF JInv, HandlersMeetTheirTask
<1>2. PICK u \in Uids, t \in Tasks : u = hs[h].uid /\ t = hs[h].task
  BY <1>1
<1>3. comp \in [Uids -> Tasks \cup {NoTask}] /\ exec \in [Uids -> Tasks \cup {NoTask}]
  BY DEF TInv, TypeOK, StoreTypeOK
<1>4. /\ cfg' = cfg /\ comp' = [comp EXCEPT ![u] = NoTask]
      /\ exec' = [exec EXCEPT ![u] = NoTask]
  BY <1>2 DEF TakeResult
<1>5. comp'[u] = NoTask /\ \A v \in Uids \ {u} : comp'[v] = comp[v] /\ exec'[v] = exec[v]
  BY <1>3, <1>4
<1>6. CASE cfg[u].task = NoTask
  BY <1>4, <1>5, <1>6, EmptyPlace DEF RInv, OnlyAt
<1>7. CASE cfg[u].task = t
  <2>1. Result(u)' = "none"
    BY <1>5 DEF Result
  <2>2. /\ LifeOf(t) = LifeAt(u)
        /\ Life!Changes(t, [LifeOf(t) EXCEPT !.result = "none"])
    BY <1>4, <1>5, <1>7, <2>1, ResultLives
  <2>3. LifeOf(t).phase \in {"open", "condemned"} /\ t \in BatchTasks
    BY <1>2, <2>2 DEF LifeAt, Interactive
  <2>4. Life!Fetch(t)
    BY <2>2, <2>3, LivesAt DEF Life!Fetch
  <2>5. QED
    BY <2>4, AnAction
<1>8. QED
  BY <1>1, <1>2, <1>6, <1>7

LEMMA RefuseLives ==
  ASSUME TInv, RInv, Refuses
  PROVE  LifeStep
<1>1. PICK t \in Tasks : /\ Unborn(t) /\ hs'[t].pc = "done"
                         /\ \A g \in Handlers \ {t} : hs'[g] = hs[g]
  BY DEF Refuses
<1>2. UNCHANGED <<cfg, comp, exec>> /\ \A u \in Uids : cfg[u].task # t
  <2>1. UNCHANGED <<cfg, comp, exec>>
    BY DEF Refuses
  <2>2. \A u \in Uids : cfg[u].task # t
    BY <1>1 DEF RInv, FreshInv, Unborn
  <2>3. QED
    BY <2>1, <2>2
<1>3. LifeOf(t) = Life!Life("new") /\ LifeOf(t)' = Life!Life("gone")
  <2>1. ~Unborn(t)'
    BY <1>1 DEF Unborn
  <2>2. QED
    BY <1>1, <1>2, <2>1 DEF LifeOf, LifeWithout, Life!Life
<1>4. ASSUME NEW s \in Tasks \ {t} PROVE SameLife(s)
  <2>1. hs'[s] = hs[s]
    BY <1>1, HandlerFacts
  <2>2. Unborn(s)' <=> Unborn(s)
    BY <2>1 DEF Unborn
  <2>3. QED
    BY <1>2, <2>2, SamePlace
<1>5. Life!Changes(t, Life!Life("gone"))
  BY <1>3, <1>4, LifeChanges
<1>6. LifeOf(t).phase = "new"
  BY <1>3 DEF Life!Life
<1>7. Life!Request(t)
  BY <1>5, <1>6, LivesAt DEF Life!Request, Life!In
<1>8. QED
  BY <1>7, AnAction

LEMMA CreateLives ==
  ASSUME TInv, JInv, RInv, RInv', ResultsBelongToTask, NEW t \in Tasks, Create(t)
  PROVE  LifeStep
<1>1. At(t, "create") /\ hs[t].uid \in Uids /\ hs[t].uid \in ctrl /\ cfg[hs[t].uid] = NoConfig
  BY HandlerFacts DEF Create, JInv, CreatingAlone, At, Live
<1>2. PICK u \in Uids : u = hs[t].uid
  BY <1>1
<1>3. cfg' = [cfg EXCEPT ![u] = NewConfig(t)] /\ Goto(t, "save") /\ UNCHANGED <<comp, exec>>
  BY <1>1, <1>2 DEF Create, CreateTask
<1>4. cfg'[u] = NewConfig(t) /\ \A v \in Uids \ {u} : cfg'[v] = cfg[v]
  BY <1>3, HandlerFacts
<1>5. hs'[t].pc = "save" /\ \A h \in Handlers \ {t} : hs'[h] = hs[h]
  BY <1>3, HandlerFacts DEF Goto, HandlerState
<1>6. cfg[u].task = NoTask /\ cfg'[u].task = t /\ OnlyAt(u)
  BY <1>1, <1>2, <1>3, <1>4, NoConfigFacts DEF OnlyAt, NewConfig
<1>7. comp[u] = NoTask
  BY <1>6 DEF ResultsBelongToTask
<1>8. \A v \in Uids : cfg[v].task # t
  BY <1>1 DEF RInv, FreshInv, At
<1>9. LifeOf(t) = Life!Life("new")
  BY <1>1, <1>8 DEF LifeOf, LifeWithout, Life!Life, Unborn, At
<1>10. LifeOf(t)' = Life!Life("open")
  <2>1. LifeOf(t)' = LifeAt(u)'
    BY <1>6, LifeHereNext DEF RInv
  <2>2. Result(u)' = "none"
    BY <1>3, <1>7 DEF Result
  <2>3. LifeAt(u)' = Life!Life("open")
    BY <1>4, <2>2 DEF LifeAt, Life!Life, NewConfig
  <2>4. QED
    BY <2>1, <2>3
<1>11. ASSUME NEW s \in Tasks \ {t} PROVE SameLife(s)
  <2>1. hs'[s] = hs[s]
    BY <1>5, HandlerFacts
  <2>2. Unborn(s)' <=> Unborn(s)
    BY <2>1 DEF Unborn
  <2>3. QED
    BY <1>6, <2>2, OthersLive, NoConfigFacts DEF RInv
<1>12. Life!Changes(t, Life!Life("open"))
  BY <1>10, <1>11, LifeChanges
<1>13. LifeOf(t).phase = "new"
  BY <1>9 DEF Life!Life
<1>14. Life!Request(t)
  BY <1>12, <1>13, LivesAt DEF Life!Request, Life!In
<1>15. QED
  BY <1>14, AnAction

LEMMA CompilerLives ==
  ASSUME TInv, JInv, RInv, RInv', VInv, NEW t \in Tasks, RegisterCompiler(t)
  PROVE  LifeStep
<1>0. t \in Handlers /\ ~Unborn(t)
  BY HandlerFacts DEF RegisterCompiler, Unborn, At
<1>1. CASE ~ReadInfoOK(hs[t].uid)
  <2>1. Finish(t) /\ UNCHANGED <<cfg, comp, exec>>
    BY <1>1 DEF RegisterCompiler, store
  <2>2. QED
    BY <1>0, <2>1, FinishKeeps, SamePlaces
<1>2. CASE ReadInfoOK(hs[t].uid)
  <2>1. PICK u \in Uids : u = hs[t].uid
    BY <1>2, CompilerFacts
  <2>2. /\ cfg[u].task = t /\ ~cfg[u].cleaning
        /\ cfg[u].compiler = NoPid /\ cfg[u].runner = NoPid
        /\ hs'[t].pc = "launchCompiler" /\ \A h \in Handlers \ {t} : hs'[h] = hs[h]
    BY <1>2, <2>1, CompilerFacts DEF ReadInfoOK
  <2>3. /\ cfg' = [cfg EXCEPT ![u] = [cfg[u] EXCEPT !.compiler = t]]
        /\ UNCHANGED <<comp, exec>>
    BY <1>2, <2>1, CompilerFacts DEF SetCompiler
  <2>4. /\ cfg'[u] = [cfg[u] EXCEPT !.compiler = t]
        /\ \A v \in Uids \ {u} : cfg'[v] = cfg[v]
    BY <2>3, HandlerFacts
  <2>5. /\ cfg'[u].task = t /\ cfg'[u].cleaning = cfg[u].cleaning
        /\ cfg'[u].compiler = t /\ cfg'[u].runner = cfg[u].runner
        /\ cfg'[u].monitor = cfg[u].monitor /\ cfg'[u].http = cfg[u].http
    BY <2>2, <2>4, HandlerFacts DEF Config
  <2>6. OnlyAt(u) /\ BirthsKeep
    BY <1>0, <2>2, <2>3, <2>4, HandlerFacts DEF OnlyAt, BirthsKeep, Unborn
  <2>7. /\ LifeOf(t) = LifeAt(u) /\ LifeOf(t)' = LifeAt(u)'
        /\ \A s \in Tasks \ {t} : SameLife(s)
    BY <2>2, <2>5, <2>6, OneLives DEF RInv
  <2>8. LifeAt(u)' = [LifeOf(t) EXCEPT !.compiler = t]
    BY <2>3, <2>5, <2>7 DEF LifeAt, Result
  <2>9. Life!Changes(t, [LifeOf(t) EXCEPT !.compiler = t])
    BY <2>7, <2>8, LifeChanges
  <2>10. LifeOf(t).phase = "open" /\ LifeOf(t).compiler = NoPid /\ LifeOf(t).runner = NoPid
    BY <2>2, <2>7 DEF LifeAt
  <2>11. Life!Compile(t)
    BY <2>9, <2>10, LivesAt DEF Life!Compile, Life!In
  <2>12. QED
    BY <2>11, AnAction
<1>3. QED
  BY <1>1, <1>2

LEMMA RunnerLives ==
  ASSUME TInv, JInv, RInv, RInv', VInv, NEW h \in Workers, RegisterRunner(h)
  PROVE  LifeStep
<1>0. h \in Handlers /\ ~Unborn(h)
  BY DEF RegisterRunner, Unborn, At, Workers, Handlers
<1>1. CASE ~ReadInfoOK(hs[h].uid)
  <2>1. Finish(h) /\ UNCHANGED <<cfg, comp, exec>>
    BY <1>1 DEF RegisterRunner, store
  <2>2. QED
    BY <1>0, <2>1, FinishKeeps, SamePlaces
<1>2. CASE ReadInfoOK(hs[h].uid)
  <2>1. PICK u \in Uids, t \in Tasks : u = hs[h].uid /\ t = hs[h].task
    BY <1>2, RunnerFacts
  <2>2. /\ cfg[u].task = t /\ ~cfg[u].cleaning
        /\ cfg[u].compiler # NoPid /\ cfg[u].runner = NoPid
        /\ hs'[h].pc = "launch" /\ \A g \in Handlers \ {h} : hs'[g] = hs[g]
    BY <1>2, <2>1, RunnerFacts DEF ReadInfoOK
  <2>3. h \in IF t \in BatchTasks THEN {t} ELSE Executors
    <3>1. (h = t /\ ~Interactive(t)) \/ (h \in Executors /\ Interactive(t))
      BY <1>2, <2>1, RunnerFacts
    <3>2. QED
      BY <3>1 DEF Interactive
  <2>4. /\ cfg' = [cfg EXCEPT ![u] = [cfg[u] EXCEPT !.runner = h]]
        /\ UNCHANGED <<comp, exec>>
    BY <1>2, <2>1, RunnerFacts DEF SetRunner
  <2>5. /\ cfg'[u] = [cfg[u] EXCEPT !.runner = h]
        /\ \A v \in Uids \ {u} : cfg'[v] = cfg[v]
    BY <2>4, HandlerFacts
  <2>6. /\ cfg'[u].task = t /\ cfg'[u].cleaning = cfg[u].cleaning
        /\ cfg'[u].compiler = cfg[u].compiler /\ cfg'[u].runner = h
        /\ cfg'[u].monitor = cfg[u].monitor /\ cfg'[u].http = cfg[u].http
    BY <2>2, <2>5, HandlerFacts DEF Config
  <2>7. OnlyAt(u) /\ BirthsKeep
    BY <1>0, <2>2, <2>4, <2>5, HandlerFacts DEF OnlyAt, BirthsKeep, Unborn
  <2>8. /\ LifeOf(t) = LifeAt(u) /\ LifeOf(t)' = LifeAt(u)'
        /\ \A s \in Tasks \ {t} : SameLife(s)
    BY <2>2, <2>6, <2>7, OneLives DEF RInv
  <2>9. LifeAt(u)' = [LifeOf(t) EXCEPT !.runner = h]
    BY <2>4, <2>6, <2>8 DEF LifeAt, Result
  <2>10. Life!Changes(t, [LifeOf(t) EXCEPT !.runner = h])
    BY <2>8, <2>9, LifeChanges
  <2>11. LifeOf(t).phase = "open" /\ LifeOf(t).compiler # NoPid /\ LifeOf(t).runner = NoPid
    BY <2>2, <2>8 DEF LifeAt
  <2>12. Life!Run(t, h)
    BY <2>3, <2>10, <2>11, LivesAt DEF Life!Run, Life!Compiling, Life!In
  <2>13. QED
    BY <2>12, AnAction DEF Workers
<1>3. QED
  BY <1>1, <1>2

LEMMA WritesLive ==
  ASSUME TInv, JInv, RInv, RInv', ResultsBelongToTask, LInv, MInv, VInv, Calm, Writes
  PROVE  LifeStep
<1>b. BirthsKeep
  BY DEF Calm
<1>u. \A h \in Handlers : Live(h) => hs[h].uid \in Uids
  BY HandlerFacts
<1>1. CASE UNCHANGED <<cfg, comp, exec>>
  BY <1>1, SamePlaces
<1>2. CASE \E h, k : k \in tickets /\ (k.sec = "monitor" => h \in Monitors) /\ UseTicket(k, h)
  <2>1. PICK h, k : k \in tickets /\ (k.sec = "monitor" => h \in Monitors) /\ UseTicket(k, h)
    BY <1>2
  <2>2. UNCHANGED <<comp, exec>>
    BY <2>1 DEF UseTicket
  <2>3. CASE k.sec = "monitor" /\ ReadInfoOK(k.uid) /\ cfg[k.uid].monitor = NoPid
    <3>1. k.uid \in Uids
      BY <2>1, HandlerFacts DEF Ticket
    <3>2. PICK u \in Uids : u = k.uid
      BY <3>1
    <3>3. h \in Monitors /\ cfg' = [cfg EXCEPT ![u].monitor = h]
      BY <2>1, <2>3, <3>2 DEF UseTicket
    <3>4. QED
      BY <1>b, <2>2, <2>3, <3>2, <3>3, WatchLives
  <2>4. CASE ~(k.sec = "monitor" /\ ReadInfoOK(k.uid) /\ cfg[k.uid].monitor = NoPid)
    BY <2>1, <2>2, <2>4, SamePlaces DEF UseTicket
  <2>5. QED
    BY <2>3, <2>4
<1>3. CASE \E h \in Monitors :
             At(h, "browser") /\ ReadInfoOK(hs[h].uid) /\ AddPassthroughTicket(hs[h].uid)
  BY <1>b, <1>3, PublishLives
<1>4. CASE \E t \in Tasks :
             /\ At(t, "saveCompilation") /\ ReadInfoOK(hs[t].uid) /\ comp[hs[t].uid] = NoTask
             /\ SetCompilationOutput(t, hs[t].uid)
  BY <1>b, <1>4, SaveCompilationLives
<1>5. CASE \E t \in Tasks :
             /\ At(t, "saveExecution") /\ ReadInfoOK(hs[t].uid)
             /\ comp[hs[t].uid] # NoTask /\ exec[hs[t].uid] = NoTask
             /\ SetExecutionOutput(t, hs[t].uid)
  BY <1>b, <1>5, SaveExecutionLives
<1>6. CASE \E h \in Handlers :
             At(h, "result") /\ ~Interactive(hs[h].task) /\ TakeResult(hs[h].uid)
  BY <1>b, <1>6, FetchLives
<1>7. CASE \E h \in Handlers : At(h, "mark") /\ MarkCleaning(hs[h].uid, hs[h].task)
  <2>1. PICK h \in Handlers : At(h, "mark") /\ MarkCleaning(hs[h].uid, hs[h].task)
    BY <1>7
  <2>2. hs[h].uid \in Uids
    BY <1>u, <2>1 DEF At, Live
  <2>3. QED
    BY <1>b, <2>1, <2>2, CondemnLives
<1>8. CASE \E u \in Uids : ~ReadInfoOK(u) /\ CleanPrisonerFiles(u)
  BY <1>b, <1>8, RemoveLives
<1>9. QED
  BY <1>1, <1>2, <1>3, <1>4, <1>5, <1>6, <1>7, <1>8 DEF Writes

LEMMA EveryStepLives ==
  ASSUME ~UidReuse, Timely, TInv, JInv, RInv, ResultsBelongToTask, LInv, MInv, VInv, [Next]_vars
  PROVE  LifeStep
<1>1. RInv'
  BY AllInvNext
<1>2. QED
  BY <1>1, LifeKinds, WritesLive, RefuseLives, CreateLives, CompilerLives, RunnerLives
     DEF LifeKind

LEMMA InitLives == Init => Life!Init
<1> SUFFICES ASSUME Init PROVE Life!Init
  OBVIOUS
<1>1. ASSUME NEW t \in Tasks PROVE LifeOf(t) = Life!Life("new")
  <2>1. Unborn(t) /\ \A u \in Uids : cfg[u].task # t
    BY AtPcOK, NoConfigFacts DEF Init, StoreInit, Unborn, Pcs, Handlers
  <2>2. QED
    BY <2>1 DEF LifeOf, LifeWithout, Life!Life
<1>2. QED
  BY <1>1 DEF Life!Init

(* The jail keeps what TaskLife promises of a task: it is requested,       *)
(* compiled, run, watched, published, its result saved and fetched, it is  *)
(* condemned and removed in that order, by the processes that may, each    *)
(* step on one task; no interleaving of requests, websockets, cleaners and *)
(* janitor under any number of uids repeats, skips or revives a part.      *)
THEOREM JailImplementsTaskLife ==
  ASSUME ~UidReuse, Timely
  PROVE Spec => TaskLifeSpec
<1>1. Init => TInv /\ JInv /\ RInv /\ ResultsBelongToTask /\ LInv /\ MInv /\ VInv
  BY AllInvInit, LInvInit, MInvInit, VInvInit
<1>2. (TInv /\ JInv /\ RInv /\ ResultsBelongToTask /\ LInv /\ MInv /\ VInv) /\ [Next]_vars
        => (TInv /\ JInv /\ RInv /\ ResultsBelongToTask /\ LInv /\ MInv /\ VInv)'
  BY MInvNext, VInvNext
<1>3. (TInv /\ JInv /\ RInv /\ ResultsBelongToTask /\ LInv /\ MInv /\ VInv) /\ [Next]_vars
        => [Life!Next]_Lives
  BY EveryStepLives DEF LifeStep
<1>4. QED
  BY <1>1, <1>2, <1>3, InitLives, PTL DEF Spec, TaskLifeSpec, Life!Spec, Lives
=============================================================================
