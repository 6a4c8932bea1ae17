------------------------------ MODULE TaskLife ------------------------------
(***************************************************************************)
(* What the jail promises about a task, whoever works for it and whatever  *)
(* uid it lives under: it is asked for once, compiled, run by one process, *)
(* watched by one monitor, condemned and removed, in this order, and no    *)
(* step on one task touches another.                                       *)
(***************************************************************************)
CONSTANTS BatchTasks, Tasks, Monitors, Executors, NoPid

VARIABLE life  \* for each task: its phase; the processes that compile, run
               \* and watch it; whether a browser may visit it; its result

Life(p) == [phase |-> p, compiler |-> NoPid, runner |-> NoPid, monitor |-> NoPid,
            web |-> FALSE, result |-> "none"]

Init == life = [t \in Tasks |-> Life("new")]

In(t, p) == life[t].phase = p
Changes(t, l) == life' = [life EXCEPT ![t] = l]

Compiling(t) == In(t, "open") /\ life[t].compiler # NoPid /\ life[t].runner = NoPid
Running(t) == In(t, "open") /\ life[t].runner # NoPid

(* The jail takes the request, or it does not.                             *)
Request(t) == In(t, "new") /\ \E p \in {"open", "gone"} : Changes(t, Life(p))

(* The child of the request registers itself as the compiler.              *)
Compile(t) ==
  /\ In(t, "open") /\ life[t].compiler = NoPid /\ life[t].runner = NoPid
  /\ Changes(t, [life[t] EXCEPT !.compiler = t])

(* A batch task runs by itself, any other one when its client comes.       *)
Run(t, p) ==
  /\ Compiling(t)
  /\ p \in IF t \in BatchTasks THEN {t} ELSE Executors
  /\ Changes(t, [life[t] EXCEPT !.runner = p])

(* The monitor ticket is good for one process.                             *)
Watch(t, m) ==
  /\ In(t, "open") /\ life[t].monitor = NoPid
  /\ Changes(t, [life[t] EXCEPT !.monitor = m])

(* Only a running program has a web application to visit.                  *)
Publish(t) == Running(t) /\ Changes(t, [life[t] EXCEPT !.web = TRUE])

(* The compilation is saved before a runner is registered, the execution   *)
(* of a batch task after that and on top of it.                            *)
SaveCompilation(t) ==
  /\ Compiling(t) /\ life[t].result = "none"
  /\ Changes(t, [life[t] EXCEPT !.result = "compilation"])

SaveExecution(t) ==
  /\ t \in BatchTasks
  /\ Running(t) /\ life[t].result = "compilation"
  /\ Changes(t, [life[t] EXCEPT !.result = "execution"])

(* The client takes what there is, also while the task is being removed.   *)
Fetch(t) ==
  /\ t \in BatchTasks
  /\ life[t].phase \in {"open", "condemned"}
  /\ Changes(t, [life[t] EXCEPT !.result = "none"])

(* CLEANING: from now on no process registers or saves anything.           *)
Condemn(t) == In(t, "open") /\ Changes(t, [life[t] EXCEPT !.phase = "condemned"])

(* Nothing of the task is left, and it never comes back.                   *)
Remove(t) == In(t, "condemned") /\ Changes(t, Life("gone"))

Next == \E t \in Tasks :
  \/ Request(t) \/ Compile(t) \/ SaveCompilation(t) \/ SaveExecution(t)
  \/ Publish(t) \/ Fetch(t) \/ Condemn(t) \/ Remove(t)
  \/ \E p \in Tasks \cup Executors : Run(t, p)
  \/ \E m \in Monitors : Watch(t, m)

Spec == Init /\ [][Next]_life
=============================================================================
