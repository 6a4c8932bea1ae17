------------------------------ MODULE RunLoop -------------------------------
(***************************************************************************)
(* The process that runs the program of a user: Jail::run (batch, and the  *)
(* launch of VNC) and Jail::runTerminal, with the redirector that carries  *)
(* the output of the pseudo terminal (redirector.cpp).  The program may    *)
(* write, end, close its terminal or leave other processes that hold it,   *)
(* at any time; the limits of time, memory and monitoring run out at any   *)
(* time.  Output is counted in chunks, numbered as they are written.       *)
(* With namespaces the process that the loops wait for is not the program: *)
(* it waits for it as root and ends well however the program ends, keeps   *)
(* the terminal open until then, and no signal of the loops reaches it but *)
(* the last SIGKILL of runTerminal, which leaves the program alone.        *)
(***************************************************************************)
EXTENDS Naturals, Sequences, SequencesExt

CONSTANTS
  Modes,        \* which of the ways to run
  MaxChunks,    \* bound, for each of the ways: what the program writes
  PtySize,      \* what a terminal holds
  BufferLimit,  \* bufferSizeLimit, in chunks
  InputLimit,   \* JAIL_WEBSOCKET_FRAME_SIZE_LIMIT, in messages
  DrainTurns    \* max_iter: 50

ASSUME RunAssumption ==
  /\ Modes \subseteq {"batch", "vncLaunch", "terminal"}
  /\ MaxChunks \in [Modes -> Nat] /\ PtySize \in Nat /\ InputLimit \in Nat
  /\ BufferLimit \in Nat \ {0} /\ BufferLimit % 2 = 0
  /\ DrainTurns \in Nat /\ DrainTurns > PtySize

VARIABLES
  mode, pc,
  state, netbuf, messageBuf, outputBufferCuted,  \* class Redirector
  stopSignal,
  turns,                   \* turns of the loop that waits for the last output
  written, taken,          \* chunks that were written to, and read from, the terminal
  namespaces,              \* useNamespace of the configuration
  child,                   \* the process newpid
  status,                  \* how it ended
  inner,                   \* namespaces: the program, process 1 of its own
  terminal,                \* the program has its terminal open
  others,                  \* other processes hold the terminal
  limits,                  \* the limits that have run out
  client, closed,          \* terminal: the client, and the socket
  wire,                    \* terminal: history of the kinds of frames that the client was sent
  programbuf               \* terminal: messages of the client to the program

redirector == <<state, netbuf, messageBuf, outputBufferCuted, taken, programbuf>>
program == <<namespaces, child, status, inner, terminal, others, written>>
vars == <<mode, pc, state, netbuf, messageBuf, outputBufferCuted, stopSignal, turns,
          written, taken, namespaces, child, status, inner, terminal, others, limits,
          client, closed, wire, programbuf>>

States == {"begin", "connected", "ending", "end"}
Limits == {"unmonitored", "time", "memory"}
Cut == 0

InPty == written - taken
Program == IF namespaces THEN inner ELSE child
Alive == Program \in {"running", "dying"}
Waiter == namespaces /\ child = "running"
Held == others \/ (terminal /\ Alive) \/ Waiter

TypeOK ==
  /\ mode \in Modes
  /\ pc \in {"advance", "wait", "drain", "reap", "returned"}
  /\ state \in States
  /\ netbuf \in Seq(0 .. written) /\ Len(netbuf) <= 2 * BufferLimit
  /\ outputBufferCuted \in BOOLEAN
  /\ stopSignal \in {"TERM", "KILL"}
  /\ turns \in 0 .. DrainTurns
  /\ InPty \in 0 .. PtySize
  /\ child \in {"running", "dying", "zombie", "reaped"}
  /\ status \in {"none", "ok", "failed", "killed"}
  /\ namespaces \in BOOLEAN
  /\ inner \in (IF namespaces THEN {"running", "dying", "ended"} ELSE {"none"})
  /\ status = "none" <=> child \in {"running", "dying"}
  /\ terminal \in BOOLEAN /\ others \in BOOLEAN /\ closed \in BOOLEAN
  /\ limits \subseteq Limits
  /\ client \in {"open", "gone"}
  /\ programbuf \in 0 .. InputLimit

Init ==
  /\ mode \in Modes /\ pc = "advance"
  /\ state = "begin" /\ netbuf = <<>> /\ messageBuf = <<>> /\ outputBufferCuted = FALSE
  /\ stopSignal = "TERM" /\ turns = 0
  /\ written = 0 /\ taken = 0
  /\ namespaces \in BOOLEAN /\ inner = IF namespaces THEN "running" ELSE "none"
  /\ child = "running" /\ status = "none" /\ terminal = TRUE /\ others = FALSE
  /\ limits = {}
  /\ client = "open" /\ closed = FALSE /\ wire = {}
  /\ programbuf = 0

-----------------------------------------------------------------------------
(* The two loops around advance()                                          *)

Active(st) == st # "end"
MaxTurns == IF mode = "vncLaunch" THEN 0 ELSE DrainTurns
Out == IF mode = "terminal" THEN "reap" ELSE "returned"

(* The conditions of the loops, with the state the redirector comes to.    *)
ToDrain(st, cl, n) ==
  IF Active(st) /\ ~(mode = "terminal" /\ cl) /\ n < MaxTurns
  THEN pc' = "drain" /\ turns' = n + 1
  ELSE pc' = Out /\ UNCHANGED turns

ToLoop(st, cl) ==
  IF Active(st) /\ ~(mode = "terminal" /\ cl)
  THEN pc' = "advance" /\ UNCHANGED turns
  ELSE ToDrain(st, cl, 0)

(* advance() goes on while the state changes, and poll() may report        *)
(* several events at once.                                                 *)
Again == UNCHANGED <<pc, turns>>
AdvanceEnds(cl) ==
  IF pc = "advance" THEN pc' = "wait" /\ UNCHANGED turns
  ELSE ToDrain(state, cl, turns)

Advancing(st) == pc \in {"advance", "drain"} /\ state = st

-----------------------------------------------------------------------------
(* RedirectorTerminalBatch::advance and what both redirectors share        *)

Connect ==
  /\ Advancing("begin")
  /\ state' = "connected"
  /\ Again
  /\ UNCHANGED <<mode, netbuf, messageBuf, outputBufferCuted, stopSignal, program, taken,
                 limits, client, closed, wire, programbuf>>

End ==
  /\ Advancing("ending")
  /\ state' = "end"
  /\ Again
  /\ UNCHANGED <<mode, netbuf, messageBuf, outputBufferCuted, stopSignal, program, taken,
                 limits, client, closed, wire, programbuf>>

Half == BufferLimit \div 2

(* Variant: the tail is taken from the output kept before.                 *)
AddOutputOldTail(out) ==
  LET overflow == netbuf \o out IN
  IF Len(overflow) > 2 * BufferLimit
  THEN /\ netbuf' = SubSeq(overflow, 1, Half) \o <<Cut>>
                    \o SubSeq(netbuf, Len(netbuf) - Half + 1, Len(netbuf))
       /\ outputBufferCuted' = TRUE
       /\ messageBuf' = IF outputBufferCuted THEN messageBuf ELSE Append(messageBuf, "cut")
  ELSE netbuf' = overflow /\ UNCHANGED <<messageBuf, outputBufferCuted>>

AddOutput(out) ==
  LET overflow == netbuf \o out IN
  IF Len(overflow) > 2 * BufferLimit
  THEN /\ netbuf' = SubSeq(overflow, 1, Half) \o <<Cut>>
                    \o SubSeq(overflow, Len(overflow) - Half + 1, Len(overflow))
       /\ outputBufferCuted' = TRUE
       /\ messageBuf' = IF outputBufferCuted THEN messageBuf ELSE Append(messageBuf, "cut")
  ELSE netbuf' = overflow /\ UNCHANGED <<messageBuf, outputBufferCuted>>

BatchReads(k) ==
  /\ mode # "terminal"
  /\ Advancing("connected")
  /\ k <= InPty
  /\ AddOutput([i \in 1 .. k |-> taken + i])
  /\ taken' = taken + k
  /\ AdvanceEnds(closed)
  /\ UNCHANGED <<mode, state, stopSignal, program, limits, client, closed, wire, programbuf>>

(* Variant: the terminal that was closed is not read to its end.           *)
MeetsEndEarly ==
  /\ Advancing("connected")
  /\ ~Held
  /\ state' = IF mode = "terminal" THEN "ending" ELSE "end"
  /\ Again
  /\ UNCHANGED <<mode, netbuf, messageBuf, outputBufferCuted, stopSignal, program, taken,
                 limits, client, closed, wire, programbuf>>

(* POLLHUP and nothing to read: nobody holds the terminal.                 *)
MeetsEnd ==
  /\ Advancing("connected")
  /\ InPty = 0
  /\ ~Held
  /\ state' = IF mode = "terminal" THEN "ending" ELSE "end"
  /\ Again
  /\ UNCHANGED <<mode, netbuf, messageBuf, outputBufferCuted, stopSignal, program, taken,
                 limits, client, closed, wire, programbuf>>

(* poll() ends without events; a batch redirector at its end sleeps.       *)
NothingToDo ==
  /\ \/ Advancing("connected") /\ InPty = 0 /\ Held
     \/ Advancing("end") /\ mode # "terminal"
  /\ AdvanceEnds(closed)
  /\ UNCHANGED <<mode, redirector, stopSignal, program, limits, client, closed, wire>>

-----------------------------------------------------------------------------
(* RedirectorTerminal::advance                                             *)

(* ws->send(): nothing reaches a client that has gone.                     *)
SendFrames(frames) ==
  IF client = "open" /\ ~closed
  THEN wire' = wire \cup frames /\ UNCHANGED closed
  ELSE closed' \in {closed, TRUE} /\ UNCHANGED wire

TerminalReads(k) ==
  /\ mode = "terminal"
  /\ Advancing("connected")
  /\ k <= InPty
  /\ taken' = taken + k
  /\ SendFrames({"out"})
  /\ Again \/ AdvanceEnds(closed')
  /\ UNCHANGED <<mode, state, netbuf, messageBuf, outputBufferCuted, stopSignal, program,
                 limits, client, programbuf>>

(* The client has typed something, in the same turn or in one of its own.  *)
AddInput ==
  /\ mode = "terminal"
  /\ Advancing("connected")
  /\ client = "open"
  /\ IF programbuf + 1 > InputLimit
     THEN /\ messageBuf' = Append(messageBuf, "input")
          /\ state' = "ending"
          /\ Again
          /\ UNCHANGED programbuf
     ELSE /\ programbuf' = programbuf + 1
          /\ Again \/ AdvanceEnds(closed)
          /\ UNCHANGED <<messageBuf, state>>
  /\ UNCHANGED <<mode, netbuf, outputBufferCuted, stopSignal, program, taken, limits, client,
                 closed, wire>>

WriteInput(k) ==
  /\ mode = "terminal"
  /\ Advancing("connected")
  /\ k <= programbuf
  /\ Held
  /\ programbuf' = programbuf - k
  /\ AdvanceEnds(closed)
  /\ UNCHANGED <<mode, state, netbuf, messageBuf, outputBufferCuted, stopSignal, program,
                 taken, limits, client, closed, wire>>

(* POLLBAD on the socket, or its end, which ws->receive() meets.           *)
ClientIsLost ==
  /\ mode = "terminal"
  /\ Advancing("connected")
  /\ client = "gone"
  /\ \/ state' = "ending" /\ Again /\ UNCHANGED closed
     \/ closed' = TRUE /\ UNCHANGED state /\ AdvanceEnds(TRUE)
  /\ UNCHANGED <<mode, netbuf, messageBuf, outputBufferCuted, stopSignal, program, taken,
                 limits, client, wire, programbuf>>

(* The socket throws: the loops are left for the reaping.                  *)
AdvanceThrows ==
  /\ mode = "terminal"
  /\ Advancing("connected")
  /\ client = "gone"
  /\ pc' = "reap"
  /\ UNCHANGED <<mode, redirector, stopSignal, turns, program, limits, client, closed, wire>>

(* Variant: the messages are not sent.                                     *)
FarewellSilent ==
  /\ mode = "terminal"
  /\ Advancing("end")
  /\ SendFrames({"close"})
  /\ UNCHANGED <<state, messageBuf>>
  /\ AdvanceEnds(closed')
  /\ UNCHANGED <<mode, netbuf, outputBufferCuted, stopSignal, program, taken, limits, client,
                 programbuf>>

(* The messages and the Close frame.                                       *)
Farewell ==
  /\ mode = "terminal"
  /\ Advancing("end")
  /\ SendFrames(ToSet(messageBuf) \cup {"close"}
                \cup (IF taken = 0 THEN {"no output"} ELSE {}))
  /\ messageBuf' = <<>>
  /\ UNCHANGED state
  /\ AdvanceEnds(closed')
  /\ UNCHANGED <<mode, netbuf, outputBufferCuted, stopSignal, program, taken, limits, client,
                 programbuf>>

Advance ==
  \/ Connect \/ End \/ MeetsEnd \/ NothingToDo \/ AddInput \/ ClientIsLost \/ AdvanceThrows
  \/ Farewell
  \/ \E k \in 1 .. PtySize : BatchReads(k) \/ TerminalReads(k)
  \/ \E k \in 1 .. InputLimit : WriteInput(k)

-----------------------------------------------------------------------------
(* The rest of a turn of run() and runTerminal()                           *)

(* waitpid() returns newpid.  runTerminal() does not look at the status.   *)
ChildEnded ==
  /\ pc = "wait"
  /\ child = "zombie"
  /\ child' = "reaped"
  /\ messageBuf' = IF mode = "terminal" THEN messageBuf
                   ELSE IF "memory" \in limits THEN Append(messageBuf, "memory")
                   ELSE IF status # "ok" THEN Append(messageBuf, status)
                   ELSE messageBuf
  /\ ToDrain(state, closed, 0)
  /\ UNCHANGED <<mode, state, netbuf, outputBufferCuted, stopSignal, written, taken, status,
                 namespaces, inner, terminal, others, limits, client, closed, wire, programbuf>>

(* waitpid() fails: stopPrisonerProcess() has reaped the child.            *)
ChildMissing ==
  /\ pc = "wait"
  /\ child = "reaped"
  /\ ToDrain(state, closed, 0)
  /\ UNCHANGED <<mode, redirector, stopSignal, program, limits, client, closed, wire>>

OutputSize == Len(netbuf) + Len(messageBuf)
Running == pc = "wait" /\ child \in {"running", "dying"}

VNCLaunched ==
  /\ Running
  /\ mode = "vncLaunch"
  /\ OutputSize > 0
  /\ ToDrain(state, closed, 0)
  /\ UNCHANGED <<mode, redirector, stopSignal, program, limits, client, closed, wire>>

(* No limit has run out, or the second has not changed.                    *)
GoesOn ==
  /\ Running
  /\ mode = "vncLaunch" => OutputSize = 0
  /\ ToLoop(state, closed)
  /\ UNCHANGED <<mode, redirector, stopSignal, program, limits, client, closed, wire>>

(* stopPrisonerProcess() and kill(-newpid): the first time with SIGTERM,   *)
(* which the program may ignore, and does as process 1 of a namespace if   *)
(* it has no handler.  stopPrisonerProcess() reaps what has ended within   *)
(* its wait, if it is a child.  soft is its argument.                      *)
Signalled(soft) ==
  /\ \/ ~namespaces /\ child' = "reaped" /\ status' = "killed" /\ UNCHANGED inner
     \/ /\ ~namespaces
        /\ child' = IF stopSignal = "KILL" THEN "dying" ELSE child
        /\ UNCHANGED <<status, inner>>
     \/ /\ namespaces
        /\ inner' = IF soft \/ inner = "ended" THEN inner ELSE "dying"
        /\ UNCHANGED <<child, status>>
  /\ others' \in (IF soft THEN {others, FALSE} ELSE {FALSE})
  /\ UNCHANGED namespaces

(* The first of the limits in the order in which the code looks at them.   *)
Limit(l) ==
  /\ l \in limits
  /\ l = "time" => "unmonitored" \notin limits
  /\ l = "memory" => limits = {"memory"}

(* redirector.stop(): run() waits for the second try, and runTerminal()    *)
(* leaves it out for memory.                                               *)
Stops(l) == IF mode = "terminal" THEN l # "memory" ELSE stopSignal = "KILL"

(* run() calls stopPrisonerProcess(stopSignal) for a program without       *)
(* monitor: the number of any signal is TRUE, soft the second time too.    *)
Soft(l) == stopSignal = "TERM" \/ (mode # "terminal" /\ l = "unmonitored")

(* Variant: there is no second try.                                        *)
LimitStopsOnce(l) ==
  /\ Running /\ stopSignal = "TERM"
  /\ mode = "vncLaunch" => OutputSize = 0
  /\ Limit(l)
  /\ messageBuf' = Append(messageBuf, l)
  /\ Signalled(Soft(l))
  /\ stopSignal' = "KILL"
  /\ ToLoop(state, closed)
  /\ UNCHANGED <<mode, state, netbuf, outputBufferCuted, written, taken, terminal, limits,
                 client, closed, wire, programbuf>>

(* Variant: the client is not told.                                        *)
LimitStopsSilently(l) ==
  /\ Running
  /\ mode = "vncLaunch" => OutputSize = 0
  /\ Limit(l)
  /\ state' = IF Stops(l)
              THEN "ending" ELSE state
  /\ Signalled(Soft(l))
  /\ stopSignal' = "KILL"
  /\ ToLoop(state', closed)
  /\ UNCHANGED <<mode, netbuf, messageBuf, outputBufferCuted, written, taken, terminal,
                 limits, client, closed, wire, programbuf>>

(* A limit has run out and a new second has begun.                         *)
LimitStops(l) ==
  /\ Running
  /\ mode = "vncLaunch" => OutputSize = 0
  /\ Limit(l)
  /\ messageBuf' = IF stopSignal = "KILL" THEN messageBuf ELSE Append(messageBuf, l)
  /\ state' = IF Stops(l)
              THEN "ending" ELSE state
  /\ Signalled(Soft(l))
  /\ stopSignal' = "KILL"
  /\ ToLoop(state', closed)
  /\ UNCHANGED <<mode, netbuf, outputBufferCuted, written, taken, terminal, limits, client,
                 closed, wire, programbuf>>

(* Variant: the program is left to itself.                                 *)
ReapNot ==
  /\ pc = "reap"
  /\ pc' = "returned"
  /\ UNCHANGED <<mode, redirector, stopSignal, turns, program, limits, client, closed, wire>>

(* runTerminal(): SIGKILL and a waitpid() that waits.                      *)
Reap ==
  /\ pc = "reap"
  /\ child' = "reaped"
  /\ status' = IF status = "none" THEN "killed" ELSE status
  /\ pc' = "returned"
  /\ UNCHANGED <<mode, redirector, stopSignal, turns, written, namespaces, inner, terminal,
                 others, limits, client, closed, wire>>

Wait ==
  \/ ChildEnded \/ ChildMissing \/ VNCLaunched \/ GoesOn \/ \E l \in Limits : LimitStops(l)

-----------------------------------------------------------------------------
(* The program, the limits and the client                                  *)

ProgramWrites ==
  /\ others \/ (terminal /\ Alive)
  /\ written < MaxChunks[mode]
  /\ InPty < PtySize
  /\ written' = written + 1
  /\ UNCHANGED <<mode, pc, redirector, stopSignal, turns, namespaces, child, status, inner,
                 terminal, others, limits, client, closed, wire>>

ProgramForks ==
  /\ Program = "running" /\ terminal
  /\ others' = TRUE
  /\ UNCHANGED <<mode, pc, redirector, stopSignal, turns, written, namespaces, child, status,
                 inner, terminal, limits, client, closed, wire>>

ProgramClosesTerminal ==
  /\ Program = "running"
  /\ terminal' = FALSE
  /\ UNCHANGED <<mode, pc, redirector, stopSignal, turns, written, namespaces, child, status,
                 inner, others, limits, client, closed, wire>>

(* The end of process 1 is the end of all in its namespace.                *)
ProgramEnds(st) ==
  /\ Alive
  /\ Program = "dying" => st = "killed"
  /\ IF namespaces
     THEN inner' = "ended" /\ others' = FALSE /\ UNCHANGED <<child, status>>
     ELSE child' = "zombie" /\ status' = st /\ UNCHANGED <<inner, others>>
  /\ UNCHANGED <<mode, pc, redirector, stopSignal, turns, written, namespaces, terminal,
                 limits, client, closed, wire>>

(* setupNamespaces(): _exit(EXIT_SUCCESS) after waitpid().                 *)
WaiterEnds ==
  /\ Waiter /\ inner = "ended"
  /\ child' = "zombie" /\ status' = "ok"
  /\ UNCHANGED <<mode, pc, redirector, stopSignal, turns, written, namespaces, inner,
                 terminal, others, limits, client, closed, wire>>

OthersEnd ==
  /\ others
  /\ others' = FALSE
  /\ UNCHANGED <<mode, pc, redirector, stopSignal, turns, written, namespaces, child, status,
                 inner, terminal, limits, client, closed, wire>>

(* The clocks and counters are looked at only after waitpid().             *)
RunsOut(l) ==
  /\ pc = "wait"
  /\ limits' = limits \cup {l}
  /\ UNCHANGED <<mode, pc, redirector, stopSignal, turns, program, client, closed, wire>>

ClientLeaves ==
  /\ mode = "terminal"
  /\ client' = "gone"
  /\ UNCHANGED <<mode, pc, redirector, stopSignal, turns, program, limits, closed, wire>>

World ==
  /\ pc # "returned"
  /\ \/ ProgramWrites \/ ProgramForks \/ ProgramClosesTerminal \/ OthersEnd
     \/ \E st \in {"ok", "failed", "killed"} : ProgramEnds(st)
     \/ WaiterEnds
     \/ \E l \in Limits : RunsOut(l)
     \/ ClientLeaves

Next == Advance \/ Wait \/ Reap \/ World

Spec == Init /\ [][Next]_vars

(* The process is scheduled, SIGKILL ends a program, the time limit runs   *)
(* out, the loop comes by in a new second again and again, and not in      *)
(* every turn: stop() makes a redirector active that has ended, and a turn *)
(* takes some tenths of a second.  Nothing is assumed of the program or of *)
(* the client.                                                             *)
FairSpec ==
  /\ Spec
  /\ WF_vars(Advance) /\ WF_vars(Wait) /\ WF_vars(Reap)
  /\ WF_vars(Program = "dying" /\ ProgramEnds("killed")) /\ WF_vars(WaiterEnds)
  /\ SF_vars(RunsOut("time"))
  /\ SF_vars(\E l \in Limits : LimitStops(l)) /\ SF_vars(GoesOn)

-----------------------------------------------------------------------------
(* Properties                                                              *)

Returned == pc = "returned"
EndedByItself == child = "reaped" /\ stopSignal = "TERM" /\ status \in {"ok", "failed"}

(* All that a program has written is read before run() and runTerminal()   *)
(* return, if it ends by itself, the last turns are not used up by other   *)
(* processes that keep its terminal, and the client of a terminal stays    *)
(* and does not exceed the input limit.                                    *)
OutputIsDelivered ==
  Returned /\ EndedByItself /\ turns < DrainTurns /\ mode # "vncLaunch" /\ client = "open"
  /\ "input" \notin wire
    => taken = written

(* addOutput(): however often it is cut, the output begins with what the   *)
(* program wrote first, ends with what it wrote last, and the user is told *)
(* once.                                                                   *)
CutKeepsBothEnds ==
  mode # "terminal" =>
    IF outputBufferCuted
    THEN /\ SubSeq(netbuf, 1, Half) = [i \in 1 .. Half |-> i]
         /\ SubSeq(netbuf, Len(netbuf) - Half + 1, Len(netbuf))
              = [i \in 1 .. Half |-> taken - Half + i]
         /\ \E i \in DOMAIN messageBuf : \A j \in DOMAIN messageBuf :
              messageBuf[j] = "cut" <=> j = i
    ELSE netbuf = [i \in 1 .. taken |-> i]

(* run() explains every end that is not the end of the program's own: a    *)
(* limit, a signal or an exit code.  With namespaces only the limits: the  *)
(* waiter ends well whatever the program ended with.                       *)
EndsAreExplained ==
  mode = "batch" /\ Returned /\ (stopSignal = "KILL" \/ (child = "reaped" /\ status # "ok"))
    => messageBuf # <<>>

(* runTerminal() does not return with messages that the client should have *)
(* seen, unless other processes that keep the terminal use up the turns.   *)
(* The message of the memory limit, which does not stop the redirector,    *)
(* may come after the farewell.                                            *)
MessagesReachTheClient ==
  mode = "terminal" /\ Returned /\ client = "open" /\ turns < DrainTurns
    => messageBuf = <<>> \/ (messageBuf = <<"memory">> /\ "close" \in wire)

(* No program runs when run() or runTerminal() has returned, but for VNC;  *)
(* for a batch program that has closed its terminal, without namespaces;   *)
(* and, with namespaces, for those that were only asked to end: a batch    *)
(* program without monitor, where the second try is soft again and         *)
(* kill(-newpid) meets nobody, and a terminal's, where SIGKILL meets the   *)
(* waiter.  These are left to cleanTask().                                 *)
NothingRunsOn ==
  Returned /\ Program = "running" =>
    \/ mode = "vncLaunch"
    \/ mode = "batch" /\ ~terminal /\ ~namespaces
    \/ namespaces /\ (mode = "terminal" \/ "unmonitored" \in limits)

(* run() and runTerminal() return, whatever the program does.              *)
RunEnds == <>Returned
=============================================================================
