------------------------------- MODULE Relay --------------------------------
(***************************************************************************)
(* The two sessions in which a client talks to a server of its task: the   *)
(* VNC server (Jail::runVNC with RedirectorVNC) and the web server         *)
(* (Jail::runPassthrough with RedirectorWebServer).  One thread carries    *)
(* the data of both directions.  The chunks of each direction are numbered *)
(* as they are sent; a web request begins with its headers.  The socket of *)
(* the client is summarised from modules Socket and WebSocket.             *)
(***************************************************************************)
EXTENDS Naturals, Sequences, SequencesExt

CONSTANTS
  Modes,       \* which of the sessions
  MaxChunks,   \* bound: what either end sends
  InputLimit,  \* JAIL_WEBSOCKET_FRAME_SIZE_LIMIT, in chunks
  PipeSize     \* what the kernel holds on the way to the server

ASSUME RelayAssumption ==
  /\ Modes \subseteq {"vnc", "web"}
  /\ MaxChunks \in Nat \ {0} /\ InputLimit \in Nat \ {0} /\ PipeSize \in Nat \ {0}

VARIABLES
  mode, pc,
  state, netbuf,            \* class Redirector
  ready,                    \* what poll() has reported
  put,                      \* how much of netbuf write() has handed over
  draining,                 \* in the second loop of runVNC
  expired,                  \* the limits that have run out
  client,                   \* "open" or "gone": it reads and sends no more
  closed, bye,              \* its socket; the Close frame was sent
  fromClient, asked, taken, \* on the way from it; history: how much was sent, and received
  toClient,                 \* history: what was sent to it
  server,                   \* "absent", "up" or "ended"
  toServer, heard,          \* on the way to the server; history: what it has read
  fromServer, answered,     \* on the way from it; history: how much was sent
  why                       \* history: what ended the session

loop == <<mode, draining, expired>>
where == <<pc, state, why>>
buffers == <<netbuf, ready, put>>
sock == <<closed, bye, taken, toClient>>
pipes == <<fromClient, toServer, fromServer>>
outside == <<client, asked, server, heard, answered>>
vars == <<mode, pc, state, netbuf, ready, put, draining, expired, client, closed, bye,
          fromClient, asked, taken, toClient, server, toServer, heard, fromServer,
          answered, why>>

States == {"begin", "connecting", "connected", "ending", "end", "error"}
Chunks == 1 .. MaxChunks

TypeOK ==
  /\ mode \in Modes
  /\ pc \in {"launch", "loop", "advance", "poll", "fromServer", "fromClient", "toServer",
             "write", "clock", "drain", "stopper", "threw", "done"}
  /\ state \in States
  /\ netbuf \in Seq(Chunks) /\ fromClient \in Seq(Chunks) /\ fromServer \in Seq(Chunks)
  /\ ready \subseteq {"server", "client", "write"}
  /\ put \in 0 .. Len(netbuf) /\ (put > 0 => pc = "write")
  /\ draining \in BOOLEAN /\ closed \in BOOLEAN /\ bye \in BOOLEAN
  /\ expired \subseteq {"connect", "session"}
  /\ client \in {"open", "gone"} /\ server \in {"absent", "up", "ended"}
  /\ toServer \in Seq(Chunks) /\ Len(toServer) <= PipeSize
  /\ why \in {"none", "server", "client", "input", "write", "limit", "connect", "poll"}

(* The headers of a web request were read before the session.              *)
Init ==
  /\ mode \in Modes
  /\ pc = IF mode = "vnc" THEN "launch" ELSE "loop"
  /\ state = "begin" /\ netbuf = <<>> /\ ready = {} /\ put = 0
  /\ draining = FALSE /\ expired = {}
  /\ client = "open" /\ closed = FALSE /\ bye = FALSE
  /\ asked = IF mode = "web" THEN 1 ELSE 0
  /\ fromClient = <<>> /\ taken = asked /\ toClient = <<>>
  /\ server \in (IF mode = "vnc" THEN {"absent"} ELSE {"absent", "up"})
  /\ toServer = <<>> /\ heard = <<>> /\ fromServer = <<>> /\ answered = 0
  /\ why = "none"

-----------------------------------------------------------------------------
(* advance() goes on as long as it changes the state.                      *)

Goes(st, cause) ==
  /\ state' = st
  /\ why' = IF why = "none" THEN cause ELSE why
  /\ pc' = "advance"

Returns ==
  /\ pc' = IF draining THEN "drain" ELSE "clock"
  /\ UNCHANGED <<state, why>>

Begin ==
  /\ pc = "advance" /\ state = "begin"
  /\ Goes("connecting", "none") \/ Goes("error", "connect")
  /\ UNCHANGED <<loop, outside, buffers, pipes, sock>>

(* Variant: the headers that were already read are not passed on.          *)
ConnectHeadersLost ==
  /\ pc = "advance" /\ state = "connecting"
  /\ \/ server = "up" /\ Goes("connected", "none")
     \/ server # "up" /\ (IF "connect" \in expired THEN Goes("error", "connect") ELSE Returns)
     \/ mode = "web" /\ Goes("error", "connect")
  /\ UNCHANGED <<loop, outside, buffers, pipes, sock>>

Connect ==
  /\ pc = "advance" /\ state = "connecting"
  /\ \/ /\ server = "up"
        /\ netbuf' = IF mode = "web" THEN <<1>> ELSE netbuf
        /\ Goes("connected", "none")
     \/ /\ server # "up"
        /\ IF "connect" \in expired THEN Goes("error", "connect") ELSE Returns
        /\ UNCHANGED netbuf
     \/ /\ mode = "web"  \* regServerAddress does not match
        /\ Goes("error", "connect")
        /\ UNCHANGED netbuf
  /\ UNCHANGED <<loop, outside, pipes, sock, ready, put>>

(* receive(), with next as what follows.  Only RedirectorVNC has a limit.  *)
Receive(k, next) ==
  /\ k <= Len(fromClient)
  /\ fromClient' = SubSeq(fromClient, k + 1, Len(fromClient))
  /\ taken' = taken + k
  /\ IF mode = "vnc" /\ Len(netbuf) + k > InputLimit
     THEN Goes("ending", "input") /\ UNCHANGED netbuf
     ELSE /\ netbuf' = netbuf \o SubSeq(fromClient, 1, k)
          /\ pc' = next
          /\ UNCHANGED <<state, why>>
  /\ UNCHANGED closed

(* receive() meets the end of the stream, or throws.                       *)
ReceiveMeetsEnd(next) ==
  /\ client = "gone" /\ fromClient = <<>>
  /\ \/ closed' = TRUE /\ pc' = next
     \/ pc' = "threw" /\ UNCHANGED closed
  /\ UNCHANGED <<fromClient, taken, netbuf, state, why>>

(* The top of the case connected, up to poll().                            *)
Connected ==
  /\ pc = "advance" /\ state = "connected"
  /\ IF closed
     THEN /\ Goes("end", "client")
          /\ UNCHANGED <<netbuf, fromClient, taken, closed>>
     ELSE \/ pc' = "poll" /\ UNCHANGED <<state, why, netbuf, fromClient, taken, closed>>
          \/ \E k \in Chunks : Receive(k, "poll")
  /\ UNCHANGED <<loop, outside, ready, put, bye, toClient, toServer,
                 fromServer>>

(* The server's end is readable too, so POLLBAD comes with POLLREAD.  A    *)
(* client that has gone may or may not show it.                            *)
Poll ==
  /\ pc = "poll"
  /\ \E seen \in BOOLEAN :
       ready' = (IF fromServer # <<>> \/ server = "ended" THEN {"server"} ELSE {})
           \cup (IF fromClient # <<>> \/ (seen /\ client = "gone") THEN {"client"} ELSE {})
           \cup (IF netbuf # <<>> /\ (Len(toServer) < PipeSize \/ server = "ended")
                 THEN {"write"} ELSE {})
  /\ \/ ready' = {} /\ Returns
     \/ ready' # {} /\ pc' = "fromServer" /\ UNCHANGED <<state, why>>
     \/ Goes("error", "poll")
  /\ UNCHANGED <<loop, outside, pipes, sock, netbuf, put>>

(* send() to the client: nothing on a closed socket; on a WebSocket a lost *)
(* client closes the socket; any other failure is an exception.            *)
Send(chunks, next) ==
  \/ /\ client = "open" /\ ~closed
     /\ toClient' = toClient \o chunks
     /\ pc' = next
     /\ UNCHANGED closed
  \/ closed /\ pc' = next /\ UNCHANGED <<toClient, closed>>
  \/ /\ client = "gone" /\ ~closed
     /\ \/ closed' \in {FALSE, mode = "vnc"} /\ pc' = next
        \/ pc' = "threw" /\ UNCHANGED closed
     /\ UNCHANGED toClient

(* Variant: what the server closed behind its answer is not read.          *)
FromServerEndFirst ==
  /\ pc = "fromServer"
  /\ IF "server" \notin ready
     THEN /\ pc' = "fromClient"
          /\ UNCHANGED <<state, why, fromServer, toClient, closed>>
     ELSE IF server = "ended"
     THEN Goes("ending", "server") /\ UNCHANGED <<fromServer, toClient, closed>>
     ELSE \E k \in 1 .. Len(fromServer) :
            /\ fromServer' = SubSeq(fromServer, k + 1, Len(fromServer))
            /\ Send(SubSeq(fromServer, 1, k), "fromClient")
            /\ UNCHANGED <<state, why>>
  /\ UNCHANGED <<loop, outside, buffers, bye, taken, fromClient, toServer>>

FromServer ==
  /\ pc = "fromServer"
  /\ IF "server" \notin ready
     THEN /\ pc' = "fromClient"
          /\ UNCHANGED <<state, why, fromServer, toClient, closed>>
     ELSE IF fromServer = <<>>
     THEN Goes("ending", "server") /\ UNCHANGED <<fromServer, toClient, closed>>
     ELSE \E k \in 1 .. Len(fromServer) :
            /\ fromServer' = SubSeq(fromServer, k + 1, Len(fromServer))
            /\ Send(SubSeq(fromServer, 1, k), "fromClient")
            /\ UNCHANGED <<state, why>>
  /\ UNCHANGED <<loop, outside, buffers, bye, taken, fromClient, toServer>>

FromClient ==
  /\ pc = "fromClient"
  /\ \/ /\ "client" \notin ready
        /\ pc' = "toServer"
        /\ UNCHANGED <<state, why, netbuf, fromClient, taken, closed>>
     \/ /\ "client" \in ready
        /\ \/ \E k \in Chunks : Receive(k, "toServer")
           \/ ReceiveMeetsEnd("toServer")
           \/ /\ fromClient = <<>> /\ client = "open"  \* the data was read before poll()
              /\ pc' = "toServer"
              /\ UNCHANGED <<state, why, netbuf, fromClient, taken, closed>>
  /\ UNCHANGED <<loop, outside, ready, put, bye, toClient, toServer,
                 fromServer>>

ToServer ==
  /\ pc = "toServer"
  /\ IF netbuf # <<>> /\ "write" \in ready
     THEN pc' = "write" /\ UNCHANGED <<state, why>>
     ELSE Returns
  /\ UNCHANGED <<loop, outside, buffers, pipes, sock>>

(* write() on a blocking socket: it waits for the server to read until all *)
(* of netbuf is in the hands of the kernel.                                *)
Write ==
  /\ pc = "write"
  /\ server # "ended" /\ Len(toServer) < PipeSize
  /\ toServer' = Append(toServer, netbuf[put + 1])
  /\ IF put + 1 = Len(netbuf)
     THEN put' = 0 /\ netbuf' = <<>> /\ Returns
     ELSE put' = put + 1 /\ UNCHANGED <<netbuf, pc, state, why>>
  /\ UNCHANGED <<loop, outside, sock, ready, fromClient, fromServer>>

(* The server's end cuts write() short.                                    *)
WriteFails ==
  /\ pc = "write" /\ server = "ended"
  /\ netbuf' = SubSeq(netbuf, put + 1, Len(netbuf))
  /\ put' = 0
  /\ IF put = 0 THEN Goes("ending", "write") ELSE Returns
  /\ UNCHANGED <<loop, outside, pipes, sock, ready>>

End ==
  /\ pc = "advance" /\ state = "ending"
  /\ Goes("end", "none")
  /\ UNCHANGED <<loop, outside, buffers, pipes, sock>>

(* The cases end and error: a Close frame, or the socket itself.           *)
Farewell ==
  /\ pc = "advance" /\ state \in {"end", "error"}
  /\ IF closed THEN UNCHANGED <<closed, bye>>
     ELSE IF mode = "vnc" THEN bye' = TRUE /\ closed' \in {closed, client = "gone"}
     ELSE closed' = TRUE /\ UNCHANGED bye
  /\ Returns
  /\ UNCHANGED <<loop, outside, buffers, pipes, taken, toClient>>

Advance ==
  \/ Begin \/ Connect \/ Connected \/ Poll \/ FromServer \/ FromClient \/ ToServer
  \/ Write \/ WriteFails \/ End \/ Farewell

-----------------------------------------------------------------------------
(* Jail::runVNC and Jail::runPassthrough                                   *)

Active == state \notin {"end", "error"}

(* The launch script starts a server and prints its port, or does not.     *)
LaunchVNC ==
  /\ pc = "launch"
  /\ server' \in {"absent", "up"}
  /\ pc' = "loop"
  /\ UNCHANGED <<loop, buffers, pipes, sock, state, client, asked, heard,
                 answered, why>>

Loop ==
  /\ pc = "loop"
  /\ pc' = IF Active /\ ~closed THEN "advance" ELSE IF mode = "vnc" THEN "drain" ELSE "done"
  /\ UNCHANGED <<loop, outside, buffers, pipes, sock, state, why>>

(* No new second, or no limit has run out.                                 *)
GoesOn ==
  /\ pc = "clock"
  /\ pc' = "loop"
  /\ UNCHANGED <<loop, outside, buffers, pipes, sock, state, why>>

(* Variant: the limit is noticed, and the redirector not stopped.          *)
LimitNotes ==
  /\ pc = "clock"
  /\ "session" \in expired
  /\ pc' = "loop"
  /\ UNCHANGED <<loop, outside, buffers, pipes, sock, state, why>>

(* Variant: runVNC() breaks without redirector.stop().                     *)
LimitStopsNot ==
  /\ pc = "clock"
  /\ "session" \in expired
  /\ why' = IF why = "none" THEN "limit" ELSE why
  /\ IF mode = "vnc"
     THEN pc' = "stopper" /\ UNCHANGED <<toClient, closed>>
     ELSE Send(<<>>, "done")
  /\ UNCHANGED <<loop, outside, buffers, pipes, state, bye, taken>>

(* stop() and break.  The passthrough tells its client, in plain text and  *)
(* wherever the answer of the web server stands, and is not advanced again.*)
LimitStops ==
  /\ pc = "clock"
  /\ "session" \in expired
  /\ state' = "ending"
  /\ why' = IF why = "none" THEN "limit" ELSE why
  /\ IF mode = "vnc"
     THEN pc' = "drain" /\ UNCHANGED <<toClient, closed>>
     ELSE Send(<<>>, "done")
  /\ UNCHANGED <<loop, outside, buffers, pipes, bye, taken>>

(* The 50 turns are never used up: the first ends the redirector.          *)
Drain ==
  /\ pc = "drain"
  /\ draining' = TRUE
  /\ pc' = IF Active THEN "advance" ELSE "stopper"
  /\ UNCHANGED <<outside, buffers, pipes, sock, mode, state, expired, why>>

(* The script that stops the server, if it is installed.                   *)
RunStopper ==
  /\ pc = "stopper"
  /\ server' \in {server, "ended"}
  /\ pc' = "done"
  /\ UNCHANGED <<loop, buffers, pipes, sock, state, client, asked, heard,
                 answered, why>>

Jail == LaunchVNC \/ Loop \/ GoesOn \/ LimitStops \/ Drain \/ RunStopper

-----------------------------------------------------------------------------
(* The two ends and the clock                                              *)

Expires(l) ==
  /\ expired' = expired \cup {l}
  /\ UNCHANGED <<outside, buffers, pipes, sock, where, mode, draining>>

ClientSends ==
  /\ client = "open" /\ ~closed /\ ~bye
  /\ asked < MaxChunks
  /\ asked' = asked + 1
  /\ fromClient' = Append(fromClient, asked')
  /\ UNCHANGED <<loop, buffers, sock, where, client, server, toServer, heard,
                 fromServer, answered>>

ClientLeaves ==
  /\ client' = "gone"
  /\ UNCHANGED <<loop, buffers, pipes, sock, where, asked, server, heard,
                 answered>>

ServerStarts ==
  /\ server = "absent"
  /\ server' = "up"
  /\ UNCHANGED <<loop, buffers, pipes, sock, where, client, asked, heard,
                 answered>>

ServerAnswers ==
  /\ server = "up" /\ state = "connected"
  /\ answered < MaxChunks
  /\ answered' = answered + 1
  /\ fromServer' = Append(fromServer, answered')
  /\ UNCHANGED <<loop, buffers, sock, where, client, fromClient, asked,
                 server, toServer, heard>>

ServerReads ==
  /\ server = "up" /\ toServer # <<>>
  /\ heard' = Append(heard, Head(toServer))
  /\ toServer' = Tail(toServer)
  /\ UNCHANGED <<loop, buffers, sock, where, client, fromClient, asked,
                 server, fromServer, answered>>

ServerEnds ==
  /\ server = "up"
  /\ server' = "ended"
  /\ UNCHANGED <<loop, buffers, pipes, sock, where, client, asked, heard,
                 answered>>

Over == pc \in {"threw", "done"}

World ==
  /\ ~Over
  /\ \/ ClientSends \/ ClientLeaves
     \/ ServerStarts \/ ServerAnswers \/ ServerReads \/ ServerEnds
     \/ \E l \in {"connect", "session"} : Expires(l)

Next == Advance \/ Jail \/ World

Spec == Init /\ [][Next]_vars

(* The process is scheduled, the time of the session runs out, the loop    *)
(* comes by in a new second, and a server that keeps the redirector in     *)
(* write() reads or is ended (the clean-up of the monitor kills it).       *)
FairSpec ==
  /\ Spec
  /\ WF_vars(Advance) /\ WF_vars(Jail) /\ SF_vars(LimitStops)
  /\ WF_vars(~Over /\ Expires("session"))
  /\ WF_vars(pc = "write" /\ (ServerReads \/ ServerEnds))

-----------------------------------------------------------------------------
(* Properties                                                              *)

FirstChunks(n) == [i \in 1 .. n |-> i]

(* RedirectorVNC and RedirectorWebServer pass on what the client sends     *)
(* from its first byte, the headers of a request included, in order and    *)
(* once, however the reads and writes cut it.                              *)
RequestIsWhole ==
  state = "connected" =>
    heard \o toServer \o SubSeq(netbuf, put + 1, Len(netbuf)) = FirstChunks(taken)

(* A session that ends with its server has given the client all that the   *)
(* server sent.                                                            *)
AnswerIsWhole ==
  /\ IsPrefix(toClient, FirstChunks(answered))
  /\ why = "server" /\ Over /\ client = "open" => toClient = FirstChunks(answered)

(* A session does not return without telling its client that it is over:   *)
(* a Close frame, or a closed socket.  The passthrough leaves that to the  *)
(* end of its process when the time limit stops it.                        *)
ClientIsTold ==
  pc \in {"stopper", "done"} => closed \/ bye \/ (mode = "web" /\ why = "limit")

(* The session ends, whatever the client and the server do.                *)
SessionEnds == <>Over
=============================================================================
