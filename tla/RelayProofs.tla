---------------------------- MODULE RelayProofs -----------------------------
(***************************************************************************)
(* A relayed session loses, repeats and reorders nothing in either         *)
(* direction, whatever the sizes of the buffers and however reads and      *)
(* writes cut the streams, and it does not end behind its client's back.   *)
(***************************************************************************)
EXTENDS Relay, TLAPS, SequenceTheorems

-----------------------------------------------------------------------------
(* Chunks a + 1 to b of a stream.                                          *)
Run(a, b) == [i \in 1 .. b - a |-> a + i]

LEMMA RunType ==
  ASSUME NEW a \in Nat, NEW b \in Nat, a <= b
  PROVE  /\ Run(a, b) \in Seq(Nat) /\ Len(Run(a, b)) = b - a
         /\ \A i \in 1 .. b - a : Run(a, b)[i] = a + i
         /\ Run(a, b) = <<>> <=> a = b
  BY DEF Run

LEMMA RunConcat ==
  ASSUME NEW a \in Nat, NEW b \in Nat, NEW c \in Nat, a <= b, b <= c
  PROVE  Run(a, b) \o Run(b, c) = Run(a, c)
<1>1. Run(a, b) \in Seq(Nat) /\ Run(b, c) \in Seq(Nat) /\ Run(a, c) \in Seq(Nat)
  BY DEF Run
<1>2. Len(Run(a, b)) = b - a /\ Len(Run(b, c)) = c - b /\ Len(Run(a, c)) = c - a
  BY DEF Run
<1>3. /\ Run(a, b) \o Run(b, c) \in Seq(Nat)
      /\ Len(Run(a, b) \o Run(b, c)) = c - a
  <2>1. /\ Run(a, b) \o Run(b, c) \in Seq(Nat)
        /\ Len(Run(a, b) \o Run(b, c)) = Len(Run(a, b)) + Len(Run(b, c))
    BY <1>1, ConcatProperties
  <2>2. (b - a) + (c - b) = c - a
    OBVIOUS
  <2>3. QED
    BY <1>2, <2>1, <2>2
<1>4. ASSUME NEW i \in 1 .. c - a
      PROVE  (Run(a, b) \o Run(b, c))[i] = Run(a, c)[i]
  <2>1. CASE i <= b - a
    BY <1>1, <1>2, <2>1 DEF Run
  <2>2. CASE ~(i <= b - a)
    <3>1. i - (b - a) \in 1 .. c - b
      BY <2>2
    <3>2. (Run(a, b) \o Run(b, c))[i] = Run(b, c)[i - (b - a)]
      <4>1. i \in 1 .. (b - a) + (c - b) /\ ~(i <= b - a)
        BY <2>2
      <4>2. i \in 1 .. Len(Run(a, b)) + Len(Run(b, c)) /\ ~(i <= Len(Run(a, b)))
        BY <1>2, <4>1
      <4>3. (Run(a, b) \o Run(b, c))[i] = Run(b, c)[i - Len(Run(a, b))]
        BY <1>1, <4>2, ConcatProperties
      <4>4. QED
        BY <1>2, <4>3
    <3>3. QED
      BY <3>1, <3>2 DEF Run
  <2>3. QED
    BY <2>1, <2>2
<1>5. QED
  BY <1>1, <1>2, <1>3, <1>4, SeqEqual

LEMMA RunAppend ==
  ASSUME NEW a \in Nat, NEW b \in Nat, a <= b
  PROVE  Append(Run(a, b), b + 1) = Run(a, b + 1)
<1>1. Run(a, b) \in Seq(Nat) /\ Run(a, b + 1) \in Seq(Nat)
  BY DEF Run
<1>2. Len(Run(a, b)) = b - a /\ Len(Run(a, b + 1)) = b + 1 - a
  BY DEF Run
<1>3. Append(Run(a, b), b + 1) \in Seq(Nat) /\ Len(Append(Run(a, b), b + 1)) = b + 1 - a
  BY <1>1, <1>2
<1>4. ASSUME NEW i \in 1 .. b + 1 - a
      PROVE  Append(Run(a, b), b + 1)[i] = Run(a, b + 1)[i]
  <2>1. CASE i <= b - a
    BY <1>1, <1>2, <2>1 DEF Run
  <2>2. CASE i = b + 1 - a
    <3>1. Append(Run(a, b), b + 1)[Len(Run(a, b)) + 1] = b + 1
      BY <1>1, AppendProperties
    <3>2. i = Len(Run(a, b)) + 1 /\ Run(a, b + 1)[i] = b + 1
      BY <1>2, <2>2 DEF Run
    <3>3. QED
      BY <3>1, <3>2
  <2>3. i <= b - a \/ i = b + 1 - a
    OBVIOUS
  <2>4. QED
    BY <2>1, <2>2, <2>3
<1>5. QED
  BY <1>1, <1>2, <1>3, <1>4, SeqEqual

LEMMA RunCut ==
  ASSUME NEW a \in Nat, NEW b \in Nat, NEW k \in Nat, a + k <= b
  PROVE  /\ SubSeq(Run(a, b), 1, k) = Run(a, a + k)
         /\ SubSeq(Run(a, b), k + 1, Len(Run(a, b))) = Run(a + k, b)
<1>1. Run(a, b) \in Seq(Nat) /\ Run(a, a + k) \in Seq(Nat) /\ Run(a + k, b) \in Seq(Nat)
  BY DEF Run
<1>2. Len(Run(a, b)) = b - a /\ Len(Run(a, a + k)) = k /\ Len(Run(a + k, b)) = b - a - k
  BY DEF Run
<1>3. SubSeq(Run(a, b), 1, k) = Run(a, a + k)
  <2>1. SubSeq(Run(a, b), 1, k) \in Seq(Nat) /\ Len(SubSeq(Run(a, b), 1, k)) = k
    BY <1>1, <1>2
  <2>2. ASSUME NEW i \in 1 .. k PROVE SubSeq(Run(a, b), 1, k)[i] = Run(a, a + k)[i]
    <3>1. SubSeq(Run(a, b), 1, k)[i] = Run(a, b)[i]
      BY <1>1, <1>2
    <3>2. QED
      BY <3>1 DEF Run
  <2>3. QED
    BY <1>1, <1>2, <2>1, <2>2, SeqEqual
<1>4. SubSeq(Run(a, b), k + 1, b - a) = Run(a + k, b)
  <2>1. /\ SubSeq(Run(a, b), k + 1, b - a) \in Seq(Nat)
        /\ Len(SubSeq(Run(a, b), k + 1, b - a)) = b - a - k
    BY <1>1, <1>2
  <2>2. ASSUME NEW i \in 1 .. b - a - k
        PROVE  SubSeq(Run(a, b), k + 1, b - a)[i] = Run(a + k, b)[i]
    <3>1. SubSeq(Run(a, b), k + 1, b - a)[i] = Run(a, b)[k + i]
      BY <1>1, <1>2
    <3>2. k + i \in 1 .. b - a /\ i \in 1 .. b - (a + k)
      OBVIOUS
    <3>3. Run(a, b)[k + i] = a + (k + i) /\ Run(a + k, b)[i] = (a + k) + i
      BY <3>2 DEF Run
    <3>4. QED
      BY <3>1, <3>3
  <2>3. QED
    BY <1>1, <1>2, <2>1, <2>2, SeqEqual
<1>5. QED
  BY <1>2, <1>3, <1>4

LEMMA RunHead ==
  ASSUME NEW a \in Nat, NEW b \in Nat, a < b
  PROVE  Head(Run(a, b)) = a + 1 /\ Tail(Run(a, b)) = Run(a + 1, b)
<1>1. Run(a, b) \in Seq(Nat) /\ Len(Run(a, b)) = b - a /\ Run(a, b)[1] = a + 1
  BY DEF Run
<1>2. Tail(Run(a, b)) = SubSeq(Run(a, b), 2, Len(Run(a, b)))
  BY <1>1, TailIsSubSeq
<1>3. 1 \in Nat /\ a + 1 <= b
  OBVIOUS
<1>4. SubSeq(Run(a, b), 1 + 1, Len(Run(a, b))) = Run(a + 1, b)
  BY <1>3, RunCut
<1>5. SubSeq(Run(a, b), 2, Len(Run(a, b))) = Run(a + 1, b)
  BY <1>4
<1>6. Head(Run(a, b)) = a + 1
  BY <1>1
<1>7. QED
  BY <1>2, <1>5, <1>6

LEMMA CutType ==
  ASSUME NEW S, NEW s \in Seq(S), NEW k \in Nat, k <= Len(s)
  PROVE  /\ SubSeq(s, 1, k) \in Seq(S) /\ SubSeq(s, k + 1, Len(s)) \in Seq(S)
         /\ Len(SubSeq(s, k + 1, Len(s))) = Len(s) - k
<1>1. \A i \in 1 .. k : s[i] \in S
  BY ElementOfSeq
<1>2. \A i \in k + 1 .. Len(s) : s[i] \in S
  BY ElementOfSeq
<1>3. QED
  BY <1>1, <1>2, SubSeqProperties

-----------------------------------------------------------------------------
(* The invariant.  A turn only moves data while the redirector is          *)
(* connected, and netbuf is handed over piecemeal in write() alone.        *)

Turn == {"poll", "fromServer", "fromClient", "toServer", "write"}

Positions ==
  /\ pc \in Turn => state = "connected"
  /\ pc = "write" => put < Len(netbuf)
  /\ pc \in {"launch", "clock", "loop"} => state # "ending"
  /\ why # "none" => state \in {"ending", "end", "error"}

Counts ==
  /\ asked \in 0 .. MaxChunks /\ answered \in 0 .. MaxChunks
  /\ taken \in 0 .. asked
  /\ fromClient = Run(taken, asked)

(* The server has read h chunks, and t have left netbuf.                   *)
Carried(h, t) ==
  /\ h <= t /\ put <= t
  /\ heard = Run(0, h) /\ toServer = Run(h, t) /\ netbuf = Run(t - put, taken)

RequestInv ==
  /\ state \in {"begin", "connecting"} =>
       /\ netbuf = <<>> /\ heard = <<>> /\ toServer = <<>>
       /\ taken = IF mode = "web" THEN 1 ELSE 0
  /\ state = "connected" => \E h, t \in 0 .. taken : Carried(h, t)

(* g of the d chunks that were received from the server went to a client   *)
(* that has left; one that has not got them all.                           *)
Answered(g, d) ==
  /\ g <= d
  /\ fromServer = Run(d, answered) /\ toClient = Run(0, g)
  /\ client = "open" => g = d
  /\ why = "server" => d = answered

ClosedBehindClient ==
  closed /\ client = "open" => mode = "web" /\ (state \in {"end", "error"} \/ pc = "done")

AnswerInv == ClosedBehindClient /\ \E g, d \in 0 .. answered : Answered(g, d)

ToldInv ==
  /\ state \in {"end", "error"} /\ pc # "advance" => closed \/ bye
  /\ ClientIsTold

IInv == TypeOK /\ Positions /\ Counts /\ RequestInv /\ AnswerInv /\ ToldInv

LEMMA IInvInit == Init => IInv
<1> SUFFICES ASSUME Init PROVE IInv
  OBVIOUS
<1>1. 0 \in Nat /\ 1 \in Nat /\ Run(0, 0) = <<>> /\ Run(1, 1) = <<>>
  BY DEF Run
<1>2. TypeOK
  <2>1. <<>> \in Seq(Chunks) /\ Len(<<>>) = 0 /\ 0 \in 0 .. 0 /\ 0 <= PipeSize
    BY RelayAssumption
  <2>2. put = 0 /\ put \in 0 .. Len(netbuf) /\ Len(toServer) <= PipeSize
    BY <2>1 DEF Init
  <2>3. mode \in Modes /\ pc \in {"launch", "loop"} /\ server \in {"absent", "up"}
    BY DEF Init
  <2>4. /\ netbuf \in Seq(Chunks) /\ fromClient \in Seq(Chunks)
        /\ fromServer \in Seq(Chunks) /\ toServer \in Seq(Chunks)
    BY <2>1 DEF Init
  <2>5. state \in States /\ ready = {} /\ expired = {} /\ why = "none"
    BY DEF Init, States
  <2>6. draining \in BOOLEAN /\ closed \in BOOLEAN /\ bye \in BOOLEAN /\ client = "open"
    BY Zenon DEF Init
  <2>7. ~(put > 0)
    BY <2>2
  <2>8. QED
    BY <2>2, <2>3, <2>4, <2>5, <2>6, <2>7 DEF TypeOK
<1>3. Positions /\ ToldInv
  BY DEF Init, Positions, ToldInv, ClientIsTold, Turn
<1>4. Counts
  BY <1>1, RelayAssumption DEF Init, Counts
<1>5. RequestInv
  BY DEF Init, RequestInv
<1>6. AnswerInv
  <2>1. Answered(0, 0)
    BY <1>1 DEF Init, Answered
  <2>2. QED
    BY <2>1 DEF Init, AnswerInv, ClosedBehindClient
<1>7. QED
  BY <1>2, <1>3, <1>4, <1>5, <1>6 DEF IInv

-----------------------------------------------------------------------------
(* Types and positions                                                     *)

LEMMA ReceiveType ==
  ASSUME TypeOK, NEW k \in Chunks, NEW next, Receive(k, next)
  PROVE  /\ netbuf' \in Seq(Chunks) /\ fromClient' \in Seq(Chunks)
<1>1. k \in Nat /\ k <= Len(fromClient)
  BY RelayAssumption DEF Receive, Chunks
<1>2. netbuf \in Seq(Chunks) /\ fromClient \in Seq(Chunks)
  BY DEF TypeOK
<1>3. SubSeq(fromClient, 1, k) \in Seq(Chunks)
  BY <1>1, <1>2, CutType
<1>4. netbuf \o SubSeq(fromClient, 1, k) \in Seq(Chunks)
  BY <1>2, <1>3, ConcatProperties
<1>5. SubSeq(fromClient, k + 1, Len(fromClient)) \in Seq(Chunks)
  BY <1>1, <1>2, CutType
<1>6. QED
  BY <1>2, <1>4, <1>5 DEF Receive

LEMMA TypeAdvance ==
  ASSUME TypeOK, Positions, Advance
  PROVE  TypeOK' /\ Positions'
<1> USE DEF Positions, Turn, States, Goes, Returns, loop, outside, buffers, pipes, sock
<1>0. netbuf \in Seq(Chunks) /\ (pc # "write" => put = 0) /\ Len(netbuf) \in Nat /\ put \in Nat
  BY DEF TypeOK
<1>1. CASE Begin
  BY <1>1 DEF Begin, TypeOK
<1>2. CASE Connect
  <2>1. netbuf' \in Seq(Chunks) /\ put' = 0 /\ 0 \in 0 .. Len(netbuf')
    <3>1. <<1>> \in Seq(Chunks)
      BY RelayAssumption DEF Chunks
    <3>2. netbuf' \in Seq(Chunks)
      BY <1>0, <1>2, <3>1 DEF Connect
    <3>3. QED
      BY <1>0, <1>2, <3>2 DEF Connect
  <2>2. QED
    BY <1>2, <2>1 DEF Connect, TypeOK
<1>3. CASE Connected
  <2>1. netbuf' \in Seq(Chunks) /\ fromClient' \in Seq(Chunks) /\ put' = 0
    BY <1>0, <1>3, ReceiveType DEF Connected, TypeOK
  <2>2. 0 \in 0 .. Len(netbuf')
    BY <2>1
  <2>3. QED
    BY <1>3, <2>1, <2>2 DEF Connected, Receive, TypeOK
<1>4. CASE Poll
  BY <1>4 DEF Poll, TypeOK
<1>5. CASE FromServer
  <2>1. fromServer' \in Seq(Chunks)
    <3>1. ASSUME NEW k \in 1 .. Len(fromServer)
          PROVE  SubSeq(fromServer, k + 1, Len(fromServer)) \in Seq(Chunks)
      BY CutType DEF TypeOK
    <3>2. QED
      BY <1>5, <3>1 DEF FromServer, TypeOK
  <2>2. QED
    BY <1>5, <2>1 DEF FromServer, Send, TypeOK
<1>6. CASE FromClient
  <2>1. netbuf' \in Seq(Chunks) /\ fromClient' \in Seq(Chunks) /\ put' = 0
    BY <1>0, <1>6, ReceiveType DEF FromClient, ReceiveMeetsEnd, TypeOK
  <2>2. 0 \in 0 .. Len(netbuf')
    BY <2>1
  <2>3. QED
    BY <1>6, <2>1, <2>2 DEF FromClient, Receive, ReceiveMeetsEnd, TypeOK
<1>7. CASE ToServer
  BY <1>0, <1>7 DEF ToServer, TypeOK
<1>8. CASE Write
  <2>1. put < Len(netbuf) /\ put + 1 \in 1 .. Len(netbuf)
    BY <1>0, <1>8 DEF Write
  <2>2. netbuf[put + 1] \in Chunks
    BY <1>0, <2>1, ElementOfSeq
  <2>3. toServer' \in Seq(Chunks) /\ Len(toServer') = Len(toServer) + 1
    BY <1>8, <2>2, AppendProperties DEF Write, TypeOK
  <2>4. Len(toServer') <= PipeSize
    BY <1>8, <2>3, RelayAssumption DEF Write, TypeOK
  <2>5. netbuf' \in Seq(Chunks) /\ put' \in 0 .. Len(netbuf')
    <3>1. <<>> \in Seq(Chunks) /\ Len(<<>>) = 0 /\ 0 \in 0 .. 0
      OBVIOUS
    <3>2. put + 1 # Len(netbuf) => put + 1 \in 0 .. Len(netbuf)
      BY <1>0, <2>1
    <3>3. QED
      BY <1>0, <1>8, <3>1, <3>2 DEF Write
  <2>6. put' > 0 => pc' = "write" /\ put' < Len(netbuf')
    BY <1>0, <1>8, <2>1 DEF Write
  <2>7. pc' = "write" => put' < Len(netbuf')
    BY <1>0, <1>8, <2>1 DEF Write
  <2>8. QED
    BY <1>8, <2>3, <2>4, <2>5, <2>6, <2>7 DEF Write, TypeOK
<1>9. CASE WriteFails
  <2>1. netbuf' \in Seq(Chunks)
    BY <1>0, <1>9, CutType DEF WriteFails, TypeOK
  <2>2. put' = 0 /\ 0 \in 0 .. Len(netbuf')
    BY <1>9, <2>1 DEF WriteFails
  <2>3. QED
    BY <1>9, <2>1, <2>2 DEF WriteFails, TypeOK
<1>10. CASE End
  BY <1>10 DEF End, TypeOK
<1>11. CASE Farewell
  BY <1>11 DEF Farewell, TypeOK
<1>12. QED
  BY <1>1, <1>2, <1>3, <1>4, <1>5, <1>6, <1>7, <1>8, <1>9, <1>10, <1>11 DEF Advance

LEMMA TypeJail ==
  ASSUME TypeOK, Positions, Jail
  PROVE  TypeOK' /\ Positions'
<1> USE DEF TypeOK, Positions, Turn, States, loop, outside, buffers, pipes, sock
<1>1. CASE LaunchVNC
  BY <1>1 DEF LaunchVNC
<1>2. CASE Loop
  BY <1>2 DEF Loop, Active
<1>3. CASE GoesOn
  BY <1>3 DEF GoesOn
<1>4. CASE LimitStops
  BY <1>4 DEF LimitStops, Send
<1>5. CASE Drain
  BY <1>5 DEF Drain, Active
<1>6. CASE RunStopper
  BY <1>6 DEF RunStopper
<1>7. QED
  BY <1>1, <1>2, <1>3, <1>4, <1>5, <1>6 DEF Jail

LEMMA TypeWorld ==
  ASSUME TypeOK, Positions, Counts, World
  PROVE  TypeOK' /\ Positions' /\ Counts'
<1> USE DEF loop, where, outside, buffers, pipes, sock
<1>1. CASE ClientSends
  <2>1. asked' \in 1 .. MaxChunks /\ asked' = asked + 1 /\ taken' = taken /\ taken \in 0 .. asked
        /\ asked \in Nat /\ taken \in Nat /\ taken <= asked /\ fromClient = Run(taken, asked)
    BY <1>1, RelayAssumption DEF ClientSends, Counts
  <2>2. fromClient' = Run(taken', asked')
    <3>1. Append(Run(taken, asked), asked + 1) = Run(taken, asked + 1)
      BY <2>1, RunAppend
    <3>2. QED
      BY <1>1, <2>1, <3>1 DEF ClientSends
  <2>3. fromClient' \in Seq(Chunks)
    BY <1>1, <2>1, AppendProperties DEF ClientSends, Chunks, TypeOK
  <2>4. taken' \in 0 .. asked'
    BY <2>1
  <2>5. Counts'
    BY <1>1, <2>1, <2>2, <2>4 DEF ClientSends, Counts
  <2>6. QED
    BY <1>1, <2>3, <2>5 DEF ClientSends, TypeOK, Positions
<1>2. CASE ClientLeaves \/ ServerStarts \/ ServerEnds
  <2>1. Counts'
    BY <1>2 DEF ClientLeaves, ServerStarts, ServerEnds, Counts
  <2>2. TypeOK'
    <3>1. CASE ClientLeaves
      BY <3>1 DEF ClientLeaves, TypeOK
    <3>2. CASE ServerStarts
      BY <3>2 DEF ServerStarts, TypeOK
    <3>3. CASE ServerEnds
      BY <3>3 DEF ServerEnds, TypeOK
    <3>4. QED
      BY <1>2, <3>1, <3>2, <3>3
  <2>3. QED
    BY <1>2, <2>1, <2>2 DEF ClientLeaves, ServerStarts, ServerEnds, Positions
<1>3. CASE ServerAnswers
  <2>1. answered' \in 1 .. MaxChunks
    BY <1>3, RelayAssumption DEF ServerAnswers, Counts
  <2>2. fromServer' \in Seq(Chunks)
    BY <1>3, <2>1, AppendProperties DEF ServerAnswers, Chunks, TypeOK
  <2>3. Counts'
    BY <1>3, <2>1 DEF ServerAnswers, Counts
  <2>4. QED
    BY <1>3, <2>2, <2>3 DEF ServerAnswers, TypeOK, Positions
<1>4. CASE ServerReads
  <2>1. toServer' \in Seq(Chunks) /\ Len(toServer') = Len(toServer) - 1
    BY <1>4, HeadTailProperties DEF ServerReads, TypeOK
  <2>2. Len(toServer') <= PipeSize
    BY <2>1, RelayAssumption DEF TypeOK
  <2>3. Counts'
    BY <1>4 DEF ServerReads, Counts
  <2>4. QED
    BY <1>4, <2>1, <2>2, <2>3 DEF ServerReads, TypeOK, Positions
<1>5. CASE \E l \in {"connect", "session"} : Expires(l)
  <2>1. Counts'
    BY <1>5 DEF Expires, Counts
  <2>2. QED
    BY <1>5, <2>1 DEF Expires, TypeOK, Positions
<1>6. QED
  BY <1>1, <1>2, <1>3, <1>4, <1>5 DEF World

(* What the server has sent is bounded, and what the client has sent and   *)
(* nobody has received is on the way.                                      *)
LEMMA ReceiveCounts ==
  ASSUME Counts, NEW k \in Chunks, NEW next, Receive(k, next)
  PROVE  /\ k \in Nat /\ taken + k <= asked /\ taken' = taken + k
         /\ SubSeq(fromClient, 1, k) = Run(taken, taken + k)
         /\ fromClient' = Run(taken + k, asked)
<1>1. asked \in Nat /\ taken \in Nat /\ taken <= asked /\ fromClient = Run(taken, asked)
  BY RelayAssumption DEF Counts
<1>2. Len(fromClient) = asked - taken
  BY <1>1, RunType
<1>3. k \in Nat /\ taken + k <= asked /\ taken' = taken + k
  BY <1>1, <1>2, RelayAssumption DEF Receive, Chunks
<1>4. QED
  BY <1>1, <1>3, RunCut DEF Receive

LEMMA CountsNext ==
  ASSUME Counts, Advance \/ Jail
  PROVE  Counts'
<1> USE DEF loop, outside, buffers, pipes, sock
<1>1. CASE UNCHANGED <<asked, answered, taken, fromClient>>
  BY <1>1 DEF Counts
<1>2. ASSUME NEW k \in Chunks, NEW next, Receive(k, next), UNCHANGED <<asked, answered>>
      PROVE  Counts'
  <2>1. taken' \in 0 .. asked'
    BY <1>2, ReceiveCounts, RelayAssumption DEF Counts
  <2>2. fromClient' = Run(taken', asked')
    BY <1>2, ReceiveCounts
  <2>3. QED
    BY <1>2, <2>1, <2>2 DEF Counts
<1>3. CASE Connected
  BY <1>1, <1>2, <1>3 DEF Connected
<1>4. CASE FromClient
  BY <1>1, <1>2, <1>4 DEF FromClient, ReceiveMeetsEnd
<1>5. CASE Advance /\ ~Connected /\ ~FromClient
  BY <1>1, <1>5 DEF Advance, Begin, Connect, Poll, FromServer, ToServer, Write, WriteFails, End,
     Farewell
<1>6. CASE Jail
  BY <1>1, <1>6 DEF Jail, LaunchVNC, Loop, GoesOn, LimitStops, Drain, RunStopper
<1>7. QED
  BY <1>3, <1>4, <1>5, <1>6

-----------------------------------------------------------------------------
(* From the client to the server                                           *)

LEMMA ReceiveCarries ==
  ASSUME TypeOK, Counts, RequestInv, state = "connected", put = 0,
         NEW k \in Chunks, NEW next, Receive(k, next), put' = 0,
         UNCHANGED <<mode, heard, toServer>>
  PROVE  RequestInv'
<1>1. CASE state' = state
  <2>1. PICK h \in 0 .. taken, t \in 0 .. taken : Carried(h, t)
    BY DEF RequestInv
  <2>2. /\ k \in Nat /\ taken' = taken + k /\ taken \in Nat /\ t \in Nat /\ t <= taken
        /\ SubSeq(fromClient, 1, k) = Run(taken, taken + k)
    BY ReceiveCounts, RelayAssumption DEF Counts
  <2>3. netbuf = Run(t, taken) /\ netbuf' = netbuf \o SubSeq(fromClient, 1, k)
    <3>1. t - put = t
      BY <2>2
    <3>2. QED
      BY <1>1, <2>1, <3>1 DEF Carried, Receive, Goes
  <2>4. Run(t, taken) \o Run(taken, taken + k) = Run(t, taken + k)
    <3>1. taken + k \in Nat /\ taken <= taken + k
      BY <2>2
    <3>2. QED
      BY <2>2, <3>1, RunConcat
  <2>5. netbuf' = Run(t - put', taken')
    <3>1. t - put' = t
      BY <2>2
    <3>2. QED
      BY <2>2, <2>3, <2>4, <3>1
  <2>6. h \in 0 .. taken' /\ t \in 0 .. taken'
    BY <2>2
  <2>7. Carried(h, t)'
    BY <2>1, <2>5, <2>6 DEF Carried
  <2>8. QED
    BY <1>1, <2>6, <2>7 DEF RequestInv
<1>2. CASE state' = "ending"
  BY <1>2 DEF RequestInv
<1>3. QED
  BY <1>1, <1>2 DEF Receive, Goes

(* What leaves the streams alone.                                          *)
LEMMA SameRequest ==
  ASSUME RequestInv, UNCHANGED <<mode, netbuf, heard, toServer, taken, put>>,
         state' = state \/ state' \in {"ending", "end", "error"}
         \/ (state = "begin" /\ state' = "connecting")
  PROVE  RequestInv'
  BY DEF RequestInv, Carried

LEMMA RequestAdvance ==
  ASSUME TypeOK, Positions, Counts, RequestInv, Advance
  PROVE  RequestInv'
<1> USE DEF Goes, Returns, loop, outside, buffers, pipes, sock
<1>0. pc # "write" => put = 0
  BY DEF TypeOK
<1>1. CASE Begin \/ Poll \/ FromServer \/ ToServer \/ End \/ Farewell
  BY <1>1, SameRequest DEF Begin, Poll, FromServer, ToServer, End, Farewell
<1>2. CASE Connect
  <2>1. CASE state' = "connected"
    <3>1. Run(0, 1) = <<1>> /\ Run(0, 0) = <<>>
      <4>1. Len(Run(0, 1)) = 1 /\ Run(0, 1)[1] = 1 /\ Run(0, 1) \in Seq(Nat)
        BY DEF Run
      <4>2. Run(0, 0) = <<>>
        BY DEF Run
      <4>3. QED
        BY <4>1, <4>2
    <3>2. taken \in 0 .. 1 /\ netbuf' = Run(0, taken) /\ heard = <<>> /\ toServer = <<>>
      BY <1>2, <2>1, <3>1 DEF Connect, RequestInv
    <3>3. Carried(0, 0)'
      BY <1>0, <1>2, <3>1, <3>2 DEF Connect, Carried
    <3>4. 0 \in 0 .. taken'
      BY <1>2, <3>2 DEF Connect
    <3>5. QED
      BY <2>1, <3>3, <3>4 DEF RequestInv
  <2>2. CASE state' # "connected"
    BY <1>2, <2>2, SameRequest DEF Connect
  <2>3. QED
    BY <2>1, <2>2
<1>3. CASE Connected
  BY <1>0, <1>3, SameRequest, ReceiveCarries DEF Connected
<1>4. CASE FromClient
  <2>1. state = "connected"
    BY <1>4 DEF FromClient, Positions, Turn
  <2>2. QED
    BY <1>0, <1>4, <2>1, SameRequest, ReceiveCarries DEF FromClient, ReceiveMeetsEnd
<1>5. CASE Write \/ WriteFails
  <2>0. state = "connected"
    BY <1>5 DEF Write, WriteFails, Positions, Turn
  <2>1. PICK h \in 0 .. taken, t \in 0 .. taken : Carried(h, t)
    BY <2>0 DEF RequestInv
  <2>2. /\ taken \in Nat /\ h \in Nat /\ t \in Nat /\ put \in Nat /\ h <= t /\ t <= taken
        /\ put <= t /\ t - put \in Nat /\ netbuf = Run(t - put, taken)
    BY <2>1, RelayAssumption DEF Counts, Carried, TypeOK
  <2>3. Len(netbuf) = taken - (t - put)
    <3>1. t - put <= taken
      BY <2>2
    <3>2. QED
      BY <2>2, <3>1, RunType
  <2>4. put < Len(netbuf)
    BY <1>5 DEF Positions, Write, WriteFails
  <2>5. t < taken
    BY <2>2, <2>3, <2>4
  <2>6. CASE Write
    <3>0. PICK u \in Nat : u = t + 1
      BY <2>2
    <3>1. netbuf[put + 1] = u
      BY <2>2, <2>5, <3>0 DEF Run
    <3>2. toServer' = Run(h, u)
      <4>1. Append(Run(h, t), t + 1) = Run(h, t + 1)
        BY <2>2, RunAppend
      <4>2. toServer' = Append(Run(h, t), t + 1)
        BY <2>1, <2>6, <3>0, <3>1 DEF Write, Carried
      <4>3. QED
        BY <3>0, <4>1, <4>2
    <3>3. netbuf' = Run(u - put', taken) /\ put' <= u
      <4>1. CASE put + 1 = Len(netbuf)
        <5>1. u = taken /\ u - 0 = taken
          BY <2>2, <2>3, <3>0, <4>1
        <5>2. Run(taken, taken) = <<>>
          BY <2>2, RunType
        <5>3. QED
          BY <2>2, <2>6, <4>1, <5>1, <5>2 DEF Write
      <4>2. CASE put + 1 # Len(netbuf)
        <5>1. u - (put + 1) = t - put /\ put + 1 <= u
          BY <2>2, <3>0
        <5>2. QED
          BY <2>2, <2>6, <4>2, <5>1 DEF Write
      <4>3. QED
        BY <4>1, <4>2
    <3>4. h \in 0 .. taken' /\ u \in 0 .. taken' /\ h <= u
      BY <2>2, <2>5, <2>6, <3>0 DEF Write
    <3>5. taken' = taken /\ heard' = Run(0, h)
      BY <2>1, <2>6 DEF Write, Carried
    <3>6. Carried(h, u)'
      BY <3>2, <3>3, <3>4, <3>5 DEF Carried
    <3>7. QED
      BY <2>0, <2>6, <3>4, <3>6 DEF Write, RequestInv
  <2>7. CASE WriteFails
    <3>1. netbuf' = Run(t, taken)
      <4>2. (t - put) + put = t /\ (t - put) + put <= taken
        BY <2>2
      <4>1. SubSeq(netbuf, put + 1, Len(netbuf)) = Run((t - put) + put, taken)
        BY <2>2, <4>2, RunCut
      <4>3. QED
        BY <2>7, <4>1, <4>2 DEF WriteFails
    <3>2. t - put' = t /\ put' <= t
      BY <2>2, <2>7 DEF WriteFails
    <3>3. Carried(h, t)'
      BY <2>1, <2>7, <3>1, <3>2 DEF WriteFails, Carried
    <3>4. QED
      BY <2>0, <2>7, <3>3 DEF WriteFails, RequestInv
  <2>8. QED
    BY <1>5, <2>6, <2>7
<1>6. QED
  BY <1>1, <1>2, <1>3, <1>4, <1>5 DEF Advance

LEMMA RequestNext ==
  ASSUME TypeOK, Positions, Counts, RequestInv, [Next]_vars
  PROVE  RequestInv'
<1> USE DEF loop, where, outside, buffers, pipes, sock
<1>1. CASE Jail
  BY <1>1, SameRequest DEF Jail, LaunchVNC, Loop, GoesOn, LimitStops, Drain, RunStopper
<1>2. CASE World /\ ~ServerReads
  BY <1>2, SameRequest DEF World, ClientSends, ClientLeaves, ServerStarts, ServerAnswers,
     ServerEnds, Expires
<1>3. CASE ServerReads
  <2>1. CASE state = "connected"
    <3>1. PICK h \in 0 .. taken, t \in 0 .. taken : Carried(h, t)
      BY <2>1 DEF RequestInv
    <3>2. taken \in Nat /\ h \in Nat /\ t \in Nat /\ h <= t /\ t <= taken /\ toServer = Run(h, t)
      BY <3>1, RelayAssumption DEF Counts, Carried
    <3>3. h < t
      BY <1>3, <3>2, RunType DEF ServerReads
    <3>4. Head(toServer) = h + 1 /\ Tail(toServer) = Run(h + 1, t)
      BY <3>2, <3>3, RunHead
    <3>5. heard' = Run(0, h + 1)
      <4>1. 0 \in Nat /\ 0 <= h
        BY <3>2
      <4>2. Append(Run(0, h), h + 1) = Run(0, h + 1)
        BY <3>2, <4>1, RunAppend
      <4>3. QED
        BY <1>3, <3>1, <3>4, <4>2 DEF ServerReads, Carried
    <3>6. h + 1 \in 0 .. taken' /\ h + 1 <= t
      BY <1>3, <3>2, <3>3 DEF ServerReads
    <3>7. Carried(h + 1, t)'
      BY <1>3, <3>1, <3>4, <3>5, <3>6 DEF ServerReads, Carried
    <3>8. QED
      BY <1>3, <2>1, <3>6, <3>7 DEF ServerReads, RequestInv
  <2>2. CASE state # "connected"
    BY <1>3, <2>2 DEF ServerReads, RequestInv
  <2>3. QED
    BY <2>1, <2>2
<1>4. CASE UNCHANGED vars
  BY <1>4, SameRequest DEF vars
<1>5. QED
  BY <1>1, <1>2, <1>3, <1>4, RequestAdvance DEF Next

-----------------------------------------------------------------------------
(* From the server to the client                                           *)

AnswerOnItsWay == \E g, d \in 0 .. answered : Answered(g, d)

LEMMA SameAnswer ==
  ASSUME AnswerOnItsWay, UNCHANGED <<fromServer, toClient, answered>>,
         client' = client \/ client' = "gone", why' = "server" => why = "server",
         client' \in {"open", "gone"}
  PROVE  AnswerOnItsWay'
  BY DEF AnswerOnItsWay, Answered

LEMMA AnswerFromServer ==
  ASSUME TypeOK, Positions, Counts, ClosedBehindClient, AnswerOnItsWay, FromServer
  PROVE  AnswerOnItsWay'
<1>0. state = "connected" /\ pc = "fromServer" /\ why = "none"
  BY DEF FromServer, Positions, Turn, TypeOK
<1>1. PICK g \in 0 .. answered, d \in 0 .. answered : Answered(g, d)
  BY DEF AnswerOnItsWay
<1>2. /\ answered \in Nat /\ g \in Nat /\ d \in Nat /\ g <= d /\ d <= answered
      /\ fromServer = Run(d, answered) /\ toClient = Run(0, g)
      /\ answered' = answered /\ client' = client
  BY <1>1, RelayAssumption DEF FromServer, Counts, Answered, outside
<1>3. CASE "server" \notin ready
  BY <1>3, SameAnswer DEF FromServer, TypeOK, outside
<1>4. CASE "server" \in ready /\ fromServer = <<>>
  <2>1. d = answered
    BY <1>2, <1>4, RunType
  <2>2. UNCHANGED <<fromServer, toClient, answered, client>>
    BY <1>4 DEF FromServer, outside
  <2>3. Answered(g, d)'
    BY <1>1, <1>2, <2>1, <2>2 DEF Answered
  <2>4. QED
    BY <1>2, <2>3 DEF AnswerOnItsWay
<1>5. CASE "server" \in ready /\ fromServer # <<>>
  <2>1. PICK k \in 1 .. Len(fromServer) :
          /\ fromServer' = SubSeq(fromServer, k + 1, Len(fromServer))
          /\ Send(SubSeq(fromServer, 1, k), "fromClient")
    BY <1>5 DEF FromServer
  <2>2. why' = "none"
    BY <1>0, <1>5 DEF FromServer
  <2>3. Len(fromServer) = answered - d
    BY <1>2, RunType
  <2>4. PICK e \in Nat : e = d + k
    BY <1>2, <2>1
  <2>5. k \in Nat /\ e <= answered /\ d <= e
    BY <1>2, <2>1, <2>3, <2>4
  <2>6. SubSeq(fromServer, 1, k) = Run(d, e) /\ fromServer' = Run(e, answered)
    <3>1. d + k <= answered
      BY <2>4, <2>5
    <3>2. /\ SubSeq(fromServer, 1, k) = Run(d, d + k)
          /\ SubSeq(fromServer, k + 1, Len(fromServer)) = Run(d + k, answered)
      BY ZenonT(60), <1>2, <2>5, <3>1, RunCut
    <3>3. QED
      BY <2>1, <2>4, <3>2
  <2>7. CASE client = "open"
    <3>1. ~closed /\ g = d
      BY <1>0, <1>1, <2>7 DEF ClosedBehindClient, Answered
    <3>2. toClient' = Run(0, g) \o Run(d, e)
      BY <1>2, <2>1, <2>6, <2>7, <3>1 DEF Send
    <3>3. Run(0, d) \o Run(d, e) = Run(0, e)
      <4>1. 0 \in Nat /\ 0 <= d
        BY <1>2
      <4>2. QED
        BY <1>2, <2>4, <2>5, <4>1, RunConcat
    <3>4. Answered(e, e)'
      BY <1>2, <2>2, <2>6, <3>1, <3>2, <3>3 DEF Answered
    <3>5. QED
      BY <1>2, <2>5, <3>4 DEF AnswerOnItsWay
  <2>8. CASE client # "open"
    <3>1. toClient' = toClient
      BY <2>1, <2>8 DEF Send
    <3>2. Answered(g, e)'
      BY <1>2, <2>2, <2>5, <2>6, <2>8, <3>1 DEF Answered
    <3>3. QED
      BY <1>2, <2>5, <3>2 DEF AnswerOnItsWay
  <2>9. QED
    BY <2>7, <2>8
<1>6. QED
  BY <1>3, <1>4, <1>5

LEMMA AnswerServerAnswers ==
  ASSUME TypeOK, Positions, Counts, AnswerOnItsWay, ServerAnswers
  PROVE  AnswerOnItsWay'
<1>0. why = "none" /\ why' = why
  BY DEF ServerAnswers, Positions, where, TypeOK
<1>1. PICK g \in 0 .. answered, d \in 0 .. answered : Answered(g, d)
  BY DEF AnswerOnItsWay
<1>2. /\ answered \in Nat /\ g \in Nat /\ d \in Nat /\ d <= answered
      /\ fromServer = Run(d, answered) /\ toClient' = toClient /\ client' = client
  BY <1>1, RelayAssumption DEF ServerAnswers, Counts, Answered, sock
<1>3. PICK u \in Nat : u = answered + 1
  BY <1>2
<1>4. fromServer' = Run(d, u) /\ answered' = u
  <2>1. Append(Run(d, answered), answered + 1) = Run(d, answered + 1)
    BY <1>2, RunAppend
  <2>2. QED
    BY <1>2, <1>3, <2>1 DEF ServerAnswers
<1>5. Answered(g, d)'
  BY <1>0, <1>1, <1>2, <1>4 DEF Answered
<1>6. g \in 0 .. answered' /\ d \in 0 .. answered'
  BY <1>2, <1>3, <1>4, <1>1
<1>7. QED
  BY <1>5, <1>6 DEF AnswerOnItsWay

LEMMA AnswerNext ==
  ASSUME TypeOK, Positions, Counts, AnswerInv, [Next]_vars
  PROVE  AnswerInv'
<1> USE DEF Goes, Returns, loop, where, outside, buffers, pipes, sock
<1>0. AnswerOnItsWay /\ ClosedBehindClient /\ client \in {"open", "gone"}
  BY DEF AnswerInv, AnswerOnItsWay, TypeOK
<1>1. CASE Advance
  <2>1. AnswerOnItsWay'
    <3>1. CASE FromServer
      BY <1>0, <3>1, AnswerFromServer
    <3>2. CASE ~FromServer
      BY <1>0, <1>1, <3>2, SameAnswer DEF Advance, Begin, Connect, Connected, Poll, FromClient,
         ToServer, Write, WriteFails, End, Farewell, Receive, ReceiveMeetsEnd
    <3>3. QED
      BY <3>1, <3>2
  <2>2. ClosedBehindClient'
    <3>1. CASE Farewell
      BY <1>0, <3>1, RelayAssumption DEF Farewell, ClosedBehindClient, TypeOK
    <3>2. CASE Connected \/ FromClient
      BY <1>0, <3>2 DEF Connected, FromClient, Receive, ReceiveMeetsEnd, ClosedBehindClient,
         Positions, Turn
    <3>3. CASE FromServer
      BY <1>0, <3>3 DEF FromServer, Send, ClosedBehindClient, Positions, Turn
    <3>4. CASE Begin \/ Connect \/ Poll \/ ToServer \/ Write \/ WriteFails \/ End
      BY <1>0, <3>4 DEF Begin, Connect, Poll, ToServer, Write, WriteFails, End,
         ClosedBehindClient, Positions, Turn
    <3>5. QED
      BY <1>1, <3>1, <3>2, <3>3, <3>4 DEF Advance
  <2>3. QED
    BY <2>1, <2>2 DEF AnswerInv, AnswerOnItsWay
<1>2. CASE Jail
  <2>1. toClient' = toClient /\ fromServer' = fromServer /\ answered' = answered
    <3>1. CASE LimitStops
      <4>1. toClient \o <<>> = toClient
        <5>1. \E g \in Nat : toClient = Run(0, g)
          BY <1>0, RelayAssumption DEF AnswerOnItsWay, Answered, Counts
        <5>2. toClient \in Seq(Nat)
          BY <5>1 DEF Run
        <5>3. QED
          BY <5>2, ConcatEmptySeq
      <4>2. QED
        BY <3>1, <4>1 DEF LimitStops, Send
    <3>2. CASE ~LimitStops
      BY <1>2, <3>2 DEF Jail, LaunchVNC, Loop, GoesOn, Drain, RunStopper
    <3>3. QED
      BY <3>1, <3>2
  <2>2. client' = client /\ (why' = "server" => why = "server")
    BY <1>2 DEF Jail, LaunchVNC, Loop, GoesOn, LimitStops, Drain, RunStopper
  <2>3. AnswerOnItsWay'
    BY <1>0, <2>1, <2>2, SameAnswer
  <2>4. ClosedBehindClient'
    <3>1. CASE LimitStops
      BY <1>0, <3>1, RelayAssumption DEF LimitStops, Send, ClosedBehindClient, TypeOK
    <3>2. CASE ~LimitStops
      BY <1>0, <1>2, <3>2 DEF Jail, LaunchVNC, Loop, GoesOn, Drain, RunStopper,
         ClosedBehindClient
    <3>3. QED
      BY <3>1, <3>2
  <2>5. QED
    BY <2>3, <2>4 DEF AnswerInv, AnswerOnItsWay
<1>3. CASE World
  <2>1. ClosedBehindClient'
    BY <1>0, <1>3 DEF World, ClientSends, ClientLeaves, ServerStarts, ServerAnswers, ServerReads,
       ServerEnds, Expires, ClosedBehindClient
  <2>2. CASE ServerAnswers
    BY <1>0, <2>1, <2>2, AnswerServerAnswers DEF AnswerInv, AnswerOnItsWay
  <2>3. CASE ~ServerAnswers
    <3>1. AnswerOnItsWay'
      BY <1>0, <1>3, <2>3, SameAnswer DEF World, ClientSends, ClientLeaves, ServerStarts,
         ServerReads, ServerEnds, Expires
    <3>2. QED
      BY <2>1, <3>1 DEF AnswerInv, AnswerOnItsWay
  <2>4. QED
    BY <2>2, <2>3
<1>4. CASE UNCHANGED vars
  <2>1. AnswerOnItsWay' /\ ClosedBehindClient'
    BY <1>0, <1>4, SameAnswer DEF vars, ClosedBehindClient
  <2>2. QED
    BY <2>1 DEF AnswerInv, AnswerOnItsWay
<1>5. QED
  BY <1>1, <1>2, <1>3, <1>4 DEF Next

-----------------------------------------------------------------------------
(* The client is told                                                      *)

LEMMA ToldNext ==
  ASSUME TypeOK, Positions, ToldInv, [Next]_vars
  PROVE  ToldInv'
<1> USE DEF ToldInv, ClientIsTold, Goes, Returns, loop, where, outside, buffers, pipes, sock
<1>1. CASE Farewell
  BY <1>1, RelayAssumption DEF Farewell, TypeOK
<1>2. CASE Begin \/ Connect \/ Connected \/ Poll \/ FromServer \/ FromClient
  BY <1>2 DEF Begin, Connect, Connected, Poll, FromServer, FromClient, Receive, ReceiveMeetsEnd,
     Send, Positions, Turn
<1>3. CASE ToServer \/ Write \/ WriteFails \/ End
  BY <1>3 DEF ToServer, Write, WriteFails, End, Positions, Turn
<1>4. CASE LimitStops
  BY <1>4, RelayAssumption DEF LimitStops, Send, Positions, TypeOK, States
<1>5. CASE LaunchVNC \/ Loop \/ GoesOn \/ Drain \/ RunStopper
  BY <1>5 DEF LaunchVNC, Loop, GoesOn, Drain, RunStopper, Active
<1>6. CASE World
  BY <1>6 DEF World, ClientSends, ClientLeaves, ServerStarts, ServerAnswers, ServerReads,
     ServerEnds, Expires
<1>7. CASE UNCHANGED vars
  BY <1>7 DEF vars
<1>8. QED
  BY <1>1, <1>2, <1>3, <1>4, <1>5, <1>6, <1>7 DEF Next, Advance, Jail

-----------------------------------------------------------------------------
LEMMA IInvNext == IInv /\ [Next]_vars => IInv'
<1> SUFFICES ASSUME IInv, [Next]_vars PROVE IInv'
  OBVIOUS
<1>1. TypeOK /\ Positions /\ Counts /\ RequestInv /\ AnswerInv /\ ToldInv
  BY DEF IInv
<1>2. (TypeOK /\ Positions /\ Counts)'
  <2>1. CASE UNCHANGED vars
    BY <1>1, <2>1 DEF TypeOK, Positions, Counts, vars
  <2>2. QED
    BY <1>1, <2>1, TypeAdvance, TypeJail, TypeWorld, CountsNext DEF Next
<1>3. RequestInv' /\ AnswerInv' /\ ToldInv'
  BY <1>1, RequestNext, AnswerNext, ToldNext
<1>4. QED
  BY <1>2, <1>3 DEF IInv

(* The relays keep the types of their variables: in particular, no write() *)
(* hands over more than netbuf holds, nor more than the pipe has room for. *)
THEOREM RelayTypeOK == Spec => []TypeOK
<1>1. IInv => TypeOK
  BY DEF IInv
<1>2. QED
  BY <1>1, IInvInit, IInvNext, PTL DEF Spec

(* What the client sends reaches the server from its first byte, in order  *)
(* and once, for every size of the buffers and every cut.                  *)
THEOREM RequestsAreWhole == Spec => []RequestIsWhole
<1>1. ASSUME IInv, state = "connected"
      PROVE  heard \o toServer \o SubSeq(netbuf, put + 1, Len(netbuf)) = FirstChunks(taken)
  <2>1. PICK h \in 0 .. taken, t \in 0 .. taken : Carried(h, t)
    BY <1>1 DEF IInv, RequestInv
  <2>2. /\ taken \in Nat /\ h \in Nat /\ t \in Nat /\ put \in Nat /\ h <= t /\ t <= taken
        /\ t - put \in Nat /\ (t - put) + put = t /\ 0 <= h
    BY <1>1, <2>1, RelayAssumption DEF IInv, Counts, Carried, TypeOK
  <2>3. SubSeq(netbuf, put + 1, Len(netbuf)) = Run(t, taken)
    <3>1. (t - put) + put <= taken
      BY <2>2
    <3>2. SubSeq(netbuf, put + 1, Len(netbuf)) = Run((t - put) + put, taken)
      BY <2>1, <2>2, <3>1, RunCut DEF Carried
    <3>3. QED
      BY <2>2, <3>2
  <2>4. Run(0, h) \o Run(h, t) = Run(0, t)
    BY <2>2, RunConcat
  <2>5. Run(0, t) \o Run(t, taken) = Run(0, taken)
    <3>1. 0 \in Nat /\ 0 <= t
      BY <2>2
    <3>2. QED
      BY <2>2, <3>1, RunConcat
  <2>6. Run(0, taken) = FirstChunks(taken)
    BY <2>2 DEF Run, FirstChunks
  <2>7. QED
    BY <2>1, <2>3, <2>4, <2>5, <2>6 DEF Carried
<1>2. IInv => RequestIsWhole
  BY <1>1 DEF RequestIsWhole
<1>3. QED
  BY <1>2, IInvInit, IInvNext, PTL DEF Spec

(* The client gets nothing but the answer, in order and once, and all of   *)
(* it when the session ends with the server.                               *)
THEOREM AnswersAreWhole == Spec => []AnswerIsWhole
<1>1. IInv => AnswerIsWhole
  <2> SUFFICES ASSUME IInv PROVE AnswerIsWhole
    OBVIOUS
  <2>1. PICK g \in 0 .. answered, d \in 0 .. answered : Answered(g, d)
    BY DEF IInv, AnswerInv
  <2>2. /\ answered \in Nat /\ g \in Nat /\ d \in Nat /\ g <= d /\ d <= answered
        /\ toClient = Run(0, g)
    BY <2>1, RelayAssumption DEF IInv, Counts, Answered
  <2>3. FirstChunks(answered) = Run(0, answered) /\ Len(FirstChunks(answered)) = answered
    BY <2>2 DEF Run, FirstChunks
  <2>4. IsPrefix(toClient, FirstChunks(answered))
    <3>1. Len(toClient) = g /\ SubSeq(toClient, 1, g) = toClient
      BY <2>2, RunType, SubSeqFull
    <3>2. SubSeq(Run(0, answered), 1, g) = Run(0, g)
      <4>1. 0 \in Nat /\ 0 + g = g /\ g <= answered
        BY <2>2
      <4>2. SubSeq(Run(0, answered), 1, g) = Run(0, 0 + g)
        BY ZenonT(60), <2>2, <4>1, RunCut
      <4>3. QED
        BY <4>1, <4>2
    <3>3. QED
      BY <2>2, <2>3, <3>1, <3>2 DEF IsPrefix
  <2>5. why = "server" /\ client = "open" => toClient = FirstChunks(answered)
    BY <2>1, <2>2, <2>3 DEF Answered
  <2>6. QED
    BY <2>4, <2>5 DEF AnswerIsWhole
<1>2. QED
  BY <1>1, IInvInit, IInvNext, PTL DEF Spec

(* No session returns behind the back of its client.                       *)
THEOREM ClientsAreTold == Spec => []ClientIsTold
<1>1. IInv => ClientIsTold
  BY DEF IInv, ToldInv
<1>2. QED
  BY <1>1, IInvInit, IInvNext, PTL DEF Spec
=============================================================================
