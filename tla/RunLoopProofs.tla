--------------------------- MODULE RunLoopProofs ----------------------------
(***************************************************************************)
(* The loops that wait for a program deliver and explain what there is to  *)
(* deliver and to explain, and leave no program behind but where the       *)
(* properties say so; for all sizes of terminals, buffers and limits.      *)
(***************************************************************************)
EXTENDS RunLoop, TLAPS, SequenceTheorems

-----------------------------------------------------------------------------
(* Chunks a + 1 to b of a stream.                                          *)
Run(a, b) == [i \in 1 .. b - a |-> a + i]

LEMMA RunType ==
  ASSUME NEW a \in Nat, NEW b \in Nat, a <= b
  PROVE  /\ Run(a, b) \in Seq(Nat) /\ Len(Run(a, b)) = b - a
         /\ \A i \in 1 .. b - a : Run(a, b)[i] = a + i
         /\ Run(a, b) = <<>> <=> a = b
  BY DEF Run

LEMMA RunConcat ==
  ASSUME NEW a \in Nat, NEW b \in Nat, NEW c \in Nat, a <= b, b <= c
  PROVE  Run(a, b) \o Run(b, c) = Run(a, c)
<1>1. Run(a, b) \in Seq(Nat) /\ Run(b, c) \in Seq(Nat) /\ Run(a, c) \in Seq(Nat)
  BY DEF Run
<1>2. Len(Run(a, b)) = b - a /\ Len(Run(b, c)) = c - b /\ Len(Run(a, c)) = c - a
  BY DEF Run
<1>3. /\ Run(a, b) \o Run(b, c) \in Seq(Nat)
      /\ Len(Run(a, b) \o Run(b, c)) = c - a
  <2>1. /\ Run(a, b) \o Run(b, c) \in Seq(Nat)
        /\ Len(Run(a, b) \o Run(b, c)) = Len(Run(a, b)) + Len(Run(b, c))
    BY <1>1, ConcatProperties
  <2>2. (b - a) + (c - b) = c - a
    OBVIOUS
  <2>3. QED
    BY <1>2, <2>1, <2>2
<1>4. ASSUME NEW i \in 1 .. c - a
      PROVE  (Run(a, b) \o Run(b, c))[i] = Run(a, c)[i]
  <2>1. CASE i <= b - a
    BY <1>1, <1>2, <2>1 DEF Run
  <2>2. CASE ~(i <= b - a)
    <3>1. i - (b - a) \in 1 .. c - b
      BY <2>2
    <3>2. (Run(a, b) \o Run(b, c))[i] = Run(b, c)[i - (b - a)]
      <4>1. i \in 1 .. (b - a) + (c - b) /\ ~(i <= b - a)
        BY <2>2
      <4>2. i \in 1 .. Len(Run(a, b)) + Len(Run(b, c)) /\ ~(i <= Len(Run(a, b)))
        BY <1>2, <4>1
      <4>3. (Run(a, b) \o Run(b, c))[i] = Run(b, c)[i - Len(Run(a, b))]
        BY <1>1, <4>2, ConcatProperties
      <4>4. QED
        BY <1>2, <4>3
    <3>3. QED
      BY <3>1, <3>2 DEF Run
  <2>3. QED
    BY <2>1, <2>2
<1>5. QED
  BY <1>1, <1>2, <1>3, <1>4, SeqEqual

LEMMA RunCut ==
  ASSUME NEW a \in Nat, NEW b \in Nat, NEW k \in Nat, a + k <= b
  PROVE  /\ SubSeq(Run(a, b), 1, k) = Run(a, a + k)
         /\ SubSeq(Run(a, b), k + 1, Len(Run(a, b))) = Run(a + k, b)
<1>1. Run(a, b) \in Seq(Nat) /\ Run(a, a + k) \in Seq(Nat) /\ Run(a + k, b) \in Seq(Nat)
  BY DEF Run
<1>2. Len(Run(a, b)) = b - a /\ Len(Run(a, a + k)) = k /\ Len(Run(a + k, b)) = b - a - k
  BY DEF Run
<1>3. SubSeq(Run(a, b), 1, k) = Run(a, a + k)
  <2>1. SubSeq(Run(a, b), 1, k) \in Seq(Nat) /\ Len(SubSeq(Run(a, b), 1, k)) = k
    BY <1>1, <1>2
  <2>2. ASSUME NEW i \in 1 .. k PROVE SubSeq(Run(a, b), 1, k)[i] = Run(a, a + k)[i]
    <3>1. SubSeq(Run(a, b), 1, k)[i] = Run(a, b)[i]
      BY <1>1, <1>2
    <3>2. QED
      BY <3>1 DEF Run
  <2>3. QED
    BY <1>1, <1>2, <2>1, <2>2, SeqEqual
<1>4. SubSeq(Run(a, b), k + 1, b - a) = Run(a + k, b)
  <2>1. /\ SubSeq(Run(a, b), k + 1, b - a) \in Seq(Nat)
        /\ Len(SubSeq(Run(a, b), k + 1, b - a)) = b - a - k
    BY <1>1, <1>2
  <2>2. ASSUME NEW i \in 1 .. b - a - k
        PROVE  SubSeq(Run(a, b), k + 1, b - a)[i] = Run(a + k, b)[i]
    <3>1. SubSeq(Run(a, b), k + 1, b - a)[i] = Run(a, b)[k + i]
      BY <1>1, <1>2
    <3>2. k + i \in 1 .. b - a /\ i \in 1 .. b - (a + k)
      OBVIOUS
    <3>3. Run(a, b)[k + i] = a + (k + i) /\ Run(a + k, b)[i] = (a + k) + i
      BY <3>2 DEF Run
    <3>4. QED
      BY <3>1, <3>3
  <2>3. QED
    BY <1>1, <1>2, <2>1, <2>2, SeqEqual
<1>5. QED
  BY <1>2, <1>3, <1>4

LEMMA RunFromStart ==
  ASSUME NEW b \in Nat, NEW k \in Nat, k <= b
  PROVE  /\ SubSeq(Run(0, b), 1, k) = Run(0, k)
         /\ SubSeq(Run(0, b), k + 1, Len(Run(0, b))) = Run(k, b)
<1>1. 0 \in Nat /\ 0 + k <= b /\ 0 + k = k
  OBVIOUS
<1>2. /\ SubSeq(Run(0, b), 1, k) = Run(0, 0 + k)
      /\ SubSeq(Run(0, b), k + 1, Len(Run(0, b))) = Run(0 + k, b)
  BY <1>1, RunCut
<1>3. QED
  BY <1>1, <1>2

-----------------------------------------------------------------------------
(* The invariant, by what its parts are needed for.                        *)

Messages == Limits \cup {"cut", "input", "failed", "killed"}

Turning == pc \in {"advance", "drain"}

CountInv == messageBuf \in Seq(Messages) /\ written \in Nat /\ taken \in 0 .. written

(* Where the loops are left, and with what.                                *)
LoopInv ==
  /\ mode # "terminal" => pc # "reap"
  /\ closed => client = "gone"
  /\ mode # "terminal" /\ pc = "drain" => child = "reaped" /\ mode = "batch"
  /\ pc \in {"reap", "returned"} =>
       \/ state = "end" \/ turns >= DrainTurns \/ mode = "vncLaunch"
       \/ mode = "terminal" /\ client = "gone"
  /\ mode = "batch" /\ pc = "returned" => child = "reaped" \/ state = "end"

Marked(m, t) == (Run(0, Half) \o <<Cut>>) \o Run(t - m, t)

(* The buffer is a prefix of the output, or its first half, the mark of    *)
(* the cut and the m last chunks.                                          *)
CutInv ==
  mode # "terminal" =>
    IF outputBufferCuted
    THEN /\ \E m \in Half .. taken :
              netbuf = Marked(m, taken)
         /\ \E i \in DOMAIN messageBuf : \A j \in DOMAIN messageBuf :
              messageBuf[j] = "cut" <=> j = i
    ELSE /\ netbuf = Run(0, taken)
         /\ \A j \in DOMAIN messageBuf : messageBuf[j] # "cut"

ExplainedInv ==
  mode # "terminal" /\ (stopSignal = "KILL" \/ (child = "reaped" /\ status # "ok"))
    => messageBuf # <<>>

(* What has become of the program when its redirector is stopped.          *)
StoppedInv ==
  /\ mode = "batch" /\ ~namespaces =>
       /\ state = "ending" => child # "running"
       /\ state = "end" /\ child = "running" => ~terminal
  /\ mode = "batch" /\ namespaces =>
       /\ child # "running" => inner = "ended"
       /\ state \in {"ending", "end"} => inner # "running" \/ "unmonitored" \in limits
  /\ mode = "terminal" /\ pc = "returned" => child = "reaped"

(* Nothing is left to read, and nobody can write any more.                 *)
Silent == taken = written /\ ~Held

DeliveredInv ==
  /\ mode = "batch" /\ stopSignal = "TERM" =>
       state # "ending" /\ (state = "end" => Silent)
  /\ mode = "terminal" /\ stopSignal = "TERM" /\ client = "open" /\ state \in {"ending", "end"} =>
       \/ Silent \/ "input" \in wire
       \/ Turning /\ \E i \in DOMAIN messageBuf : messageBuf[i] = "input"

(* A terminal's redirector is at rest only after its farewell.             *)
FarewellInv ==
  mode = "terminal" /\ client = "open" /\ ~Turning =>
    /\ state # "ending"
    /\ state = "end" =>
         /\ "close" \in wire
         /\ messageBuf = <<>> \/ (messageBuf = <<"memory">> /\ pc # "wait")

IInv ==
  /\ TypeOK /\ CountInv /\ LoopInv /\ CutInv /\ ExplainedInv /\ StoppedInv /\ DeliveredInv
  /\ FarewellInv

-----------------------------------------------------------------------------
(* The buffer of a batch program                                           *)

LEMMA HalfFacts == Half \in Nat /\ Half >= 1 /\ 2 * Half = BufferLimit /\ BufferLimit \in Nat
  BY RunAssumption DEF Half

LEMMA MarkedFacts ==
  ASSUME NEW t \in Nat, NEW m \in Half .. t, NEW w \in Nat, t <= w
  PROVE  /\ Marked(m, t) \in Seq(0 .. w) /\ Len(Marked(m, t)) = Half + 1 + m
         /\ SubSeq(Marked(m, t), 1, Half) = Run(0, Half)
         /\ SubSeq(Marked(m, t), Len(Marked(m, t)) - Half + 1, Len(Marked(m, t)))
              = Run(t - Half, t)
<1>1. Half \in Nat /\ Half >= 1 /\ m \in Nat /\ Half <= m /\ m <= t /\ t - m \in Nat
  BY HalfFacts
<1> DEFINE N == 0 .. w
           first == Run(0, Half)
           last == Run(t - m, t)
<1>2. first \in Seq(N) /\ Len(first) = Half
  BY <1>1 DEF Run
<1>3. last \in Seq(N) /\ Len(last) = m
  BY <1>1 DEF Run
<1>4. <<Cut>> \in Seq(N) /\ Len(<<Cut>>) = 1
  BY DEF Cut
<1> HIDE DEF N, first, last
<1>5. first \o <<Cut>> \in Seq(N) /\ Len(first \o <<Cut>>) = Half + 1
  BY <1>2, <1>4, ConcatProperties
<1>6. Marked(m, t) = (first \o <<Cut>>) \o last
  BY DEF Marked, first, last
<1>7. Marked(m, t) \in Seq(N) /\ Len(Marked(m, t)) = Half + 1 + m
  <2>1. (first \o <<Cut>>) \o last \in Seq(N)
    BY <1>3, <1>5, ConcatProperties
  <2>2. Len((first \o <<Cut>>) \o last) = Len(first \o <<Cut>>) + Len(last)
    BY <1>3, <1>5, ConcatProperties
  <2>3. QED
    BY <1>3, <1>5, <1>6, <2>1, <2>2
<1>8. SubSeq(Marked(m, t), 1, Half) = first
  <2>1. 1 \in 1 .. Len(first \o <<Cut>>) /\ Half \in 1 .. Len(first \o <<Cut>>)
    BY <1>1, <1>5
  <2>2. SubSeq(Marked(m, t), 1, Half) = SubSeq(first \o <<Cut>>, 1, Half)
    BY <1>3, <1>5, <1>6, <2>1, SubSeqOfConcat1
  <2>3. 1 \in 1 .. Len(first) /\ Half \in 1 .. Len(first)
    BY <1>1, <1>2
  <2>4. SubSeq(first \o <<Cut>>, 1, Half) = SubSeq(first, 1, Half)
    BY <1>2, <1>4, <2>3, SubSeqOfConcat1
  <2>5. SubSeq(first, 1, Half) = first
    BY <1>2, SubSeqFull
  <2>6. QED
    BY <2>2, <2>4, <2>5
<1>9. SubSeq(Marked(m, t), m + 2, Half + 1 + m) = Run(t - Half, t)
  <2> DEFINE start == first \o <<Cut>>
  <2>1. PICK p \in Nat, q \in Nat, d \in Nat, a \in Nat :
          p = m + 2 /\ q = Half + 1 + m /\ d = m - Half /\ a = t - m
    BY <1>1
  <2>2. start \in Seq(N) /\ Len(start) = Half + 1
    BY <1>5
  <2> HIDE DEF start
  <2>3. /\ p \in Len(start) + 1 .. Len(start) + Len(last)
        /\ q \in Len(start) + 1 .. Len(start) + Len(last)
        /\ p - Len(start) = d + 1 /\ q - Len(start) = Len(last)
    BY <1>1, <1>3, <2>1, <2>2
  <2>4. SubSeq(start \o last, p, q) = SubSeq(last, p - Len(start), q - Len(start))
    BY ZenonT(60), <1>3, <2>2, <2>3, SubSeqOfConcat2
  <2>5. SubSeq(last, d + 1, Len(last)) = Run(a + d, t)
    <3>1. a + d <= t
      BY <1>1, <2>1
    <3>2. last = Run(a, t)
      BY <2>1 DEF last
    <3>3. QED
      BY <3>1, <3>2, RunCut
  <2>6. a + d = t - Half
    BY <1>1, <2>1
  <2>7. Marked(m, t) = start \o last
    BY <1>6 DEF start
  <2>8. QED
    BY <2>1, <2>3, <2>4, <2>5, <2>6, <2>7
<1>10. m + 2 = Len(Marked(m, t)) - Half + 1
  BY <1>1, <1>7
<1>11. QED
  BY <1>7, <1>8, <1>9, <1>10 DEF N, first

LEMMA MarkedGrows ==
  ASSUME NEW t \in Nat, NEW m \in Half .. t, NEW u \in Nat, t <= u
  PROVE  Marked(m, t) \o Run(t, u) = Marked(m + (u - t), u)
<1>1. Half \in Nat /\ m \in Nat /\ t - m \in Nat /\ t - m <= t
  BY HalfFacts
<1>2. Run(0, Half) \o <<Cut>> \in Seq(Nat)
  <2>1. Run(0, Half) \in Seq(Nat) /\ <<Cut>> \in Seq(Nat)
    BY <1>1 DEF Run, Cut
  <2>2. QED
    BY <2>1, ConcatProperties
<1>3. Run(t - m, t) \in Seq(Nat) /\ Run(t, u) \in Seq(Nat)
  BY <1>1, RunType
<1> DEFINE start == Run(0, Half) \o <<Cut>>
           last == Run(t - m, t)
           new == Run(t, u)
<1>4. (start \o last) \o new = start \o (last \o new)
  <2> HIDE DEF start, last, new
  <2>1. start \in Seq(Nat) /\ last \in Seq(Nat) /\ new \in Seq(Nat)
    BY <1>2, <1>3 DEF start, last, new
  <2>2. ASSUME NEW x \in Seq(Nat), NEW y \in Seq(Nat), NEW z \in Seq(Nat)
        PROVE  (x \o y) \o z = x \o (y \o z)
    OBVIOUS
  <2>3. QED
    BY <2>1, <2>2
<1>5. last \o new = Run(t - m, u)
  BY <1>1, RunConcat
<1>6. t - m = u - (m + (u - t))
  BY <1>1
<1>7. QED
  BY <1>4, <1>5, <1>6 DEF Marked

LEMMA AddOutputKeeps ==
  ASSUME TypeOK, CountInv, CutInv, mode # "terminal", NEW k \in Nat, k <= InPty,
         AddOutput(Run(taken, taken + k)), taken' = taken + k, UNCHANGED <<mode, written>>
  PROVE  /\ netbuf' \in Seq(0 .. written') /\ Len(netbuf') <= 2 * BufferLimit
         /\ messageBuf' \in Seq(Messages)
         /\ CutInv'
<1>1. PICK u \in Nat : u = taken + k /\ taken <= u /\ u <= written /\ taken' = u
  BY DEF CountInv, InPty
<1>2. taken \in Nat /\ written \in Nat /\ written' = written /\ taken <= written
  BY DEF CountInv
<1> DEFINE overflow == netbuf \o Run(taken, u)
<1>3. messageBuf \in Seq(Messages) /\ Append(messageBuf, "cut") \in Seq(Messages)
  <2>1. messageBuf \in Seq(Messages)
    BY DEF CountInv
  <2>2. "cut" \in Messages
    BY DEF Messages
  <2>3. QED
    BY <2>1, <2>2, AppendProperties
<1>4. Half \in Nat /\ Half >= 1 /\ 2 * Half = BufferLimit /\ BufferLimit \in Nat
  BY HalfFacts
<1>5. CASE outputBufferCuted
  <2>1. PICK m \in Half .. taken : netbuf = Marked(m, taken)
    BY <1>5 DEF CutInv
  <2>2. PICK n \in Half .. u : overflow = Marked(n, u)
    <3>1. m + (u - taken) \in Half .. u
      BY <1>1, <1>2, <1>4
    <3>2. QED
      BY <1>1, <1>2, <2>1, <3>1, MarkedGrows
  <2>3. overflow \in Seq(0 .. written) /\ Len(overflow) = Half + 1 + n
    BY <1>1, <1>2, <2>2, MarkedFacts
  <2>4. netbuf' = overflow \/ netbuf' = Marked(Half, u)
    <3>1. /\ SubSeq(overflow, 1, Half) = Run(0, Half)
          /\ SubSeq(overflow, Len(overflow) - Half + 1, Len(overflow)) = Run(u - Half, u)
      BY <1>1, <1>2, <2>2, MarkedFacts
    <3>2. QED
      BY <1>1, <3>1 DEF AddOutput, Marked
  <2>5. outputBufferCuted' /\ messageBuf' = messageBuf
    BY <1>5 DEF AddOutput
  <2>6. PICK p \in Half .. u : netbuf' = Marked(p, u)
    <3>1. Half \in Half .. u
      BY <1>4, <2>2
    <3>2. QED
      BY <2>2, <2>4, <3>1
  <2>7. netbuf' \in Seq(0 .. written) /\ Len(netbuf') = Half + 1 + p
    BY <1>1, <1>2, <2>6, MarkedFacts
  <2>8. Len(netbuf') <= 2 * BufferLimit
    <3>1. CASE Len(overflow) > 2 * BufferLimit
      <4>1. netbuf' = Marked(Half, u)
        <5>1. /\ SubSeq(overflow, 1, Half) = Run(0, Half)
              /\ SubSeq(overflow, Len(overflow) - Half + 1, Len(overflow)) = Run(u - Half, u)
          BY <1>1, <1>2, <2>2, MarkedFacts
        <5>2. QED
          BY <1>1, <3>1, <5>1 DEF AddOutput, Marked
      <4>2. Half \in Half .. u
        BY <1>4, <2>2
      <4>3. Len(netbuf') = Half + 1 + Half
        BY <1>1, <1>2, <4>1, <4>2, MarkedFacts
      <4>4. QED
        BY <1>4, <4>3
    <3>2. CASE ~(Len(overflow) > 2 * BufferLimit)
      BY <1>1, <1>4, <2>3, <3>2 DEF AddOutput
    <3>3. QED
      BY <3>1, <3>2
  <2>9. CutInv'
    <3>1. \E q \in Half .. taken' : netbuf' = Marked(q, taken')
      BY <1>1, <2>6
    <3>2. mode' = mode
      OBVIOUS
    <3>3. QED
      BY <1>5, <2>5, <3>1, <3>2 DEF CutInv
  <2>10. QED
    BY <1>2, <1>3, <2>5, <2>7, <2>8, <2>9
<1>6. CASE ~outputBufferCuted
  <2>1. netbuf = Run(0, taken) /\ \A j \in DOMAIN messageBuf : messageBuf[j] # "cut"
    BY <1>6 DEF CutInv
  <2>2. overflow = Run(0, u)
    <3>1. 0 \in Nat /\ 0 <= taken
      BY <1>2
    <3>2. QED
      BY <1>1, <1>2, <2>1, <3>1, RunConcat
  <2>3. Run(0, u) \in Seq(0 .. written) /\ Len(Run(0, u)) = u
    BY <1>1, <1>2 DEF Run
  <2>4. CASE Len(overflow) > 2 * BufferLimit
    <3>1. Half \in Half .. u /\ u - Half \in Nat
      BY <1>1, <1>4, <2>2, <2>3, <2>4
    <3>2. SubSeq(overflow, 1, Half) = Run(0, Half)
      <4>1. Half \in Nat /\ Half <= u
        BY <1>4, <3>1
      <4>2. QED
        BY <1>1, <2>2, <4>1, RunFromStart
    <3>3. SubSeq(overflow, Len(overflow) - Half + 1, Len(overflow)) = Run(u - Half, u)
      <4>1. PICK d \in Nat : d = u - Half /\ d <= u
        BY <1>4, <3>1
      <4>2. SubSeq(Run(0, u), d + 1, Len(Run(0, u))) = Run(d, u)
        BY <1>1, <4>1, RunFromStart
      <4>3. Len(overflow) - Half + 1 = d + 1
        BY <2>2, <2>3, <4>1
      <4>4. QED
        BY <2>2, <4>1, <4>2, <4>3
    <3>4. netbuf' = Marked(Half, u)
      BY <1>1, <2>4, <3>2, <3>3 DEF AddOutput, Marked
    <3>5. netbuf' \in Seq(0 .. written) /\ Len(netbuf') = Half + 1 + Half
      BY <1>1, <1>2, <3>1, <3>4, MarkedFacts
    <3>6. Len(netbuf') <= 2 * BufferLimit
      BY <1>4, <3>5
    <3>7. outputBufferCuted' = TRUE /\ messageBuf' = Append(messageBuf, "cut")
      BY <1>1, <1>6, <2>4 DEF AddOutput
    <3>8. \E i \in DOMAIN messageBuf' : \A j \in DOMAIN messageBuf' :
            messageBuf'[j] = "cut" <=> j = i
      <4>1. PICK i \in Nat : i = Len(messageBuf) + 1
        BY <1>3
      <4>2. DOMAIN messageBuf' = 1 .. i /\ DOMAIN messageBuf = 1 .. Len(messageBuf)
        BY <1>3, <3>7, <4>1
      <4>3. messageBuf'[i] = "cut"
        BY <1>3, <3>7, <4>1
      <4>4. ASSUME NEW j \in 1 .. i, j # i PROVE messageBuf'[j] # "cut"
        <5>1. j \in 1 .. Len(messageBuf)
          BY <1>3, <4>1, <4>4
        <5>2. messageBuf'[j] = messageBuf[j]
          BY <1>3, <3>7, <5>1
        <5>3. QED
          BY <2>1, <4>2, <5>1, <5>2
      <4>5. i \in DOMAIN messageBuf'
        BY <4>1, <4>2
      <4>6. QED
        BY <4>2, <4>3, <4>4, <4>5
    <3>9. CutInv'
      <4>1. \E q \in Half .. taken' : netbuf' = Marked(q, taken')
        BY <1>1, <3>1, <3>4
      <4>2. QED
        BY <3>7, <3>8, <4>1 DEF CutInv
    <3>10. QED
      BY <1>2, <1>3, <3>5, <3>6, <3>7, <3>9
  <2>5. CASE ~(Len(overflow) > 2 * BufferLimit)
    <3>1. netbuf' = Run(0, u) /\ UNCHANGED <<messageBuf, outputBufferCuted>>
      BY <1>1, <2>2, <2>5 DEF AddOutput
    <3>2. Len(netbuf') <= 2 * BufferLimit
      BY <1>1, <1>4, <2>2, <2>3, <2>5, <3>1
    <3>3. CutInv'
      BY <1>1, <1>6, <2>1, <3>1 DEF CutInv
    <3>4. QED
      BY <1>2, <1>3, <2>3, <3>1, <3>2, <3>3 DEF TypeOK
  <2>6. QED
    BY <2>4, <2>5
<1>7. QED
  BY <1>5, <1>6 DEF TypeOK

-----------------------------------------------------------------------------
(* Types and counts                                                        *)

LEMMA DrainTypes ==
  ASSUME TypeOK, NEW st, NEW cl, NEW n \in 0 .. DrainTurns, ToDrain(st, cl, n)
  PROVE  turns' \in 0 .. DrainTurns /\ pc' \in {"drain", "reap", "returned"}
<1>1. turns \in 0 .. DrainTurns /\ DrainTurns \in Nat /\ MaxTurns \in {0, DrainTurns}
  BY RunAssumption DEF TypeOK, MaxTurns
<1>2. CASE pc' = "drain" /\ turns' = n + 1 /\ n < MaxTurns
  BY <1>1, <1>2
<1>3. CASE pc' = Out /\ UNCHANGED turns
  BY <1>1, <1>3 DEF Out
<1>4. QED
  BY <1>2, <1>3 DEF ToDrain

LEMMA LoopTypes ==
  ASSUME TypeOK, NEW st, NEW cl, ToLoop(st, cl)
  PROVE  turns' \in 0 .. DrainTurns /\ pc' \in {"advance", "drain", "reap", "returned"}
<1>1. 0 \in 0 .. DrainTurns
  BY RunAssumption
<1>2. CASE ToDrain(st, cl, 0)
  BY <1>1, <1>2, DrainTypes
<1>3. CASE pc' = "advance" /\ UNCHANGED turns
  BY <1>3 DEF TypeOK
<1>4. QED
  BY <1>2, <1>3 DEF ToLoop

LEMMA AdvanceTypes ==
  ASSUME TypeOK, NEW cl, AdvanceEnds(cl) \/ Again
  PROVE  turns' \in 0 .. DrainTurns /\ pc' \in {"advance", "wait", "drain", "reap", "returned"}
<1>1. turns \in 0 .. DrainTurns
  BY DEF TypeOK
<1>2. CASE ToDrain(state, cl, turns)
  BY <1>1, <1>2, DrainTypes
<1>3. CASE Again \/ (pc' = "wait" /\ UNCHANGED turns)
  BY <1>3 DEF Again, TypeOK
<1>4. QED
  BY <1>2, <1>3 DEF AdvanceEnds

LEMMA MessageType ==
  ASSUME CountInv, NEW m \in Messages
  PROVE  Append(messageBuf, m) \in Seq(Messages) /\ Append(messageBuf, m) # <<>>
  BY AppendProperties DEF CountInv

LEMMA TypeAdvance ==
  ASSUME TypeOK, CountInv, CutInv, Advance
  PROVE  TypeOK' /\ CountInv'
<1> USE DEF program, Advancing, States
<1>1. CASE Connect \/ End \/ MeetsEnd
  BY <1>1 DEF Connect, End, MeetsEnd, Again, TypeOK, CountInv, InPty
<1>2. CASE NothingToDo
  <2>1. turns' \in 0 .. DrainTurns /\ pc' \in {"advance", "wait", "drain", "reap", "returned"}
    BY <1>2, AdvanceTypes DEF NothingToDo
  <2>2. QED
    BY <1>2, <2>1 DEF NothingToDo, redirector, TypeOK, CountInv, InPty
<1>3. CASE AddInput
  <2>1. turns' \in 0 .. DrainTurns /\ pc' \in {"advance", "wait", "drain", "reap", "returned"}
    BY <1>3, AdvanceTypes DEF AddInput
  <2>2. programbuf' \in 0 .. InputLimit
    BY <1>3, RunAssumption DEF AddInput, TypeOK
  <2>3. messageBuf' \in Seq(Messages)
    BY <1>3, MessageType DEF AddInput, CountInv, Messages
  <2>4. state' \in States
    BY <1>3 DEF AddInput, TypeOK
  <2>5. QED
    BY <1>3, <2>1, <2>2, <2>3, <2>4 DEF AddInput, TypeOK, CountInv, InPty
<1>4. CASE ClientIsLost
  <2>1. turns' \in 0 .. DrainTurns /\ pc' \in {"advance", "wait", "drain", "reap", "returned"}
    BY <1>4, AdvanceTypes DEF ClientIsLost
  <2>2. QED
    BY <1>4, <2>1 DEF ClientIsLost, TypeOK, CountInv, InPty
<1>5. CASE AdvanceThrows
  BY <1>5 DEF AdvanceThrows, redirector, TypeOK, CountInv, InPty
<1>6. CASE Farewell
  <2>1. turns' \in 0 .. DrainTurns /\ pc' \in {"advance", "wait", "drain", "reap", "returned"}
    BY <1>6, AdvanceTypes DEF Farewell
  <2>2. <<>> \in Seq(Messages)
    BY EmptySeq
  <2>3. QED
    BY <1>6, <2>1, <2>2 DEF Farewell, SendFrames, TypeOK, CountInv, InPty
<1>7. ASSUME NEW k \in 1 .. PtySize, BatchReads(k) PROVE TypeOK' /\ CountInv'
  <2>0. k \in Nat /\ k <= InPty /\ InPty <= PtySize /\ PtySize \in Nat
    BY <1>7, RunAssumption DEF BatchReads, TypeOK
  <2>1. turns' \in 0 .. DrainTurns /\ pc' \in {"advance", "wait", "drain", "reap", "returned"}
    BY <1>7, AdvanceTypes DEF BatchReads
  <2>2. [i \in 1 .. k |-> taken + i] = Run(taken, taken + k)
    BY <2>0 DEF Run, CountInv
  <2>3. /\ netbuf' \in Seq(0 .. written') /\ Len(netbuf') <= 2 * BufferLimit
        /\ messageBuf' \in Seq(Messages)
    <3>1. mode # "terminal" /\ taken' = taken + k /\ UNCHANGED <<mode, written>>
      BY <1>7 DEF BatchReads
    <3>2. AddOutput(Run(taken, taken + k))
      BY <1>7, <2>2 DEF BatchReads
    <3>3. QED
      BY <2>0, <3>1, <3>2, AddOutputKeeps
  <2>4. outputBufferCuted' \in BOOLEAN
    BY <1>7 DEF BatchReads, AddOutput, TypeOK
  <2>5. taken' \in 0 .. written' /\ written' \in Nat /\ InPty' \in 0 .. PtySize
    BY <1>7, <2>0 DEF BatchReads, CountInv, TypeOK, InPty
  <2>6. QED
    BY <1>7, <2>1, <2>3, <2>4, <2>5 DEF BatchReads, TypeOK, CountInv
<1>8. ASSUME NEW k \in 1 .. PtySize, TerminalReads(k) PROVE TypeOK' /\ CountInv'
  <2>0. k \in Nat /\ k <= InPty /\ InPty <= PtySize /\ PtySize \in Nat
    BY <1>8, RunAssumption DEF TerminalReads, TypeOK
  <2>1. turns' \in 0 .. DrainTurns /\ pc' \in {"advance", "wait", "drain", "reap", "returned"}
    BY <1>8, AdvanceTypes DEF TerminalReads
  <2>2. taken' \in 0 .. written' /\ written' \in Nat /\ InPty' \in 0 .. PtySize
    BY <1>8, <2>0 DEF TerminalReads, CountInv, TypeOK, InPty
  <2>3. QED
    BY ZenonT(60), <1>8, <2>1, <2>2 DEF TerminalReads, SendFrames, TypeOK, CountInv
<1>9. ASSUME NEW k \in 1 .. InputLimit, WriteInput(k) PROVE TypeOK' /\ CountInv'
  <2>1. turns' \in 0 .. DrainTurns /\ pc' \in {"advance", "wait", "drain", "reap", "returned"}
    BY <1>9, AdvanceTypes DEF WriteInput
  <2>2. programbuf' \in 0 .. InputLimit
    BY <1>9, RunAssumption DEF WriteInput, TypeOK
  <2>3. QED
    BY <1>9, <2>1, <2>2 DEF WriteInput, TypeOK, CountInv, InPty
<1>10. QED
  BY <1>1, <1>2, <1>3, <1>4, <1>5, <1>6, <1>7, <1>8, <1>9 DEF Advance

LEMMA TypeWait ==
  ASSUME TypeOK, CountInv, Wait \/ Reap
  PROVE  TypeOK' /\ CountInv'
<1> USE DEF program, redirector, States
<1>0. 0 \in 0 .. DrainTurns
  BY RunAssumption
<1>1. CASE ChildEnded
  <2>1. turns' \in 0 .. DrainTurns /\ pc' \in {"advance", "wait", "drain", "reap", "returned"}
    BY <1>0, <1>1, DrainTypes DEF ChildEnded
  <2>2. status \in {"ok", "failed", "killed"}
    BY <1>1 DEF ChildEnded, TypeOK
  <2>3. messageBuf' \in Seq(Messages)
    BY <1>1, <2>2, MessageType DEF ChildEnded, CountInv, Messages, Limits
  <2>4. QED
    BY <1>1, <2>1, <2>2, <2>3 DEF ChildEnded, TypeOK, CountInv, InPty
<1>2. CASE ChildMissing \/ VNCLaunched
  <2>1. turns' \in 0 .. DrainTurns /\ pc' \in {"advance", "wait", "drain", "reap", "returned"}
    BY <1>0, <1>2, DrainTypes DEF ChildMissing, VNCLaunched
  <2>2. QED
    BY <1>2, <2>1 DEF ChildMissing, VNCLaunched, TypeOK, CountInv, InPty
<1>3. CASE GoesOn
  <2>1. turns' \in 0 .. DrainTurns /\ pc' \in {"advance", "wait", "drain", "reap", "returned"}
    BY <1>3, LoopTypes DEF GoesOn
  <2>2. QED
    BY <1>3, <2>1 DEF GoesOn, TypeOK, CountInv, InPty
<1>4. ASSUME NEW l \in Limits, LimitStops(l) PROVE TypeOK' /\ CountInv'
  <2>1. turns' \in 0 .. DrainTurns /\ pc' \in {"advance", "wait", "drain", "reap", "returned"}
    BY <1>4, LoopTypes DEF LimitStops
  <2>2. messageBuf' \in Seq(Messages)
    BY <1>4, MessageType DEF LimitStops, CountInv, Messages
  <2>3. /\ child' \in {"running", "dying", "zombie", "reaped"}
        /\ status' \in {"none", "ok", "failed", "killed"} /\ others' \in BOOLEAN
        /\ status' = "none" <=> child' \in {"running", "dying"}
    BY <1>4 DEF LimitStops, Running, Signalled, TypeOK
  <2>4. /\ namespaces' \in BOOLEAN
        /\ inner' \in (IF namespaces' THEN {"running", "dying", "ended"} ELSE {"none"})
    BY <1>4 DEF LimitStops, Running, Signalled, TypeOK
  <2>5. state' \in States
    BY <1>4 DEF LimitStops, TypeOK
  <2>6. QED
    BY <1>4, <2>1, <2>2, <2>3, <2>4, <2>5 DEF LimitStops, TypeOK, CountInv, InPty
<1>5. CASE Reap
  BY <1>5 DEF Reap, TypeOK, CountInv, InPty
<1>6. QED
  BY <1>1, <1>2, <1>3, <1>4, <1>5 DEF Wait

LEMMA TypeWorld ==
  ASSUME TypeOK, CountInv, World
  PROVE  TypeOK' /\ CountInv'
<1> USE DEF program, redirector
<1>1. CASE ProgramWrites
  <2>1. /\ written \in Nat /\ taken \in Nat /\ taken' = taken /\ taken <= written
        /\ written' = written + 1 /\ InPty < PtySize /\ PtySize \in Nat /\ InPty = written - taken
    BY <1>1, RunAssumption DEF ProgramWrites, CountInv, InPty
  <2>2. written' \in Nat /\ taken' \in 0 .. written' /\ InPty' \in 0 .. PtySize
    BY <2>1 DEF InPty
  <2>3. netbuf \in Seq(0 .. written')
    <3>1. 0 .. written \subseteq 0 .. written' /\ netbuf \in Seq(0 .. written)
      BY <2>1 DEF TypeOK
    <3>2. QED
      BY <3>1, SeqMonotonic
  <2>4. QED
    BY <1>1, <2>2, <2>3 DEF ProgramWrites, TypeOK, CountInv
<1>2. CASE ProgramForks \/ ProgramClosesTerminal \/ OthersEnd
  <2>1. CASE ProgramForks
    BY <2>1 DEF ProgramForks, TypeOK, CountInv, InPty
  <2>2. CASE ProgramClosesTerminal
    BY ZenonT(60), <2>2 DEF ProgramClosesTerminal, TypeOK, CountInv, InPty
  <2>3. CASE OthersEnd
    <3>1. others' \in BOOLEAN
      BY <2>3 DEF OthersEnd
    <3>2. TypeOK'
      BY <2>3, <3>1 DEF OthersEnd, TypeOK, InPty
    <3>3. CountInv'
      BY <2>3 DEF OthersEnd, CountInv
    <3>4. QED
      BY <3>2, <3>3
  <2>4. QED
    BY <1>2, <2>1, <2>2, <2>3
<1>3. ASSUME NEW st \in {"ok", "failed", "killed"}, ProgramEnds(st) PROVE TypeOK' /\ CountInv'
  BY ZenonT(60), <1>3 DEF ProgramEnds, TypeOK, CountInv, InPty
<1>4. CASE WaiterEnds
  BY <1>4 DEF WaiterEnds, TypeOK, CountInv, InPty
<1>5. ASSUME NEW l \in Limits, RunsOut(l) PROVE TypeOK' /\ CountInv'
  BY <1>5 DEF RunsOut, TypeOK, CountInv, InPty
<1>6. CASE ClientLeaves
  BY <1>6 DEF ClientLeaves, TypeOK, CountInv, InPty
<1>7. QED
  BY <1>1, <1>2, <1>3, <1>4, <1>5, <1>6 DEF World

-----------------------------------------------------------------------------
(* The output of a batch program                                           *)

LEMMA SameOutput ==
  ASSUME CutInv, UNCHANGED <<mode, netbuf, taken, outputBufferCuted, messageBuf>>
  PROVE  CutInv'
  BY DEF CutInv

LEMMA OtherMessage ==
  ASSUME CountInv, CutInv, UNCHANGED <<mode, netbuf, taken, outputBufferCuted>>,
         NEW m \in Messages, m # "cut", messageBuf' = Append(messageBuf, m)
  PROVE  CutInv'
<1>1. messageBuf \in Seq(Messages)
  BY DEF CountInv
<1>2. PICK n \in Nat : n = Len(messageBuf) /\ DOMAIN messageBuf = 1 .. n
  BY <1>1
<1>3. /\ DOMAIN messageBuf' = 1 .. n + 1 /\ messageBuf'[n + 1] # "cut"
      /\ \A j \in 1 .. n : messageBuf'[j] = messageBuf[j]
  BY <1>1, <1>2
<1>4. \A j \in 1 .. n + 1 : j \in 1 .. n \/ j = n + 1
  BY <1>2
<1>5. 1 .. n \subseteq 1 .. n + 1
  BY <1>2
<1>6. (\A j \in 1 .. n : messageBuf[j] # "cut") => \A j \in 1 .. n + 1 : messageBuf'[j] # "cut"
  BY <1>3, <1>4
<1>7. ASSUME NEW i \in 1 .. n, \A j \in 1 .. n : messageBuf[j] = "cut" <=> j = i
      PROVE  \A j \in 1 .. n + 1 : messageBuf'[j] = "cut" <=> j = i
  <2>1. n + 1 # i
    BY <1>2
  <2>2. QED
    BY <1>3, <1>4, <1>7, <2>1
<1>8. QED
  BY SMTT(30), <1>2, <1>3, <1>5, <1>6, <1>7 DEF CutInv

LEMMA CutNext ==
  ASSUME TypeOK, CountInv, CutInv, [Next]_vars
  PROVE  CutInv'
<1> USE DEF program, redirector
<1>1. CASE Advance
  <2>1. CASE mode = "terminal"
    <3>1. mode' = mode
      BY <1>1 DEF Advance, Connect, End, MeetsEnd, NothingToDo, AddInput, ClientIsLost,
         AdvanceThrows, Farewell, BatchReads, TerminalReads, WriteInput
    <3>2. QED
      BY <2>1, <3>1 DEF CutInv
  <2>2. CASE mode # "terminal"
    <3>1. ASSUME NEW k \in 1 .. PtySize, BatchReads(k) PROVE CutInv'
      <4>1. k \in Nat /\ k <= InPty
        BY <3>1, RunAssumption DEF BatchReads
      <4>2. [i \in 1 .. k |-> taken + i] = Run(taken, taken + k)
        BY <4>1 DEF Run, CountInv
      <4>3. mode # "terminal" /\ taken' = taken + k /\ UNCHANGED <<mode, written>>
        BY <3>1 DEF BatchReads
      <4>4. AddOutput(Run(taken, taken + k))
        BY <3>1, <4>2 DEF BatchReads
      <4>5. QED
        BY <4>1, <4>3, <4>4, AddOutputKeeps
    <3>2. CASE Connect \/ End \/ MeetsEnd \/ NothingToDo
      BY <3>2, SameOutput DEF Connect, End, MeetsEnd, NothingToDo
    <3>3. QED
      BY <1>1, <2>2, <3>1, <3>2 DEF Advance, AddInput, ClientIsLost, AdvanceThrows, Farewell,
         TerminalReads, WriteInput
  <2>3. QED
    BY <2>1, <2>2
<1>2. CASE ChildEnded
  <2>1. status \in {"ok", "failed", "killed"}
    BY <1>2 DEF ChildEnded, TypeOK
  <2>2. UNCHANGED <<mode, netbuf, taken, outputBufferCuted>>
    BY <1>2 DEF ChildEnded
  <2>3. \/ messageBuf' = messageBuf
        \/ \E m \in {"memory", "failed", "killed"} : messageBuf' = Append(messageBuf, m)
    BY <1>2, <2>1 DEF ChildEnded
  <2>4. QED
    BY <2>2, <2>3, SameOutput, OtherMessage DEF Messages, Limits
<1>3. CASE ChildMissing \/ VNCLaunched \/ GoesOn \/ Reap
  BY <1>3, SameOutput DEF ChildMissing, VNCLaunched, GoesOn, Reap
<1>4. ASSUME NEW l \in Limits, LimitStops(l) PROVE CutInv'
  <2>1. l \in Messages /\ l # "cut"
    BY DEF Messages, Limits
  <2>2. UNCHANGED <<mode, netbuf, taken, outputBufferCuted>>
    BY <1>4 DEF LimitStops
  <2>3. messageBuf' = messageBuf \/ messageBuf' = Append(messageBuf, l)
    BY <1>4 DEF LimitStops
  <2>4. QED
    BY <2>1, <2>2, <2>3, SameOutput, OtherMessage
<1>5. CASE World
  BY <1>5, SameOutput DEF World, ProgramWrites, ProgramForks, ProgramClosesTerminal, OthersEnd,
     ProgramEnds, WaiterEnds, RunsOut, ClientLeaves
<1>6. CASE UNCHANGED vars
  BY <1>6, SameOutput DEF vars
<1>7. QED
  BY <1>1, <1>2, <1>3, <1>4, <1>5, <1>6 DEF Next, Wait

-----------------------------------------------------------------------------
(* The loops                                                               *)

LEMMA LoopAdvance ==
  ASSUME TypeOK, LoopInv, Advance
  PROVE  LoopInv'
<1> USE DEF program, redirector, Advancing, LoopInv, AdvanceEnds, ToDrain, Active, MaxTurns, Out,
            Again
<1>0. turns \in 0 .. DrainTurns /\ DrainTurns \in Nat
  BY RunAssumption DEF TypeOK
<1>1. CASE Connect \/ End \/ MeetsEnd
  BY <1>1 DEF Connect, End, MeetsEnd
<1>2. CASE NothingToDo
  BY <1>0, <1>2 DEF NothingToDo
<1>3. CASE AddInput
  BY <1>0, <1>3 DEF AddInput
<1>4. CASE ClientIsLost
  BY <1>0, <1>4 DEF ClientIsLost
<1>5. CASE AdvanceThrows
  BY <1>5 DEF AdvanceThrows
<1>6. CASE Farewell
  BY <1>0, <1>6 DEF Farewell, SendFrames, TypeOK
<1>7. ASSUME NEW k \in 1 .. PtySize, BatchReads(k) PROVE LoopInv'
  BY <1>0, <1>7 DEF BatchReads
<1>8. ASSUME NEW k \in 1 .. PtySize, TerminalReads(k) PROVE LoopInv'
  <2>1. mode = "terminal" /\ UNCHANGED <<mode, state, client, child>>
    BY <1>8 DEF TerminalReads
  <2>2. closed' => client' = "gone"
    BY <1>8 DEF TerminalReads, SendFrames, TypeOK
  <2>3. pc' \in {"reap", "returned"} =>
          state' = "end" \/ turns' >= DrainTurns \/ client' = "gone"
    BY <1>0, <1>8, <2>1, <2>2 DEF TerminalReads
  <2>4. QED
    BY <2>1, <2>2, <2>3
<1>9. ASSUME NEW k \in 1 .. InputLimit, WriteInput(k) PROVE LoopInv'
  BY <1>0, <1>9 DEF WriteInput
<1>10. QED
  BY <1>1, <1>2, <1>3, <1>4, <1>5, <1>6, <1>7, <1>8, <1>9 DEF Advance

LEMMA LoopNext ==
  ASSUME TypeOK, LoopInv, [Next]_vars
  PROVE  LoopInv'
<1> USE DEF program, redirector, LoopInv, ToLoop, ToDrain, Active, MaxTurns, Out
<1>0. /\ DrainTurns \in Nat /\ DrainTurns > 0
      /\ mode \in {"batch", "vncLaunch", "terminal"}
  BY RunAssumption DEF TypeOK
<1>1. CASE ChildEnded
  BY <1>0, <1>1 DEF ChildEnded
<1>2. CASE ChildMissing
  BY <1>0, <1>2 DEF ChildMissing
<1>3. CASE VNCLaunched
  BY <1>0, <1>3 DEF VNCLaunched, Running
<1>4. CASE GoesOn
  BY <1>0, <1>4 DEF GoesOn, Running
<1>5. ASSUME NEW l \in Limits, LimitStops(l) PROVE LoopInv'
  BY <1>0, <1>5 DEF LimitStops, Running, Signalled
<1>6. CASE Reap
  BY <1>6 DEF Reap
<1>7. CASE World
  BY <1>7 DEF World, ProgramWrites, ProgramForks, ProgramClosesTerminal, OthersEnd,
     ProgramEnds, WaiterEnds, RunsOut, ClientLeaves, Alive, Waiter, Program
<1>8. CASE UNCHANGED vars
  BY <1>8 DEF vars
<1>9. QED
  BY <1>1, <1>2, <1>3, <1>4, <1>5, <1>6, <1>7, <1>8, LoopAdvance DEF Next, Wait

-----------------------------------------------------------------------------
(* Messages, and what stops a program                                      *)

LEMMA ExplainedNext ==
  ASSUME TypeOK, CountInv, LoopInv, ExplainedInv, [Next]_vars
  PROVE  ExplainedInv'
<1> USE DEF program, redirector, ExplainedInv
<1>1. CASE Advance
  <2>1. UNCHANGED <<mode, stopSignal, child, status>>
    BY <1>1 DEF Advance, Connect, End, MeetsEnd, NothingToDo, AddInput, ClientIsLost,
       AdvanceThrows, Farewell, BatchReads, TerminalReads, WriteInput
  <2>2. mode # "terminal" /\ messageBuf # <<>> => messageBuf' # <<>>
    <3>1. ASSUME NEW k \in 1 .. PtySize, BatchReads(k), messageBuf # <<>> PROVE messageBuf' # <<>>
      <4>1. "cut" \in Messages
        BY DEF Messages
      <4>2. Append(messageBuf, "cut") # <<>>
        BY <4>1, MessageType
      <4>3. QED
        BY <3>1, <4>2 DEF BatchReads, AddOutput
    <3>2. CASE Connect \/ End \/ MeetsEnd \/ NothingToDo
      BY <3>2 DEF Connect, End, MeetsEnd, NothingToDo
    <3>3. QED
      BY <1>1, <3>1, <3>2 DEF Advance, AddInput, ClientIsLost, AdvanceThrows, Farewell,
         TerminalReads, WriteInput
  <2>3. QED
    BY <2>1, <2>2
<1>2. CASE ChildEnded
  <2>1. status \in {"ok", "failed", "killed"}
    BY <1>2 DEF ChildEnded, TypeOK
  <2>2. "memory" \in Messages /\ (status # "ok" => status \in Messages)
    BY <2>1 DEF Messages, Limits
  <2>3. Append(messageBuf, "memory") # <<>> /\ (status # "ok" => Append(messageBuf, status) # <<>>)
    BY <2>2, MessageType
  <2>4. QED
    BY <1>2, <2>3 DEF ChildEnded
<1>3. CASE ChildMissing \/ VNCLaunched \/ GoesOn
  BY <1>3 DEF ChildMissing, VNCLaunched, GoesOn
<1>4. ASSUME NEW l \in Limits, LimitStops(l) PROVE ExplainedInv'
  <2>1. Append(messageBuf, l) # <<>>
    BY MessageType DEF Messages
  <2>2. mode # "terminal" => messageBuf' # <<>>
    BY <1>4, <2>1 DEF LimitStops
  <2>3. QED
    BY <1>4, <2>2 DEF LimitStops
<1>5. CASE Reap
  BY <1>5 DEF Reap, LoopInv
<1>6. CASE World
  BY <1>6 DEF World, ProgramWrites, ProgramForks, ProgramClosesTerminal, OthersEnd,
     ProgramEnds, WaiterEnds, RunsOut, ClientLeaves, Alive, Waiter, Program, TypeOK
<1>7. CASE UNCHANGED vars
  BY <1>7 DEF vars
<1>8. QED
  BY <1>1, <1>2, <1>3, <1>4, <1>5, <1>6, <1>7 DEF Next, Wait

LEMMA StoppedNext ==
  ASSUME TypeOK, LoopInv, StoppedInv, [Next]_vars
  PROVE  StoppedInv'
<1> USE DEF program, redirector, StoppedInv
<1>0. mode \in {"batch", "vncLaunch", "terminal"}
  BY RunAssumption DEF TypeOK
<1>1. CASE Advance
  <2>1. UNCHANGED <<mode, program, limits>>
    BY <1>1 DEF Advance, Connect, End, MeetsEnd, NothingToDo, AddInput, ClientIsLost,
       AdvanceThrows, Farewell, BatchReads, TerminalReads, WriteInput
  <2>2. ~(mode = "terminal" /\ pc' = "returned")
    BY <1>1 DEF Advance, Connect, End, MeetsEnd, NothingToDo, AddInput, ClientIsLost,
       AdvanceThrows, Farewell, BatchReads, TerminalReads, WriteInput, Advancing, Again,
       AdvanceEnds, ToDrain, Out
  <2>3. CASE MeetsEnd
    BY <2>1, <2>2, <2>3 DEF MeetsEnd, Held, Alive, Waiter, Program
  <2>4. CASE ~MeetsEnd
    <3>1. mode = "batch" => \/ state' = state \/ state' = "connected"
                            \/ state = "ending" /\ state' = "end"
      BY <1>1, <2>4 DEF Advance, Connect, End, NothingToDo, AddInput, ClientIsLost,
         AdvanceThrows, Farewell, BatchReads, TerminalReads, WriteInput, Advancing
    <3>2. QED
      BY <2>1, <2>2, <3>1
  <2>5. QED
    BY <2>3, <2>4
<1>2. CASE ChildEnded
  BY <1>2 DEF ChildEnded, ToDrain, Out
<1>3. CASE ChildMissing \/ VNCLaunched \/ GoesOn
  BY <1>3 DEF ChildMissing, VNCLaunched, GoesOn, ToLoop, ToDrain, Out
<1>4. ASSUME NEW l \in Limits, LimitStops(l) PROVE StoppedInv'
  <2>1. UNCHANGED <<mode, terminal, limits, namespaces>> /\ l \in limits
    BY <1>4 DEF LimitStops, Signalled, Limit
  <2>2. ~(mode = "terminal" /\ pc' = "returned")
    BY <1>4 DEF LimitStops, ToLoop, ToDrain, Out
  <2>3. CASE mode = "batch" /\ ~namespaces
    <3>1. state' = "ending" => child' # "running"
      BY <1>4, <2>3 DEF LimitStops, Signalled, Stops
    <3>2. state' = "end" /\ child' = "running" => ~terminal'
      BY <1>4, <2>1, <2>3 DEF LimitStops, Signalled, Running
    <3>3. QED
      BY <2>1, <2>3, <3>1, <3>2
  <2>4. CASE mode = "batch" /\ namespaces
    <3>1. child' = child /\ (inner = "ended" => inner' = "ended")
      BY <1>4, <2>4 DEF LimitStops, Signalled
    <3>2. state' \in {"ending", "end"} => inner' # "running" \/ "unmonitored" \in limits
      BY <1>4, <2>1, <2>4 DEF LimitStops, Signalled, Stops, Soft
    <3>3. QED
      BY <2>1, <2>4, <3>1, <3>2
  <2>5. CASE mode # "batch"
    BY <2>1, <2>2, <2>5
  <2>6. QED
    BY <2>3, <2>4, <2>5
<1>5. CASE Reap
  BY <1>5 DEF Reap, LoopInv
<1>6. CASE World
  BY <1>0, <1>6 DEF World, ProgramWrites, ProgramForks, ProgramClosesTerminal, OthersEnd,
     ProgramEnds, WaiterEnds, RunsOut, ClientLeaves, Alive, Waiter, Program, TypeOK
<1>7. CASE UNCHANGED vars
  BY <1>7 DEF vars
<1>8. QED
  BY <1>1, <1>2, <1>3, <1>4, <1>5, <1>6, <1>7 DEF Next, Wait

-----------------------------------------------------------------------------
(* The last output and the farewell                                        *)

LEMMA SilentStays ==
  ASSUME TypeOK, CountInv, Silent, [Next]_vars, stopSignal' = "TERM"
  PROVE  Silent'
<1> USE DEF program, redirector, Silent, Held, Alive, Waiter, Program
<1>1. CASE Advance
  <2>1. UNCHANGED program
    BY <1>1 DEF Advance, Connect, End, MeetsEnd, NothingToDo, AddInput, ClientIsLost,
       AdvanceThrows, Farewell, BatchReads, TerminalReads, WriteInput
  <2>2. ASSUME NEW k \in 1 .. PtySize, k <= InPty PROVE FALSE
    BY <2>2, RunAssumption DEF InPty, CountInv
  <2>3. taken' = taken
    BY <1>1, <2>2 DEF Advance, Connect, End, MeetsEnd, NothingToDo, AddInput, ClientIsLost,
       AdvanceThrows, Farewell, BatchReads, TerminalReads, WriteInput
  <2>4. QED
    BY <2>1, <2>3
<1>2. CASE ChildEnded \/ ChildMissing \/ VNCLaunched \/ GoesOn
  BY <1>2 DEF ChildEnded, ChildMissing, VNCLaunched, GoesOn
<1>3. ASSUME NEW l \in Limits, LimitStops(l) PROVE FALSE
  BY <1>3 DEF LimitStops
<1>4. CASE Reap
  BY <1>4 DEF Reap
<1>5. CASE World
  BY <1>5 DEF World, ProgramWrites, ProgramForks, ProgramClosesTerminal, OthersEnd,
     ProgramEnds, WaiterEnds, RunsOut, ClientLeaves, TypeOK
<1>6. CASE UNCHANGED vars
  BY <1>6 DEF vars
<1>7. QED
  BY <1>1, <1>2, <1>3, <1>4, <1>5, <1>6 DEF Next, Wait

LEMMA DeliveredNext ==
  ASSUME TypeOK, CountInv, LoopInv, DeliveredInv, [Next]_vars
  PROVE  DeliveredInv'
<1> USE DEF program, redirector
<1> SUFFICES ASSUME stopSignal' = "TERM" PROVE DeliveredInv'
  BY DEF DeliveredInv
<1>0. stopSignal = "TERM" /\ mode' = mode /\ (client' = "open" => client = "open")
  BY DEF Next, Advance, Connect, End, MeetsEnd, NothingToDo, AddInput, ClientIsLost,
     AdvanceThrows, Farewell, BatchReads, TerminalReads, WriteInput, Wait, ChildEnded,
     ChildMissing, VNCLaunched, GoesOn, LimitStops, Reap, World, ProgramWrites, ProgramForks,
     ProgramClosesTerminal, OthersEnd, ProgramEnds, WaiterEnds, RunsOut, ClientLeaves, vars
<1>1. Silent => Silent'
  BY SilentStays
<1>2. CASE mode = "batch"
  <2>1. state # "ending" /\ (state = "end" => Silent)
    BY <1>0, <1>2 DEF DeliveredInv
  <2>2. CASE MeetsEnd
    BY <1>2, <2>2 DEF MeetsEnd, DeliveredInv, Silent, Held, Alive, Waiter, Program, InPty, CountInv
  <2>3. CASE ~MeetsEnd
    <3>1. state' \in {state, "connected"}
      BY <1>2, <2>1, <2>3 DEF Next, Advance, Connect, End, NothingToDo, AddInput, ClientIsLost,
         AdvanceThrows, Farewell, BatchReads, TerminalReads, WriteInput, Advancing, Wait,
         ChildEnded, ChildMissing, VNCLaunched, GoesOn, LimitStops, Reap, World, ProgramWrites,
         ProgramForks, ProgramClosesTerminal, OthersEnd, ProgramEnds, WaiterEnds, RunsOut,
         ClientLeaves, vars
    <3>2. QED
      BY <1>0, <1>1, <1>2, <2>1, <3>1 DEF DeliveredInv
  <2>4. QED
    BY <2>2, <2>3
<1>3. CASE mode = "terminal" /\ client' = "open" /\ state' \in {"ending", "end"}
  <2>0. ~closed /\ client = "open"
    BY <1>0, <1>3 DEF LoopInv
  <2>1. CASE MeetsEnd
    <3>1. Silent'
      BY <2>1 DEF MeetsEnd, Silent, Held, Alive, Waiter, Program, InPty, CountInv
    <3>2. QED
      BY <1>0, <1>3, <3>1 DEF DeliveredInv
  <2>2. CASE AddInput
    <3>1. messageBuf' = Append(messageBuf, "input") /\ pc' = pc /\ Turning
      BY <1>3, <2>2 DEF AddInput, Advancing, Again, Turning
    <3>2. messageBuf \in Seq(Messages)
      BY DEF CountInv
    <3>3. Len(messageBuf) + 1 \in DOMAIN messageBuf' /\ messageBuf'[Len(messageBuf) + 1] = "input"
      BY <3>1, <3>2
    <3>4. Turning'
      BY <3>1 DEF Turning
    <3>5. QED
      BY <1>0, <1>3, <3>3, <3>4 DEF DeliveredInv
  <2>3. CASE Farewell
    <3>1. wire' = wire \cup (ToSet(messageBuf) \cup {"close"}
                \cup (IF taken = 0 THEN {"no output"} ELSE {})) /\ state' = state
      BY <2>0, <2>3 DEF Farewell, SendFrames
    <3>2. (\E i \in DOMAIN messageBuf : messageBuf[i] = "input") => "input" \in wire'
      BY <3>1 DEF ToSet
    <3>3. "input" \in wire => "input" \in wire'
      BY <3>1
    <3>4. QED
      BY <1>0, <1>1, <1>3, <2>0, <3>1, <3>2, <3>3 DEF DeliveredInv
  <2>4. CASE ~MeetsEnd /\ ~AddInput /\ ~Farewell
    <3>1. state \in {"ending", "end"} /\ wire' = wire
      BY <1>0, <1>3, <2>0, <2>4 DEF Next, Advance, Connect, End, NothingToDo, ClientIsLost,
         AdvanceThrows, BatchReads, TerminalReads, WriteInput, Advancing, Wait,
         ChildEnded, ChildMissing, VNCLaunched, GoesOn, LimitStops, Reap, World, ProgramWrites,
         ProgramForks, ProgramClosesTerminal, OthersEnd, ProgramEnds, WaiterEnds, RunsOut,
         ClientLeaves, vars
    <3>2. Turning => pc' = pc /\ messageBuf' = messageBuf
      BY <1>0, <1>3, <2>0, <2>4, <3>1 DEF Next, Advance, Connect, End, NothingToDo, ClientIsLost,
         AdvanceThrows, BatchReads, TerminalReads, WriteInput, Advancing, Wait, Running,
         ChildEnded, ChildMissing, VNCLaunched, GoesOn, LimitStops, Reap, World, ProgramWrites,
         ProgramForks, ProgramClosesTerminal, OthersEnd, ProgramEnds, WaiterEnds, RunsOut,
         ClientLeaves, vars, Turning, Again
    <3>3. QED
      BY <1>0, <1>1, <1>3, <2>0, <3>1, <3>2 DEF DeliveredInv, Turning
  <2>5. QED
    BY <2>1, <2>2, <2>3, <2>4
<1>4. QED
  BY <1>0, <1>2, <1>3, RunAssumption DEF DeliveredInv, TypeOK

LEMMA FarewellNext ==
  ASSUME TypeOK, CountInv, LoopInv, FarewellInv, [Next]_vars
  PROVE  FarewellInv'
<1> USE DEF program, redirector, FarewellInv, Turning
<1>0. /\ pc \in {"advance", "wait", "drain", "reap", "returned"}
      /\ mode \in {"batch", "vncLaunch", "terminal"}
  BY RunAssumption DEF TypeOK
<1>1. CASE Farewell
  <2>1. ASSUME client = "open", mode = "terminal" PROVE "close" \in wire'
    BY <1>1, <2>1 DEF Farewell, SendFrames, LoopInv
  <2>2. UNCHANGED <<mode, client, state>> /\ state = "end" /\ messageBuf' = <<>>
    BY <1>1 DEF Farewell, Advancing
  <2>3. QED
    BY <2>1, <2>2
<1>2. CASE Advance /\ ~Farewell
  <2>1. ASSUME mode' = "terminal", client' = "open", pc' \notin {"advance", "drain"}
        PROVE  state' \notin {"ending", "end"}
    BY <1>2, <2>1 DEF Advance, Connect, End, MeetsEnd, NothingToDo, AddInput, ClientIsLost,
       AdvanceThrows, BatchReads, TerminalReads, WriteInput, Advancing, Again
  <2>2. QED
    BY <2>1
<1>3. CASE ChildEnded \/ ChildMissing \/ VNCLaunched \/ Reap
  BY <1>3 DEF ChildEnded, ChildMissing, VNCLaunched, Reap, ToDrain
<1>4. CASE GoesOn
  BY <1>0, <1>4 DEF GoesOn, Running, ToLoop, ToDrain, Out
<1>5. ASSUME NEW l \in Limits, LimitStops(l) PROVE FarewellInv'
  <2> SUFFICES ASSUME mode' = "terminal", client' = "open", pc' \notin {"advance", "drain"}
               PROVE  /\ state' # "ending"
                      /\ state' = "end" =>
                           /\ "close" \in wire'
                           /\ messageBuf' = <<>> \/ (messageBuf' = <<"memory">> /\ pc' # "wait")
    OBVIOUS
  <2>1. mode = "terminal" /\ client = "open" /\ ~closed /\ pc = "wait" /\ wire' = wire
    BY <1>5 DEF LimitStops, Running, LoopInv
  <2>2. state' = "end" /\ pc' = "reap"
    BY <1>5, <2>1 DEF LimitStops, ToLoop, ToDrain, Active, Out
  <2>3. l = "memory" /\ state = "end"
    BY <1>5, <2>1, <2>2 DEF LimitStops, Stops
  <2>4. messageBuf = <<>> /\ "close" \in wire
    BY <2>1, <2>3
  <2>5. messageBuf' = <<>> \/ messageBuf' = <<"memory">>
    BY <1>5, <2>3, <2>4 DEF LimitStops
  <2>6. QED
    BY <2>1, <2>2, <2>4, <2>5
<1>6. CASE World
  BY <1>6 DEF World, ProgramWrites, ProgramForks, ProgramClosesTerminal, OthersEnd,
     ProgramEnds, WaiterEnds, RunsOut, ClientLeaves
<1>7. CASE UNCHANGED vars
  BY <1>7 DEF vars
<1>8. QED
  BY <1>1, <1>2, <1>3, <1>4, <1>5, <1>6, <1>7 DEF Next, Wait

-----------------------------------------------------------------------------
LEMMA IInvInit == Init => IInv
<1> SUFFICES ASSUME Init PROVE IInv
  OBVIOUS
<1>1. TypeOK
  <2>1. <<>> \in Seq(0 .. 0) /\ Len(<<>>) = 0
    OBVIOUS
  <2>2. netbuf \in Seq(0 .. written) /\ Len(netbuf) <= 2 * BufferLimit
    BY <2>1, RunAssumption DEF Init
  <2>3. InPty \in 0 .. PtySize /\ turns \in 0 .. DrainTurns /\ programbuf \in 0 .. InputLimit
    BY RunAssumption DEF Init, InPty
  <2>4. /\ outputBufferCuted \in BOOLEAN /\ terminal \in BOOLEAN /\ others \in BOOLEAN
        /\ closed \in BOOLEAN
    BY Zenon DEF Init
  <2>5. QED
    BY <2>2, <2>3, <2>4 DEF Init, TypeOK, States
<1>2. CountInv
  <2>1. <<>> \in Seq(Messages)
    BY EmptySeq
  <2>2. QED
    BY <2>1 DEF Init, CountInv
<1>3. LoopInv /\ ExplainedInv /\ StoppedInv /\ DeliveredInv /\ FarewellInv
  BY DEF Init, LoopInv, ExplainedInv, StoppedInv, DeliveredInv, FarewellInv, Turning
<1>4. CutInv
  <2>1. Run(0, 0) = <<>>
    BY DEF Run
  <2>2. netbuf = Run(0, taken) /\ ~outputBufferCuted
    BY <2>1 DEF Init
  <2>3. \A j \in DOMAIN messageBuf : messageBuf[j] # "cut"
    BY DEF Init
  <2>4. QED
    BY <2>2, <2>3 DEF CutInv
<1>5. QED
  BY <1>1, <1>2, <1>3, <1>4 DEF IInv

LEMMA IInvNext == IInv /\ [Next]_vars => IInv'
<1> SUFFICES ASSUME IInv, [Next]_vars PROVE IInv'
  OBVIOUS
<1>1. /\ TypeOK /\ CountInv /\ LoopInv /\ CutInv /\ ExplainedInv /\ StoppedInv /\ DeliveredInv
      /\ FarewellInv
  BY DEF IInv
<1>2. (TypeOK /\ CountInv)'
  <2>1. CASE UNCHANGED vars
    BY <1>1, <2>1 DEF vars, TypeOK, CountInv, InPty
  <2>2. QED
    BY <1>1, <2>1, TypeAdvance, TypeWait, TypeWorld DEF Next
<1>3. LoopInv' /\ CutInv' /\ ExplainedInv' /\ StoppedInv'
  BY <1>1, LoopNext, CutNext, ExplainedNext, StoppedNext
<1>4. DeliveredInv' /\ FarewellInv'
  BY <1>1, DeliveredNext, FarewellNext
<1>5. QED
  BY <1>2, <1>3, <1>4 DEF IInv

(* The loops keep the types of their variables: in particular, the buffer  *)
(* never exceeds twice its limit, nor the last turns their number.         *)
THEOREM RunLoopTypeOK == Spec => []TypeOK
<1>1. IInv => TypeOK
  BY DEF IInv
<1>2. QED
  BY <1>1, IInvInit, IInvNext, PTL DEF Spec

(* All that a program has written is read before run() and runTerminal()   *)
(* return, when the program ends by itself and the client stays.           *)
THEOREM OutputsAreDelivered == Spec => []OutputIsDelivered
<1>1. IInv => OutputIsDelivered
  <2> SUFFICES ASSUME IInv, Returned, EndedByItself, turns < DrainTurns, mode # "vncLaunch",
                      client = "open", "input" \notin wire
               PROVE  taken = written
    BY DEF OutputIsDelivered
  <2>1. state = "end" /\ stopSignal = "TERM" /\ ~Turning /\ mode \in {"batch", "terminal"}
    BY RunAssumption DEF IInv, TypeOK, LoopInv, Returned, EndedByItself, Turning
  <2>2. Silent
    BY <2>1 DEF IInv, DeliveredInv
  <2>3. QED
    BY <2>2 DEF Silent
<1>2. QED
  BY <1>1, IInvInit, IInvNext, PTL DEF Spec

(* addOutput() keeps the first and the last half of its limit, for every   *)
(* even limit and however the output arrives, and says so once.            *)
THEOREM CutsKeepBothEnds == Spec => []CutKeepsBothEnds
<1>1. IInv => CutKeepsBothEnds
  <2> SUFFICES ASSUME IInv, mode # "terminal"
               PROVE  CutKeepsBothEnds
    BY DEF CutKeepsBothEnds
  <2>1. taken \in Nat /\ Half \in Nat
    BY HalfFacts DEF IInv, CountInv
  <2>2. CASE outputBufferCuted
    <3>1. PICK m \in Half .. taken : netbuf = Marked(m, taken)
      BY <2>2 DEF IInv, CutInv
    <3>2. /\ SubSeq(netbuf, 1, Half) = Run(0, Half)
          /\ SubSeq(netbuf, Len(netbuf) - Half + 1, Len(netbuf)) = Run(taken - Half, taken)
      <4>1. taken <= taken
        BY <2>1
      <4>2. QED
        BY <2>1, <3>1, <4>1, MarkedFacts
    <3>3. Run(0, Half) = [i \in 1 .. Half |-> i]
      BY <2>1 DEF Run
    <3>4. Run(taken - Half, taken) = [i \in 1 .. Half |-> taken - Half + i]
      <4>1. taken - (taken - Half) = Half
        BY <2>1
      <4>2. QED
        BY <4>1 DEF Run
    <3>5. \E i \in DOMAIN messageBuf : \A j \in DOMAIN messageBuf :
            messageBuf[j] = "cut" <=> j = i
      BY <2>2 DEF IInv, CutInv
    <3>6. QED
      BY <2>2, <3>2, <3>3, <3>4, <3>5 DEF CutKeepsBothEnds
  <2>3. CASE ~outputBufferCuted
    <3>1. Run(0, taken) = [i \in 1 .. taken |-> i]
      BY <2>1 DEF Run
    <3>2. QED
      BY <2>3, <3>1 DEF IInv, CutInv, CutKeepsBothEnds
  <2>4. QED
    BY <2>2, <2>3
<1>2. QED
  BY <1>1, IInvInit, IInvNext, PTL DEF Spec

(* run() has a message for every end but the program's own.                *)
THEOREM EndsStayExplained == Spec => []EndsAreExplained
<1>1. IInv => EndsAreExplained
  BY DEF IInv, ExplainedInv, EndsAreExplained
<1>2. QED
  BY <1>1, IInvInit, IInvNext, PTL DEF Spec

(* runTerminal() keeps no message from a client that stays.                *)
THEOREM MessagesGetThrough == Spec => []MessagesReachTheClient
<1>1. IInv => MessagesReachTheClient
  <2> SUFFICES ASSUME IInv, mode = "terminal", Returned, client = "open", turns < DrainTurns
               PROVE  messageBuf = <<>> \/ (messageBuf = <<"memory">> /\ "close" \in wire)
    BY DEF MessagesReachTheClient
  <2>1. state = "end" /\ ~Turning
    BY RunAssumption DEF IInv, TypeOK, LoopInv, Returned, Turning
  <2>2. QED
    BY <2>1 DEF IInv, FarewellInv
<1>2. QED
  BY <1>1, IInvInit, IInvNext, PTL DEF Spec

(* No program outlives run() and runTerminal(), but those that the         *)
(* property names.                                                         *)
THEOREM NoProgramRunsOn == Spec => []NothingRunsOn
<1>1. IInv => NothingRunsOn
  <2> SUFFICES ASSUME IInv, Returned, Program = "running"
               PROVE  \/ mode = "vncLaunch"
                      \/ mode = "batch" /\ ~terminal /\ ~namespaces
                      \/ namespaces /\ (mode = "terminal" \/ "unmonitored" \in limits)
    BY DEF NothingRunsOn
  <2>1. CASE mode = "batch"
    <3>1. child = "reaped" \/ state = "end"
      BY <2>1 DEF IInv, LoopInv, Returned
    <3>2. QED
      BY <2>1, <3>1 DEF IInv, StoppedInv, Program, TypeOK
  <2>2. CASE mode = "terminal"
    BY <2>2 DEF IInv, StoppedInv, Program, Returned, TypeOK
  <2>3. QED
    BY <2>1, <2>2, RunAssumption DEF IInv, TypeOK
<1>2. QED
  BY <1>1, IInvInit, IInvNext, PTL DEF Spec
=============================================================================
