--------------------------- MODULE PlatformProofs ---------------------------
(* Theorems about Platform, for all scripts and sizes. *)
EXTENDS PlatformInv, NaturalFacts, SequenceTheorems

-----------------------------------------------------------------------------
(* Lemmas about sizes, calls and sequences *)

\* A DRAM read returns more than one beat; a chunk holds at least one beat.
LEMMA Sizes ==
  /\ BeatWords \in Nat \ {0}
  /\ ReadWords \in Nat /\ ReadWords > BeatWords
  /\ ChunkWords \in Nat /\ ChunkWords >= BeatWords
<1>1. ReadWords \in Nat /\ ReadWords > BeatWords
  <2>1. \A r \in Nat, b \in Nat \ {0} : r >= 2 => r * b \in Nat /\ r * b > b
    OBVIOUS
  <2> QED BY <2>1, SizesAssumption DEF ReadWords
<1>2. ChunkWords \in Nat /\ ChunkWords >= BeatWords
  <2>1. \A c \in Nat \ {0}, b \in Nat \ {0} : c * b \in Nat /\ c * b >= b
    OBVIOUS
  <2> QED BY <2>1, SizesAssumption DEF ChunkWords
<1> QED BY <1>1, <1>2, SizesAssumption

\* Whole reads followed by a marker never fill whole chunks: the receiver
\* thread can tell the end of a program by the length of the transfer alone.
LEMMA MarkerLeavesShortChunk ==
  ASSUME NEW q \in Nat
  PROVE  q * ReadWords + BeatWords # ChunkWords
<1>1. PICK m \in Nat : ChunkBeats = m * ReadBeats
  BY SizesAssumption
<1>2. q * ReadWords + BeatWords = BeatWords * (q * ReadBeats + 1)
  BY SizesAssumption DEF ReadWords
<1>3. ChunkWords = BeatWords * (m * ReadBeats)
  BY <1>1, SizesAssumption DEF ChunkWords
<1>4. q * ReadBeats + 1 # m * ReadBeats
  <2>1. (m - q) * ReadBeats # 1
    <3> SUFFICES \A d \in Int, r \in Nat : r >= 2 => d * r # 1
      BY m - q \in Int, SizesAssumption
    <3> TAKE d \in Int, r \in Nat
    <3> HAVE r >= 2
    <3>1. CASE d <= 0  BY <3>1
    <3>2. CASE d >= 1  BY <3>2
    <3> QED BY <3>1, <3>2
  <2> QED BY <2>1, SizesAssumption
<1>5. \A a, b \in Nat : a # b => BeatWords * a # BeatWords * b
  BY SizesAssumption
<1> QED BY <1>2, <1>3, <1>4, <1>5, SizesAssumption

\* A call a script makes has the operands of its operation.
LEMMA CallTypes ==
  ASSUME calls \in Scripts, at \in 1..Len(calls)
  PROVE  /\ Call \in Calls
         /\ Call.op = "execute" => /\ Call.insts \in Nat \ {0}
                                   /\ Call.reads \in Nat
         /\ Call.op = "receiveData" => Call.words \in Nat
<1>1. calls \in Seq(Calls)
  BY ScriptsAssumption
<1>2. Call \in Calls
  BY <1>1 DEF Call
<1> QED BY <1>2 DEF Calls

\* A function over 1..n is a sequence: the lanes of a packet, the words of a read.
LEMMA FunctionIsSeq ==
  ASSUME NEW S, NEW n \in Nat, NEW f \in [1..n -> S]
  PROVE  f \in Seq(S) /\ Len(f) = n
OBVIOUS

-----------------------------------------------------------------------------
(* Type correctness *)

\* What the card does with a packet keeps its state well-typed.
LEMMA CardTakesType ==
  ASSUME TypeOK,
         NEW packet \in Seq([lane0 : Nat, control : {0, ResetBit, ArefBit}]),
         NEW reads \in Nat,
         CardTakes(packet, reads)
  PROVE  /\ jobs' \in Seq(Nat)
         /\ c2h' \in Seq(Nat)
         /\ nextWord' \in Nat \ {0}
         /\ aref' \in BOOLEAN
         /\ received' \in Seq(Seq(Nat))
<1> DEFINE lanes == [b \in DOMAIN packet |-> packet[b].lane0]
<1>1. lanes \in Seq(Nat)
  <2>1. /\ Len(packet) \in Nat
        /\ DOMAIN packet = 1..Len(packet)
        /\ \A b \in 1..Len(packet) : packet[b] \in [lane0 : Nat, control : {0, ResetBit, ArefBit}]
    BY ElementOfSeq, LenProperties
  <2>2. lanes \in [1..Len(packet) -> Nat]
    BY <2>1
  <2> QED BY <2>1, <2>2, FunctionIsSeq
<1>2. Append(received, lanes) \in Seq(Seq(Nat))
  BY <1>1, AppendProperties DEF TypeOK
<1>3. Append(jobs, reads) \in Seq(Nat)
  BY AppendProperties DEF TypeOK
<1>5. jobs' \in Seq(Nat)
  <2>1. << >> \in Seq(Nat)
    BY EmptySeq
  <2> QED BY <1>3, <2>1 DEF CardTakes, TypeOK
<1>6. received' \in Seq(Seq(Nat))
  BY <1>2 DEF CardTakes, TypeOK
<1>7. aref' \in BOOLEAN /\ UNCHANGED <<c2h, nextWord>>
  BY DEF CardTakes, TypeOK
<1> QED BY <1>5, <1>6, <1>7 DEF TypeOK

\* The platform as its constructor leaves it is well-typed.
LEMMA TypeInitial == Init => TypeOK
<1> SUFFICES ASSUME Init PROVE TypeOK
  OBVIOUS
<1>1. calls \in Seq(Calls) /\ Len(calls) \in Nat
  BY ScriptsAssumption, LenProperties DEF Init
<1>2. << >> \in Seq(Nat) /\ << >> \in Seq(Seq(Nat))
  BY EmptySeq
<1>3. EmptyBuffer \in [1..MaxInsts -> [lane0 : Nat, control : {0, ResetBit, ArefBit}]]
  BY DEF EmptyBuffer, NoBeat
<1>4. calls \in Scripts /\ at = 1 /\ at \in 1..(Len(calls) + 1) /\ pc = "call"
  BY <1>1 DEF Init
<1>5. sendBuffer \in [1..MaxInsts -> [lane0 : Nat, control : {0, ResetBit, ArefBit}]]
  BY <1>3 DEF Init
<1>6. /\ recvBuffer \in Seq(Nat) /\ ring \in Seq(Nat) /\ dst \in Seq(Nat)
      /\ jobs \in Seq(Nat) /\ c2h \in Seq(Nat) /\ received \in Seq(Seq(Nat))
  BY <1>2 DEF Init
<1>7. want = 0 /\ pushed = 0 /\ nextWord = 1 /\ receiver = "none"
  BY DEF Init
<1>8. aref \in BOOLEAN
  BY Zenon DEF Init
<1> QED BY <1>4, <1>5, <1>6, <1>7, <1>8 DEF TypeOK

\* A send buffer is well-typed after a prefix of it is cleared or overwritten.
LEMMA BufferTyped ==
  ASSUME TypeOK, NEW n \in Nat, NEW v \in Nat
  PROVE  LET Lanes == [lane0 : Nat, control : {0, ResetBit, ArefBit}] IN
         /\ [b \in 1..MaxInsts |-> IF b <= n THEN [sendBuffer[b] EXCEPT !.lane0 = v]
                                             ELSE sendBuffer[b]] \in [1..MaxInsts -> Lanes]
         /\ [b \in 1..MaxInsts |-> IF b <= n THEN NoBeat ELSE sendBuffer[b]]
              \in [1..MaxInsts -> Lanes]
         /\ EmptyBuffer \in [1..MaxInsts -> Lanes]
         /\ n \in 1..MaxInsts => /\ SubSeq(sendBuffer, 1, n) \in Seq(Lanes)
                                 /\ SubSeq(sendBuffer, 1, n) # << >>
<1> DEFINE Lanes == [lane0 : Nat, control : {0, ResetBit, ArefBit}]
<1>1. \A b \in 1..MaxInsts : sendBuffer[b] \in Lanes
  BY DEF TypeOK
<1>2. NoBeat \in Lanes
  BY DEF NoBeat
<1>3. \A b \in 1..MaxInsts : [sendBuffer[b] EXCEPT !.lane0 = v] \in Lanes
  BY <1>1
<1>4. n \in 1..MaxInsts => /\ SubSeq(sendBuffer, 1, n) \in Seq(Lanes)
                           /\ SubSeq(sendBuffer, 1, n) # << >>
  <2> SUFFICES ASSUME n \in 1..MaxInsts
               PROVE  /\ SubSeq(sendBuffer, 1, n) \in Seq(Lanes)
                      /\ SubSeq(sendBuffer, 1, n) # << >>
    OBVIOUS
  <2>1. \A i \in 1..n : sendBuffer[i] \in Lanes
    BY <1>1, SizesAssumption
  <2> HIDE DEF Lanes
  <2>2. /\ SubSeq(sendBuffer, 1, n) \in Seq(Lanes)
        /\ Len(SubSeq(sendBuffer, 1, n)) = n
    BY <2>1, SubSeqProperties
  <2>3. Len(SubSeq(sendBuffer, 1, n)) >= 1
    BY <2>2, SizesAssumption
  <2>4. \A seq : Len(seq) >= 1 => seq # << >>
    OBVIOUS
  <2> QED BY <2>2, <2>3, <2>4, Zenon
<1>5. EmptyBuffer \in [1..MaxInsts -> Lanes]
  BY <1>2 DEF EmptyBuffer
<1> QED BY <1>1, <1>2, <1>3, <1>4, <1>5

\* Taking a prefix off a sequence of numbers, and adding it to another one.
LEMMA Split ==
  ASSUME NEW s \in Seq(Nat), NEW k \in 0..Len(s)
  PROVE  /\ SubSeq(s, 1, k) \in Seq(Nat)
         /\ Len(SubSeq(s, 1, k)) = k
         /\ \A i \in 1..k : SubSeq(s, 1, k)[i] = s[i]
         /\ SubSeq(s, k + 1, Len(s)) \in Seq(Nat)
         /\ Len(SubSeq(s, k + 1, Len(s))) = Len(s) - k
         /\ \A i \in 1..(Len(s) - k) : SubSeq(s, k + 1, Len(s))[i] = s[k + i]
<1>1. Len(s) \in Nat /\ \A i \in 1..Len(s) : s[i] \in Nat
  BY ElementOfSeq, LenProperties
<1>2. /\ SubSeq(s, 1, k) \in Seq(Nat)
      /\ Len(SubSeq(s, 1, k)) = IF 1 <= k THEN k - 1 + 1 ELSE 0
      /\ \A i \in 1..(k - 1 + 1) : SubSeq(s, 1, k)[i] = s[1 + i - 1]
  <2>1. \A i \in 1..k : s[i] \in Nat
    BY <1>1
  <2> QED BY <2>1, SubSeqProperties
<1>3. /\ SubSeq(s, k + 1, Len(s)) \in Seq(Nat)
      /\ Len(SubSeq(s, k + 1, Len(s))) =
           IF k + 1 <= Len(s) THEN Len(s) - (k + 1) + 1 ELSE 0
      /\ \A i \in 1..(Len(s) - (k + 1) + 1) : SubSeq(s, k + 1, Len(s))[i] = s[k + 1 + i - 1]
  <2>1. \A i \in (k + 1)..Len(s) : s[i] \in Nat
    BY <1>1
  <2>2. k + 1 \in Int /\ Len(s) \in Int
    BY <1>1
  <2> QED BY <2>1, <2>2, SubSeqProperties
<1> QED BY <1>1, <1>2, <1>3

\* Every call, every step of the receiver thread and every fault keeps the types.
LEMMA TypeInductive == TypeOK /\ [Next]_vars => TypeOK'
<1> SUFFICES ASSUME TypeOK, [Next]_vars PROVE TypeOK'
  OBVIOUS
<1> DEFINE Lanes == [lane0 : Nat, control : {0, ResetBit, ArefBit}]
<1>0. Len(calls) \in Nat
  BY ScriptsAssumption, LenProperties DEF TypeOK
<1>1. CASE Execute
  <2>1. at \in 1..Len(calls) /\ Call.insts \in Nat
    BY <1>0, <1>1, CallTypes DEF TypeOK, Execute, Making
  <2>2. sendBuffer' \in [1..MaxInsts -> Lanes]
    <3>1. at \in Nat
      BY <2>1
    <3> QED BY <1>1, <2>1, <3>1, BufferTyped DEF Execute
  <2>3. /\ UNCHANGED <<calls, at, want, dst, recvVars, ring, cardVars>>
        /\ pc' = "join" /\ Call.op = "execute" /\ Acceptable(Call)
    BY <1>1 DEF Execute, Making
  <2> QED BY <2>1, <2>2, <2>3 DEF TypeOK, Call, recvVars, cardVars
<1>2. CASE ExecuteRejected
  BY <1>2 DEF TypeOK, ExecuteRejected, recvVars, cardVars
<1>3. CASE JoinAndSpawn
  <2>1. << >> \in Seq(Nat)
    BY EmptySeq
  <2> QED BY <1>3, <2>1 DEF TypeOK, JoinAndSpawn, Call, cardVars
<1>4. CASE Send
  <2>1. at \in 1..Len(calls) /\ Call.op = "execute" /\ Acceptable(Call)
    BY <1>0, <1>4 DEF TypeOK, Send
  <2>2. Call.insts \in 1..MaxInsts /\ Call.reads \in Nat /\ Call.insts \in Nat
    <3>1. TypeOK => calls \in Scripts
      BY DEF TypeOK
    <3>2. Call.insts \in Nat \ {0} /\ Call.reads \in Nat
      BY <2>1, <3>1, CallTypes
    <3> QED BY <2>1, <3>2, SizesAssumption DEF Acceptable
  <2>3. /\ SubSeq(sendBuffer, 1, Call.insts) \in Seq(Lanes)
        /\ SubSeq(sendBuffer, 1, Call.insts) # << >>
        /\ [b \in 1..MaxInsts |-> IF b <= Call.insts THEN NoBeat ELSE sendBuffer[b]]
             \in [1..MaxInsts -> Lanes]
    BY <2>2, BufferTyped
  <2>4. CardTakes(SubSeq(sendBuffer, 1, Call.insts), Call.reads)
    BY <1>4 DEF Send
  <2>5. /\ jobs' \in Seq(Nat)
        /\ c2h' \in Seq(Nat)
        /\ nextWord' \in Nat \ {0}
        /\ aref' \in BOOLEAN
        /\ received' \in Seq(Seq(Nat))
    BY <2>2, <2>3, <2>4, CardTakesType
  <2>6. sendBuffer' \in [1..MaxInsts -> Lanes]
    BY <1>4, <2>3 DEF Send
  <2>7. pc' = "call" /\ at' = at + 1 /\ UNCHANGED <<calls, want, dst, recvVars, ring>>
    BY <1>4 DEF Send, Return
  <2>8. at' \in 1..(Len(calls) + 1)
    BY <1>0, <2>1, <2>7
  <2> QED BY <2>5, <2>6, <2>7, <2>8 DEF TypeOK, recvVars
<1>5. CASE ReceiveData
  <2>1. at \in 1..Len(calls) /\ Call.words \in Nat
    BY <1>0, <1>5, CallTypes DEF TypeOK, ReceiveData, Making
  <2> QED BY <1>5, <2>1 DEF TypeOK, ReceiveData, recvVars, cardVars
<1>6. CASE Pop
  <2>1. PICK k \in 1..Minimum(want, Len(ring)) :
          /\ dst' = dst \o SubSeq(ring, 1, k)
          /\ ring' = SubSeq(ring, k + 1, Len(ring))
          /\ want' = want - k
    BY <1>6 DEF Pop
  <2>2. ring \in Seq(Nat) /\ Len(ring) \in Nat /\ want \in Nat /\ dst \in Seq(Nat)
    BY LenProperties DEF TypeOK
  <2>3. k \in 0..Len(ring) /\ want - k \in Nat
    BY <2>2 DEF Minimum
  <2>4. dst' \in Seq(Nat) /\ ring' \in Seq(Nat) /\ want' \in Nat
    <3>1. SubSeq(ring, 1, k) \in Seq(Nat) /\ SubSeq(ring, k + 1, Len(ring)) \in Seq(Nat)
      BY <2>2, <2>3, Split
    <3>2. dst \o SubSeq(ring, 1, k) \in Seq(Nat)
      BY <2>2, <3>1, ConcatProperties
    <3> QED BY <2>1, <2>3, <3>1, <3>2
  <2>5. pc = "pop" /\ UNCHANGED <<calls, at, pc, sendBuffer, recvVars, cardVars>>
    BY <1>6 DEF Pop
  <2> QED BY <2>4, <2>5 DEF TypeOK, recvVars, cardVars
<1>7. CASE ReceiveReturns
  BY <1>0, <1>7 DEF TypeOK, ReceiveReturns, Return, recvVars, cardVars
<1>8. CASE Close
  BY <1>0, <1>8 DEF TypeOK, Close, Making, Return, cardVars
<1>9. ASSUME NEW beat \in Lanes, SendCommand(beat), at <= Len(calls)
      PROVE  TypeOK'
  <2>1. <<beat>> \in Seq(Lanes) /\ <<beat>> # << >>
    OBVIOUS
  <2>2. /\ jobs' \in Seq(Nat)
        /\ c2h' \in Seq(Nat)
        /\ nextWord' \in Nat \ {0}
        /\ aref' \in BOOLEAN
        /\ received' \in Seq(Seq(Nat))
    BY <1>9, <2>1, CardTakesType DEF SendCommand
  <2>3. EmptyBuffer \in [1..MaxInsts -> Lanes]
    BY BufferTyped
  <2>4. /\ sendBuffer' = EmptyBuffer /\ pc' = "call" /\ at' = at + 1
        /\ UNCHANGED <<calls, want, dst, recvVars, ring>>
    BY <1>9 DEF SendCommand, Return
  <2>5. at' \in 1..(Len(calls) + 1)
    BY <1>0, <1>9, <2>4 DEF TypeOK
  <2> QED BY <2>2, <2>3, <2>4, <2>5 DEF TypeOK, recvVars
<1>10. CASE ResetFPGA
  <2>1. [NoBeat EXCEPT !.control = ResetBit] \in Lanes
    BY DEF NoBeat
  <2> QED BY <1>9, <1>10, <2>1 DEF ResetFPGA, Making
<1>11. CASE SetAREF
  <2>1. [lane0 |-> IF Call.on THEN 1 ELSE 0, control |-> ArefBit] \in Lanes
    OBVIOUS
  <2> QED BY <1>9, <1>11, <2>1 DEF SetAREF, Making
<1>12. CASE Destroy
  BY <1>0, <1>12 DEF TypeOK, Destroy, Making, Return, recvVars, cardVars
<1>13. CASE Recv
  <2>1. PICK count \in 1..Len(c2h) :
          /\ recvBuffer' = SubSeq(c2h, 1, count)
          /\ c2h' = SubSeq(c2h, count + 1, Len(c2h))
    BY <1>13 DEF Recv
  <2>2. c2h \in Seq(Nat) /\ count \in 0..Len(c2h)
    BY LenProperties DEF TypeOK
  <2>3. recvBuffer' \in Seq(Nat) /\ c2h' \in Seq(Nat)
    BY <2>1, <2>2, Split
  <2> QED BY <1>13, <2>3 DEF TypeOK, Recv, Call, hostVars
<1>14. CASE Push
  <2>1. PICK k \in 1..Minimum(ToPush(recvBuffer) - pushed, RingCapacity - Len(ring)) :
          /\ ring' = ring \o SubSeq(recvBuffer, pushed + 1, pushed + k)
          /\ pushed' = pushed + k
    BY <1>14 DEF Push
  <2>2. /\ ring \in Seq(Nat) /\ recvBuffer \in Seq(Nat) /\ pushed \in Nat
        /\ Len(recvBuffer) \in Nat /\ Len(ring) \in Nat
    BY LenProperties DEF TypeOK
  <2>3. k \in Nat /\ pushed + k <= Len(recvBuffer)
    BY <2>2, Sizes, SizesAssumption DEF Minimum, ToPush
  <2>4. SubSeq(recvBuffer, pushed + 1, pushed + k) \in Seq(Nat)
    <3>1. \A i \in (pushed + 1)..(pushed + k) : recvBuffer[i] \in Nat
      BY <2>2, <2>3, ElementOfSeq
    <3> QED BY <2>2, <2>3, <3>1, SubSeqProperties
  <2>5. ring' \in Seq(Nat) /\ pushed' \in Nat
    BY <2>1, <2>2, <2>3, <2>4, ConcatProperties
  <2> QED BY <1>14, <2>5 DEF TypeOK, Push, Call, hostVars, cardVars
<1>15. CASE ChunkDone
  <2>1. << >> \in Seq(Nat)
    BY EmptySeq
  <2>2. receiver' \in {"done", "recv"}
    BY <1>15 DEF ChunkDone, LeaveChunk
  <2> QED BY <1>15, <2>1, <2>2 DEF TypeOK, ChunkDone, LeaveChunk, Call, hostVars, cardVars
<1>16. CASE CardRead
  <2>1. c2h' \in Seq(Nat)
    <3>1. [i \in 1..ReadWords |-> nextWord + i - 1] \in [1..ReadWords -> Nat]
      BY Sizes DEF TypeOK
    <3>2. [i \in 1..ReadWords |-> nextWord + i - 1] \in Seq(Nat)
      BY <3>1, Sizes, FunctionIsSeq
    <3> QED BY <1>16, <3>2, ConcatProperties DEF CardRead, TypeOK
  <2>2. jobs' \in Seq(Nat)
    <3>1. Head(jobs) \in Nat /\ Head(jobs) > 0 /\ Tail(jobs) \in Seq(Nat)
      BY <1>16, HeadTailProperties DEF CardRead, TypeOK
    <3>2. <<Head(jobs) - 1>> \in Seq(Nat)
      BY <3>1
    <3> QED BY <1>16, <3>1, <3>2, ConcatProperties DEF CardRead
  <2>3. nextWord' \in Nat \ {0}
    BY <1>16, Sizes DEF CardRead, TypeOK
  <2> QED BY <1>16, <2>1, <2>2, <2>3 DEF TypeOK, CardRead, Call, hostVars, recvVars
<1>17. CASE CardEnds
  <2>1. c2h' \in Seq(Nat)
    <3>1. [i \in 1..BeatWords |-> 0] \in [1..BeatWords -> Nat]
      OBVIOUS
    <3>2. [i \in 1..BeatWords |-> 0] \in Seq(Nat)
      BY <3>1, Sizes, FunctionIsSeq
    <3> QED BY <1>17, <3>2, ConcatProperties DEF CardEnds, TypeOK
  <2>2. jobs' \in Seq(Nat)
    BY <1>17, HeadTailProperties DEF CardEnds, TypeOK
  <2> QED BY <1>17, <2>1, <2>2 DEF TypeOK, CardEnds, Call, hostVars, recvVars
<1>18. CASE WriteFails
  BY <1>18 DEF TypeOK, WriteFails, recvVars, cardVars
<1>19. CASE RecvEmpty
  BY <1>19 DEF TypeOK, RecvEmpty, Call, hostVars, cardVars
<1>20. CASE RecvFails
  BY <1>20 DEF TypeOK, RecvFails, recvVars, cardVars
<1>21. CASE UNCHANGED vars
  BY <1>21 DEF TypeOK, vars, Call, hostVars, recvVars, cardVars
<1> QED
  BY <1>1, <1>2, <1>3, <1>4, <1>5, <1>6, <1>7, <1>8, <1>10, <1>11, <1>12, <1>13, <1>14,
     <1>15, <1>16, <1>17, <1>18, <1>19, <1>20, <1>21
  DEF Next, Host, Receiver, Card, Fault, Stopped

\* Every state of the platform is well-typed: in particular the host is only
\* ever past the assertions of execute with a concluded program that fits the
\* send buffer.
THEOREM TypeCorrect == Spec => []TypeOK
<1>1. Init => TypeOK
  BY TypeInitial
<1>2. TypeOK /\ [Next]_vars => TypeOK'
  BY TypeInductive
<1> QED BY <1>1, <1>2, PTL DEF Spec

-----------------------------------------------------------------------------
(* The stream of readback words *)

streamVars == <<receiver, recvBuffer, pushed, ring, dst, jobs, c2h, nextWord>>

\* At first nothing is on its way.
LEMMA StreamInitial == Init => StreamInv
<1> SUFFICES ASSUME Init PROVE StreamInv
  OBVIOUS
<1>1. /\ receiver = "none" /\ ring = << >> /\ dst = << >> /\ jobs = << >> /\ c2h = << >>
      /\ nextWord = 1 /\ pc = "call"
  BY DEF Init
<1>2. ~HasMarker /\ DataLen = 0 /\ Pending = 0 /\ Base = 0
  BY <1>1 DEF HasMarker, DataLen, Pending, Base, OnHost
<1>3. 0 \in 0..ChunkBeats /\ 0 = 0 * ReadWords
  BY SizesAssumption, Sizes
<1>4. CardInv
  BY <1>1, <1>2, <1>3, Sizes DEF CardInv
<1> QED BY <1>1, <1>4 DEF StreamInv, ReceiverInv, HostInv, ReceiverEnded

\* A step that leaves the stream alone and does not go to the send.
LEMMA StreamFrame ==
  ASSUME StreamInv, UNCHANGED streamVars, pc' = "send" => pc = "send"
  PROVE  StreamInv'
<1>1. CardInv'
  BY DEF StreamInv, CardInv, streamVars, HasMarker, DataLen, Base, Pending, OnHost
<1>2. ReceiverInv'
  BY DEF StreamInv, ReceiverInv, streamVars, OnHost, ReceiverEnded
<1>3. HostInv'
  BY DEF StreamInv, HostInv, streamVars
<1> QED BY <1>1, <1>2, <1>3 DEF StreamInv

\* What the types say of the lengths of the queues.
LEMMA Lengths ==
  ASSUME TypeOK
  PROVE  /\ recvBuffer \in Seq(Nat) /\ Len(recvBuffer) \in Nat
         /\ ring \in Seq(Nat) /\ Len(ring) \in Nat
         /\ dst \in Seq(Nat) /\ Len(dst) \in Nat
         /\ c2h \in Seq(Nat) /\ Len(c2h) \in Nat
         /\ jobs \in Seq(Nat) /\ Len(jobs) \in Nat
         /\ OnHost \in Nat /\ pushed \in Nat /\ nextWord \in Nat /\ want \in Nat
BY LenProperties DEF TypeOK, OnHost

\* The FIFO without and with the marker.
LEMMA FifoShape ==
  ASSUME TypeOK, CardInv
  PROVE  /\ DataLen \in Nat
         /\ HasMarker => Len(c2h) = DataLen + BeatWords /\ Len(c2h) # ChunkWords
         /\ ~HasMarker => Len(c2h) = DataLen
         /\ c2h = << >> => ~HasMarker /\ DataLen = 0
<1>1. PICK q \in 0..ChunkBeats : DataLen = q * ReadWords
  BY DEF CardInv
<1>2. DataLen \in Nat
  BY <1>1, Sizes, SizesAssumption
<1>3. HasMarker => Len(c2h) = DataLen + BeatWords
  BY Lengths, Sizes DEF DataLen
<1>4. HasMarker => Len(c2h) # ChunkWords
  BY <1>1, <1>3, MarkerLeavesShortChunk, SizesAssumption
<1> QED BY <1>2, <1>3, <1>4 DEF DataLen, HasMarker

\* So many words have left the FIFO.
LEMMA BaseIsNat ==
  ASSUME TypeOK, ReceiverInv
  PROVE  Pending \in Nat /\ Base \in Nat
<1>1. receiver = "push" => ToPush(recvBuffer) - pushed \in Nat
  <2>1. ToPush(recvBuffer) \in Int
    BY Lengths, Sizes DEF ToPush
  <2> QED BY <2>1, Lengths DEF ReceiverInv
<1> QED BY <1>1, Lengths DEF Pending, Base

\* read() always returns all the card has: whole reads that fill a chunk, or
\* the end of a program with its marker.
LEMMA RecvTakesAll ==
  ASSUME TypeOK, CardInv, ReceiverInv, NEW count \in 1..Len(c2h), Available(count)
  PROVE  /\ count = Len(c2h)
         /\ ToPush(c2h) = DataLen
         /\ Short(c2h) => HasMarker
<1>1. /\ Len(c2h) \in Nat /\ Len(c2h) <= ChunkWords
      /\ DataLen \in Nat
      /\ HasMarker => Len(c2h) = DataLen + BeatWords /\ Len(c2h) # ChunkWords
      /\ ~HasMarker => Len(c2h) = DataLen
  BY Lengths, FifoShape DEF CardInv
<1>2. CASE count = ChunkWords /\ Len(c2h) >= ChunkWords
  <2>1. Len(c2h) = ChunkWords /\ ~HasMarker
    BY <1>1, <1>2, Sizes
  <2> QED BY <1>1, <1>2, <2>1 DEF ToPush, Short
<1>3. CASE \E i \in 1..(ChunkWords - BeatWords) : FirstMarker(i) /\ count = i + BeatWords - 1
  <2>1. PICK i \in 1..(ChunkWords - BeatWords) : FirstMarker(i) /\ count = i + BeatWords - 1
    BY <1>3
  <2>2. i \in 1..Len(c2h) /\ c2h[i] = 0 /\ \A j \in 1..(i - 1) : ~MarkerAt(j)
    BY <2>1 DEF FirstMarker, MarkerAt
  <2>3. i > DataLen
    <3>1. \A j \in 1..DataLen : c2h[j] # 0
      BY BaseIsNat DEF CardInv
    <3> QED BY <1>1, <2>2, <3>1
  <2>4. HasMarker
    BY <1>1, <2>2, <2>3
  <2>5. i = DataLen + 1
    <3>1. MarkerAt(DataLen + 1)
      BY <1>1, <2>4, Sizes DEF CardInv, MarkerAt
    <3> QED BY <1>1, <2>2, <2>3, <3>1
  <2> QED BY <1>1, <2>1, <2>4, <2>5, Sizes DEF ToPush, Short
<1> QED BY <1>2, <1>3 DEF Available

\* One push() puts the next words of the chunk behind those of the ring.
LEMMA PushAdds ==
  ASSUME TypeOK, Push,
         \A j \in (pushed + 1)..ToPush(recvBuffer) : recvBuffer[j] = OnHost + (j - pushed)
  PROVE  \E k \in Nat \ {0} :
           /\ pushed + k <= ToPush(recvBuffer)
           /\ pushed' = pushed + k
           /\ Len(ring') = Len(ring) + k
           /\ \A i \in 1..(Len(ring) + k) :
                ring'[i] = IF i <= Len(ring) THEN ring[i] ELSE OnHost + (i - Len(ring))
<1>1. PICK k \in 1..Minimum(ToPush(recvBuffer) - pushed, RingCapacity - Len(ring)) :
        /\ ring' = ring \o SubSeq(recvBuffer, pushed + 1, pushed + k)
        /\ pushed' = pushed + k
  BY DEF Push
<1>2. /\ receiver = "push"
      /\ UNCHANGED <<pc, dst, receiver, recvBuffer, jobs, c2h, nextWord>>
  BY DEF Push, hostVars, cardVars
<1>3. /\ Len(recvBuffer) \in Nat /\ Len(ring) \in Nat /\ Len(dst) \in Nat /\ pushed \in Nat
      /\ ToPush(recvBuffer) \in Int /\ ToPush(recvBuffer) <= Len(recvBuffer)
      /\ OnHost = Len(dst) + Len(ring)
  BY Lengths, Sizes DEF ToPush, OnHost
<1>4. k \in Nat /\ pushed + k <= ToPush(recvBuffer)
  BY <1>3, SizesAssumption DEF Minimum
<1> DEFINE added == SubSeq(recvBuffer, pushed + 1, pushed + k)
<1>5. /\ added \in Seq(Nat)
      /\ Len(added) = k
      /\ \A i \in 1..k : added[i] = recvBuffer[pushed + i]
  <2>1. \A i \in (pushed + 1)..(pushed + k) : recvBuffer[i] \in Nat
    <3>1. recvBuffer \in Seq(Nat)
      BY Lengths
    <3>2. \A i \in (pushed + 1)..(pushed + k) : i \in 1..Len(recvBuffer)
      BY <1>3, <1>4
    <3> QED BY <3>1, <3>2, ElementOfSeq
  <2>2. pushed + 1 \in Int /\ pushed + k \in Int
    BY <1>3, <1>4
  <2>3. /\ added \in Seq(Nat)
        /\ Len(added) = IF pushed + 1 <= pushed + k THEN pushed + k - (pushed + 1) + 1 ELSE 0
        /\ \A i \in 1..(pushed + k - (pushed + 1) + 1) : added[i] = recvBuffer[pushed + 1 + i - 1]
    BY <1>3, <1>4, <2>1, <2>2, SubSeqProperties
  <2> QED BY <1>3, <1>4, <2>3
<1>6. ring' = ring \o added /\ ring \in Seq(Nat)
  BY <1>1, Lengths
<1>7. \A i \in 1..k : added[i] = OnHost + i
  <2>2. \A i \in 1..k : /\ pushed + i \in (pushed + 1)..ToPush(recvBuffer)
                       /\ (pushed + i) - pushed = i
    BY <1>3, <1>4
  <2> HIDE DEF added
  <2> QED BY <1>5, <2>2
<1> HIDE DEF added
<1>8. /\ Len(ring') = Len(ring) + k
      /\ \A i \in 1..(Len(ring) + k) :
           ring'[i] = IF i <= Len(ring) THEN ring[i] ELSE added[i - Len(ring)]
  BY <1>5, <1>6, ConcatProperties
<1>9. \A i \in 1..(Len(ring) + k) :
        ring'[i] = IF i <= Len(ring) THEN ring[i] ELSE OnHost + (i - Len(ring))
  <2> SUFFICES ASSUME NEW i \in 1..(Len(ring) + k), i > Len(ring)
               PROVE  added[i - Len(ring)] = OnHost + (i - Len(ring))
    BY <1>8
  <2>1. i - Len(ring) \in 1..k
    BY <1>3, <1>4
  <2> QED BY <1>7, <2>1
<1>10. k # 0
  BY <1>3, SizesAssumption DEF Minimum
<1> QED BY <1>1, <1>4, <1>8, <1>9, <1>10

\* One pop() takes the next words out of the ring.
LEMMA PopMoves ==
  ASSUME TypeOK, Pop,
         \A i \in 1..Len(ring) : ring[i] = Len(dst) + i,
         \A i \in 1..Len(dst) : dst[i] = i
  PROVE  /\ OnHost' = OnHost
         /\ UNCHANGED <<pc, receiver, recvBuffer, pushed, jobs, c2h, nextWord>>
         /\ \A i \in 1..Len(ring') : ring'[i] = Len(dst') + i
         /\ \A i \in 1..Len(dst') : dst'[i] = i
<1>1. PICK k \in 1..Minimum(want, Len(ring)) :
        /\ dst' = dst \o SubSeq(ring, 1, k)
        /\ ring' = SubSeq(ring, k + 1, Len(ring))
  BY DEF Pop
<1>2. k \in 0..Len(ring) /\ Len(dst) \in Nat /\ Len(ring) \in Nat
  <2>1. want \in Nat /\ Len(ring) \in Nat /\ Len(dst) \in Nat
    BY Lengths
  <2> QED BY <2>1 DEF Minimum
<1>3. /\ SubSeq(ring, 1, k) \in Seq(Nat)
      /\ Len(SubSeq(ring, 1, k)) = k
      /\ \A i \in 1..k : SubSeq(ring, 1, k)[i] = ring[i]
      /\ Len(ring') = Len(ring) - k
      /\ \A i \in 1..(Len(ring) - k) : ring'[i] = ring[k + i]
  BY <1>1, <1>2, Lengths, Split
<1> DEFINE taken == SubSeq(ring, 1, k)
<1>4. /\ Len(dst') = Len(dst) + k
      /\ \A i \in 1..(Len(dst) + k) :
           dst'[i] = IF i <= Len(dst) THEN dst[i] ELSE taken[i - Len(dst)]
  <2>1. taken \in Seq(Nat) /\ Len(taken) = k /\ dst \in Seq(Nat) /\ dst' = dst \o taken
    BY <1>1, <1>3, Lengths
  <2> HIDE DEF taken
  <2>2. /\ Len(dst \o taken) = Len(dst) + Len(taken)
        /\ \A i \in 1..(Len(dst) + Len(taken)) :
             (dst \o taken)[i] = IF i <= Len(dst) THEN dst[i] ELSE taken[i - Len(dst)]
    BY <2>1, ConcatProperties
  <2> QED BY <2>1, <2>2
<1>5. UNCHANGED <<pc, receiver, recvBuffer, pushed, jobs, c2h, nextWord>>
  BY DEF Pop, recvVars, cardVars
<1>6. OnHost' = OnHost
  BY <1>2, <1>3, <1>4 DEF OnHost
<1>7. \A i \in 1..Len(ring') : ring'[i] = Len(dst') + i
  BY <1>2, <1>3, <1>4
<1>8. \A i \in 1..Len(dst') : dst'[i] = i
  <2>1. \A i \in 1..k : taken[i] = Len(dst) + i
    BY <1>2, <1>3
  <2> HIDE DEF taken
  <2> SUFFICES ASSUME NEW i \in 1..(Len(dst) + k) PROVE dst'[i] = i
    BY <1>4
  <2>2. CASE i <= Len(dst)
    BY <1>2, <1>4, <2>2
  <2>3. CASE i > Len(dst)
    <3>1. i - Len(dst) \in 1..k /\ Len(dst) + (i - Len(dst)) = i
      BY <1>2, <2>3
    <3> QED BY <1>2, <1>4, <2>1, <2>3, <3>1
  <2> QED BY <1>2, <2>2, <2>3
<1> QED BY <1>5, <1>6, <1>7, <1>8

\* Every step keeps the words of the stream where the invariant says they are.
LEMMA StreamInductive ==
  ASSUME NoEmptyReads
  PROVE  TypeOK /\ StreamInv /\ [Next]_vars => StreamInv'
<1> SUFFICES ASSUME TypeOK, StreamInv, [Next]_vars PROVE StreamInv'
  OBVIOUS
<1> USE DEF StreamInv
<1>1. CASE \/ Execute \/ ExecuteRejected \/ ReceiveData \/ ReceiveReturns
           \/ Destroy \/ WriteFails \/ RecvFails \/ UNCHANGED vars
  <2>1. UNCHANGED streamVars
    BY <1>1 DEF streamVars, Execute, ExecuteRejected, ReceiveData, ReceiveReturns,
         Destroy, WriteFails, RecvFails, vars, hostVars, recvVars, cardVars
  <2>2. pc' = "send" => pc = "send"
    BY <1>1 DEF Execute, ExecuteRejected, ReceiveData, ReceiveReturns,
         Destroy, WriteFails, RecvFails, vars, hostVars, Return, Making
  <2> QED BY <2>1, <2>2, StreamFrame
<1>2. CASE JoinAndSpawn \/ Close
  <2>1. /\ jobs = << >> /\ c2h = << >> /\ Pending = 0 /\ Pending' = 0
        /\ jobs' = << >> /\ c2h' = << >> /\ nextWord' = nextWord
        /\ ring' = ring /\ dst' = dst
    BY <1>2 DEF JoinAndSpawn, Close, cardVars, ReceiverInv, ReceiverEnded, Pending
  <2>2. CardInv'
    <3>1. HasMarker' = HasMarker /\ DataLen' = DataLen /\ Base' = Base
      BY <2>1 DEF HasMarker, DataLen, Base, OnHost
    <3> QED BY <2>1, <3>1 DEF CardInv
  <2>3. ReceiverInv' /\ HostInv'
    BY <1>2, <2>1 DEF ReceiverInv, HostInv, JoinAndSpawn, Close, Return, ReceiverEnded
  <2> QED BY <2>2, <2>3
<1>3. ASSUME UNCHANGED <<receiver, recvBuffer, pushed, ring, dst, c2h, nextWord>>,
             jobs' = << >> \/ jobs' = jobs \/ (pc = "send" /\ Len(jobs') <= 1),
             pc' = "call"
      PROVE  StreamInv'
  <2>1. /\ HasMarker' = HasMarker /\ DataLen' = DataLen /\ Base' = Base
        /\ c2h' = c2h /\ nextWord' = nextWord
    BY <1>3 DEF HasMarker, DataLen, Base, Pending, OnHost
  <2>2. pc = "send" => receiver = "recv" /\ c2h = << >> /\ ~HasMarker
    BY DEF HostInv, HasMarker
  <2>3. << >> \in Seq(Nat) /\ Len(<< >>) = 0
    BY EmptySeq
  <2>4. CardInv'
    BY <1>3, <2>1, <2>2, <2>3 DEF CardInv
  <2>5. ReceiverInv'
    BY <1>3, <2>2 DEF ReceiverInv, OnHost, ReceiverEnded
  <2>6. HostInv'
    BY <1>3 DEF HostInv
  <2> QED BY <2>4, <2>5, <2>6
<1>4. CASE Send
  <2>1. /\ UNCHANGED <<receiver, recvBuffer, pushed, ring, dst, c2h, nextWord>>
        /\ pc = "send" /\ pc' = "call" /\ jobs = << >>
    BY <1>4 DEF Send, CardTakes, Return, recvVars, HostInv
  <2>2. jobs' = Append(jobs, Call.reads) \/ jobs' = << >> \/ jobs' = jobs
    BY <1>4 DEF Send, CardTakes
  <2>3. Len(Append(<< >>, Call.reads)) <= 1
    OBVIOUS
  <2>4. jobs' = Append(jobs, Call.reads) => Len(jobs') <= 1
    BY <2>1, <2>3
  <2>5. jobs' = << >> \/ jobs' = jobs \/ (pc = "send" /\ Len(jobs') <= 1)
    BY <2>1, <2>2, <2>4
  <2> QED BY <1>3, <2>1, <2>5
<1>5. CASE ResetFPGA \/ SetAREF
  <2>1. PICK beat : SendCommand(beat) /\ beat.control \in {ResetBit, ArefBit}
    BY <1>5 DEF ResetFPGA, SetAREF, NoBeat
  <2>2. /\ UNCHANGED <<receiver, recvBuffer, pushed, ring, dst, c2h, nextWord>>
        /\ pc' = "call"
    BY <2>1 DEF SendCommand, CardTakes, Return, recvVars
  <2>3. jobs' = << >> \/ jobs' = jobs
    BY <2>1 DEF SendCommand, CardTakes, ResetBit, ArefBit
  <2> QED BY <1>3, <2>2, <2>3
<1>6. CASE Pop
  <2>1. /\ OnHost' = OnHost
        /\ UNCHANGED <<pc, receiver, recvBuffer, pushed, jobs, c2h, nextWord>>
        /\ \A i \in 1..Len(ring') : ring'[i] = Len(dst') + i
        /\ \A i \in 1..Len(dst') : dst'[i] = i
    BY <1>6, PopMoves DEF HostInv
  <2>2. CardInv'
    BY <2>1 DEF CardInv, HasMarker, DataLen, Base, Pending
  <2>3. ReceiverInv'
    BY <2>1 DEF ReceiverInv, ReceiverEnded
  <2>4. HostInv'
    BY <2>1 DEF HostInv
  <2> QED BY <2>2, <2>3, <2>4
<1>7. CASE Recv
  <2>1. PICK count \in 1..Len(c2h) :
          /\ Available(count)
          /\ recvBuffer' = SubSeq(c2h, 1, count)
          /\ c2h' = SubSeq(c2h, count + 1, Len(c2h))
    BY <1>7 DEF Recv
  <2>2. /\ count = Len(c2h)
        /\ ToPush(c2h) = DataLen
        /\ Short(c2h) => HasMarker
    BY <2>1, RecvTakesAll
  <2>3. recvBuffer' = c2h /\ c2h' = << >>
    BY <2>1, <2>2, Lengths, SubSeqFull, SubSeqEmpty
  <2>4. /\ receiver = "recv" /\ receiver' = "push" /\ pushed' = 0
        /\ UNCHANGED <<pc, ring, dst, jobs, nextWord>>
    BY <1>7 DEF Recv, hostVars
  <2>5. /\ Pending = 0 /\ Pending' = DataLen /\ OnHost' = OnHost
        /\ ~HasMarker' /\ DataLen' = 0
    <3>1. Pending = 0 /\ OnHost' = OnHost
      BY <2>4 DEF Pending, OnHost
    <3>2. Pending' = DataLen
      BY <2>2, <2>3, <2>4, FifoShape DEF Pending, ToPush, Short
    <3> QED BY <2>3, <3>1, <3>2 DEF HasMarker, DataLen
  <2>6. DataLen \in Nat /\ DataLen <= Len(c2h) /\ OnHost \in Nat /\ nextWord = OnHost + DataLen + 1
    <3>1. DataLen \in Nat /\ DataLen <= Len(c2h)
      BY FifoShape, Sizes, Lengths, SMTT(30)
    <3>2. OnHost \in Nat
      BY Lengths
    <3> QED BY <2>5, <3>1, <3>2 DEF CardInv, Base
  <2>7. CardInv'
    <3>1. nextWord' = Base' + DataLen' + 1
      BY <2>4, <2>5, <2>6 DEF Base
    <3>2. 0 \in 0..ChunkBeats /\ DataLen' = 0 * ReadWords
      BY <2>5, Sizes, SizesAssumption
    <3>3. Len(c2h') = 0
      BY <2>3
    <3> QED BY <2>3, <2>4, <2>5, <3>1, <3>2, <3>3, Sizes DEF CardInv
  <2>8. ReceiverInv'
    <3>1. Len(c2h) \in BeatWords..ChunkWords
      <4>1. HasMarker => Len(c2h) = DataLen + BeatWords
        BY FifoShape
      <4>2. ~Short(c2h) => Len(c2h) = ChunkWords
        BY DEF Short
      <4> QED BY <2>2, <2>6, <4>1, <4>2, Sizes, Lengths DEF CardInv
    <3>2. ToPush(recvBuffer') = DataLen /\ Short(recvBuffer') = Short(c2h)
      BY <2>2, <2>3
    <3>3. \A j \in 1..DataLen : c2h[j] = OnHost + j
      BY <2>5, <2>6 DEF CardInv, Base
    <3>4. Short(c2h) => jobs = << >>
      BY <2>2 DEF CardInv
    <3>5. \A j \in (pushed' + 1)..DataLen : recvBuffer'[j] = OnHost' + (j - pushed')
      BY <2>3, <2>4, <2>5, <2>6, <3>3
    <3> QED BY <2>3, <2>4, <2>5, <2>6, <3>1, <3>2, <3>4, <3>5 DEF ReceiverInv, ReceiverEnded
  <2>9. HostInv'
    <3>1. pc # "send"
      BY <2>1, Lengths DEF HostInv
    <3> QED BY <2>4, <3>1 DEF HostInv
  <2> QED BY <2>7, <2>8, <2>9
<1>8. CASE Push
  <2>1. PICK k \in Nat \ {0} :
          /\ pushed + k <= ToPush(recvBuffer)
          /\ pushed' = pushed + k
          /\ Len(ring') = Len(ring) + k
          /\ \A i \in 1..(Len(ring) + k) :
               ring'[i] = IF i <= Len(ring) THEN ring[i] ELSE OnHost + (i - Len(ring))
    <3>1. \A j \in (pushed + 1)..ToPush(recvBuffer) : recvBuffer[j] = OnHost + (j - pushed)
      BY <1>8 DEF Push, ReceiverInv
    <3> QED BY <1>8, <3>1, PushAdds
  <2>2. /\ receiver = "push"
        /\ UNCHANGED <<pc, dst, receiver, recvBuffer, jobs, c2h, nextWord>>
    BY <1>8 DEF Push, hostVars, cardVars
  <2>3. /\ Len(ring) \in Nat /\ Len(dst) \in Nat /\ pushed \in Nat
        /\ ToPush(recvBuffer) \in Int
        /\ OnHost = Len(dst) + Len(ring)
    BY Lengths, Sizes DEF ToPush, OnHost
  <2>4. OnHost' = OnHost + k /\ Base' = Base
    BY <2>1, <2>2, <2>3 DEF OnHost, Base, Pending
  <2>5. CardInv'
    BY <2>2, <2>4 DEF CardInv, HasMarker, DataLen
  <2>6. ReceiverInv'
    BY <2>1, <2>2, <2>3, <2>4 DEF ReceiverInv, ReceiverEnded
  <2>7. \A i \in 1..Len(ring') : ring'[i] = Len(dst') + i
    <3>1. \A i \in 1..Len(ring) : ring[i] = Len(dst) + i
      BY DEF HostInv
    <3> SUFFICES ASSUME NEW i \in 1..(Len(ring) + k) PROVE ring'[i] = Len(dst) + i
      BY <2>1, <2>2
    <3>2. CASE i <= Len(ring)
      BY <2>1, <2>3, <3>1, <3>2
    <3>3. CASE i > Len(ring)
      BY <2>1, <2>3, <3>3
    <3> QED BY <2>1, <2>3, <3>2, <3>3
  <2>8. HostInv'
    BY <2>2, <2>7 DEF HostInv
  <2> QED BY <2>5, <2>6, <2>8
<1>9. CASE ChunkDone
  <2>1. /\ receiver = "push" /\ pushed = ToPush(recvBuffer)
        /\ receiver' = IF Short(recvBuffer) THEN "done" ELSE "recv"
        /\ UNCHANGED <<pc, dst, ring, jobs, c2h, nextWord>>
    BY <1>9 DEF ChunkDone, LeaveChunk, hostVars, cardVars
  <2>2. Base' = Base
    BY <2>1, Lengths DEF Base, Pending, OnHost
  <2>3. CardInv'
    BY <2>1, <2>2 DEF CardInv, HasMarker, DataLen
  <2>4. ReceiverInv'
    BY <2>1 DEF ReceiverInv, ReceiverEnded
  <2>5. HostInv'
    BY <2>1 DEF HostInv
  <2> QED BY <2>3, <2>4, <2>5
<1>10. CASE CardRead
  <2> DEFINE new == [i \in 1..ReadWords |-> nextWord + i - 1]
  <2>1. /\ jobs # << >> /\ c2h' = c2h \o new /\ nextWord' = nextWord + ReadWords
        /\ Len(c2h) + ReadWords <= ChunkWords
        /\ jobs' = <<Head(jobs) - 1>> \o Tail(jobs)
        /\ UNCHANGED <<pc, receiver, recvBuffer, pushed, ring, dst>>
    BY <1>10 DEF CardRead, hostVars, recvVars
  <2>2. ~HasMarker /\ DataLen = Len(c2h) /\ DataLen \in Nat /\ ~ReceiverEnded /\ pc # "send"
    BY <2>1, FifoShape DEF CardInv, ReceiverInv, HostInv
  <2>3. new \in Seq(Nat) /\ Len(new) = ReadWords
    <3>1. new \in [1..ReadWords -> Nat]
      BY Sizes, Lengths DEF TypeOK
    <3> HIDE DEF new
    <3> QED BY <3>1, Sizes, FunctionIsSeq
  <2>4. /\ Len(c2h') = Len(c2h) + ReadWords
        /\ \A i \in 1..(Len(c2h) + ReadWords) :
             c2h'[i] = IF i <= Len(c2h) THEN c2h[i] ELSE new[i - Len(c2h)]
    <3>1. c2h \in Seq(Nat)
      BY Lengths
    <3> HIDE DEF new
    <3> QED BY <2>1, <2>3, <3>1, ConcatProperties
  <2>5. /\ Base \in Nat /\ nextWord = Base + DataLen + 1 /\ Base' = Base
        /\ \A i \in 1..DataLen : c2h[i] = Base + i
    BY <2>1, BaseIsNat DEF CardInv, Base, Pending, OnHost
  <2>6. \A i \in 1..Len(c2h') : c2h'[i] = Base' + i
    <3>1. \A i \in 1..ReadWords : new[i] = Base + Len(c2h) + i
      BY <2>2, <2>5, Sizes
    <3> HIDE DEF new
    <3> QED BY <2>2, <2>4, <2>5, <3>1, Sizes
  <2>7. ~HasMarker' /\ DataLen' = Len(c2h')
    <3>1. Len(c2h') \in 1..Len(c2h')
      BY <2>2, <2>4, Sizes
    <3>2. c2h'[Len(c2h')] # 0
      BY <2>5, <2>6, <3>1
    <3> QED BY <3>2 DEF HasMarker, DataLen
  <2>8. \E q \in 0..ChunkBeats : DataLen' = q * ReadWords
    <3>1. PICK q \in 0..ChunkBeats : DataLen = q * ReadWords
      BY DEF CardInv
    <3>2. DataLen' = (q + 1) * ReadWords
      BY <2>2, <2>4, <2>7, <3>1, Sizes, SizesAssumption
    <3>3. q + 1 \in 0..ChunkBeats
      <4>1. (q + 1) * ReadWords <= ChunkWords
        BY <2>1, <2>4, <2>7, <3>2
      <4>2. ChunkWords <= ChunkBeats * ReadWords
        <5>1. \A c, b, r \in Nat : b <= r => c * b <= c * r
          OBVIOUS
        <5> QED BY <5>1, Sizes, SizesAssumption DEF ChunkWords
      <4>3. \A c, d, r \in Nat : r > 0 /\ d * r <= c * r => d <= c
        OBVIOUS
      <4> QED BY <4>1, <4>2, <4>3, Sizes, SizesAssumption
    <3> QED BY <3>2, <3>3
  <2>9. Len(jobs') <= 1
    <3>1. Tail(jobs) \in Seq(Nat) /\ Len(Tail(jobs)) = Len(jobs) - 1
      BY <2>1, Lengths, HeadTailProperties
    <3>2. Head(jobs) \in Nat /\ Head(jobs) > 0
      BY <1>10, Lengths, HeadTailProperties DEF CardRead
    <3>3. <<Head(jobs) - 1>> \in Seq(Nat) /\ Len(<<Head(jobs) - 1>>) = 1
      BY <3>2
    <3>4. Len(<<Head(jobs) - 1>> \o Tail(jobs)) = 1 + Len(jobs) - 1
      BY <3>1, <3>3, ConcatProperties
    <3> QED BY <2>1, <3>4, Lengths DEF CardInv
  <2>10. nextWord' = Base' + DataLen' + 1
    BY <2>1, <2>2, <2>4, <2>5, <2>7, Sizes
  <2>11. CardInv'
    <3>1. Len(c2h') <= ChunkWords
      BY <2>1, <2>4
    <3>2. \A i \in (DataLen' + 1)..Len(c2h') : c2h'[i] = 0
      BY <2>2, <2>4, <2>7, Sizes
    <3> QED BY <2>6, <2>7, <2>8, <2>9, <2>10, <3>1, <3>2 DEF CardInv
  <2>12. ReceiverInv'
    BY <2>1, <2>2 DEF ReceiverInv, ReceiverEnded, OnHost
  <2>13. HostInv'
    BY <2>1, <2>2 DEF HostInv
  <2> QED BY <2>11, <2>12, <2>13
<1>11. CASE CardEnds
  <2> DEFINE marker == [i \in 1..BeatWords |-> 0]
  <2>1. /\ jobs # << >> /\ c2h' = c2h \o marker /\ nextWord' = nextWord
        /\ Len(c2h) + BeatWords <= ChunkWords
        /\ jobs' = Tail(jobs)
        /\ UNCHANGED <<pc, receiver, recvBuffer, pushed, ring, dst>>
    BY <1>11 DEF CardEnds, hostVars, recvVars
  <2>2. /\ ~HasMarker /\ DataLen = Len(c2h) /\ DataLen \in Nat /\ ~ReceiverEnded /\ pc # "send"
        /\ Base' = Base
    BY <2>1, FifoShape DEF CardInv, ReceiverInv, HostInv, Base, Pending, OnHost
  <2>3. marker \in Seq(Nat) /\ Len(marker) = BeatWords
    <3>1. marker \in [1..BeatWords -> Nat]
      OBVIOUS
    <3> HIDE DEF marker
    <3> QED BY <3>1, Sizes, FunctionIsSeq
  <2>4. /\ Len(c2h') = Len(c2h) + BeatWords
        /\ \A i \in 1..(Len(c2h) + BeatWords) :
             c2h'[i] = IF i <= Len(c2h) THEN c2h[i] ELSE marker[i - Len(c2h)]
    <3>1. c2h \in Seq(Nat)
      BY Lengths
    <3> HIDE DEF marker
    <3> QED BY <2>1, <2>3, <3>1, ConcatProperties
  <2>5. \A i \in (Len(c2h) + 1)..Len(c2h') : c2h'[i] = 0
    <3>1. \A i \in 1..BeatWords : marker[i] = 0
      OBVIOUS
    <3> HIDE DEF marker
    <3> QED BY <2>2, <2>4, <3>1, Sizes
  <2>6. HasMarker' /\ DataLen' = DataLen
    <3>1. Len(c2h') \in (Len(c2h) + 1)..Len(c2h') /\ Len(c2h') # 0
      BY <2>2, <2>4, Sizes
    <3>2. HasMarker'
      BY <2>5, <3>1 DEF HasMarker
    <3> QED BY <2>2, <2>4, <3>2, Sizes DEF DataLen
  <2>7. jobs' = << >>
    <3>1. Len(jobs') = Len(jobs) - 1 /\ jobs' \in Seq(Nat)
      BY <2>1, Lengths, HeadTailProperties
    <3>2. Len(jobs) \in Nat /\ Len(jobs) <= 1
      BY Lengths DEF CardInv
    <3> QED BY <3>1, <3>2, EmptySeq, LenProperties
  <2>8. CardInv'
    <3>1. \A i \in 1..DataLen : c2h'[i] = Base + i
      BY <2>2, <2>4, Sizes DEF CardInv
    <3>2. Len(c2h') <= ChunkWords
      BY <2>1, <2>4
    <3>3. Len(<< >>) = 0
      OBVIOUS
    <3>4. \E q \in 0..ChunkBeats : DataLen = q * ReadWords
      BY DEF CardInv
    <3>5. nextWord = Base + DataLen + 1
      BY DEF CardInv
    <3>6. /\ \A i \in (DataLen' + 1)..Len(c2h') : c2h'[i] = 0
          /\ \A i \in 1..DataLen' : c2h'[i] = Base' + i
          /\ \E q \in 0..ChunkBeats : DataLen' = q * ReadWords
          /\ nextWord' = Base' + DataLen' + 1
      BY <2>1, <2>2, <2>5, <2>6, <3>1, <3>4, <3>5
    <3>7. Len(jobs') <= 1
      BY <2>7, <3>3
    <3> QED BY <2>7, <3>2, <3>6, <3>7 DEF CardInv
  <2>9. ReceiverInv'
    BY <2>1, <2>2 DEF ReceiverInv, ReceiverEnded, OnHost
  <2>10. HostInv'
    BY <2>1, <2>2 DEF HostInv
  <2> QED BY <2>8, <2>9, <2>10
<1>12. ~RecvEmpty
  BY DEF RecvEmpty, NoEmptyReads
<1> QED
  BY <1>1, <1>2, <1>4, <1>5, <1>6, <1>7, <1>8, <1>9, <1>10, <1>11, <1>12
  DEF Next, Host, Receiver, Card, Fault, Stopped

-----------------------------------------------------------------------------
(* Theorems *)

\* The invariant that ties the receiver thread to what is left on the card
\* holds as long as read() does not return 0 early.
THEOREM InvariantHolds ==
  ASSUME NoEmptyReads
  PROVE  Spec => []IInv
<1>1. Init => IInv
  BY TypeInitial, StreamInitial DEF IInv
<1>2. IInv /\ [Next]_vars => IInv'
  BY TypeInductive, StreamInductive DEF IInv
<1> QED BY <1>1, <1>2, PTL DEF Spec

\* Whatever the host calls, a program is only ever sent to an idle card whose
\* FIFO is empty.
THEOREM SentOnlyWhenIdle ==
  ASSUME NoEmptyReads
  PROVE  Spec => []SendOnlyWhenIdle
<1>1. IInv => SendOnlyWhenIdle
  BY DEF IInv, StreamInv, HostInv, SendOnlyWhenIdle
<1> QED BY <1>1, InvariantHolds, PTL

\* Every step of the platform is a step of the readback service or leaves the
\* service's state as it is.
LEMMA StepImplementsService ==
  ASSUME NoEmptyReads, IInv, IInv', [Next]_vars
  PROVE  [Service!Next]_Service!rvars
<1> DEFINE busy == receiver \in {"recv", "push"}
<1>0. /\ TypeOK /\ CardInv /\ ReceiverInv /\ HostInv
      /\ Len(dst) \in Nat /\ Len(ring) \in Nat /\ OnHost = Len(dst) + Len(ring)
      /\ nextWord \in Nat /\ nextWord >= 1
  <2>1. TypeOK /\ CardInv /\ ReceiverInv /\ HostInv
    BY DEF IInv, StreamInv
  <2>2. Len(dst) \in Nat /\ Len(ring) \in Nat /\ OnHost = Len(dst) + Len(ring)
    BY <2>1, Lengths DEF OnHost
  <2>3. nextWord \in Nat /\ nextWord >= 1
    BY <2>1 DEF TypeOK
  <2> QED BY <2>1, <2>2, <2>3
<1>1. CASE UNCHANGED <<receiver, nextWord, ring, dst>>
  BY <1>1 DEF Service!rvars, OnHost
<1>2. CASE JoinAndSpawn
  <2>1. ~busy /\ busy' /\ UNCHANGED <<nextWord, ring, dst>>
    BY <1>2 DEF JoinAndSpawn, ReceiverEnded, cardVars
  <2>2. Service!Launch
    BY <2>1 DEF Service!Launch, OnHost
  <2> QED BY <2>2 DEF Service!Next
<1>3. CASE Pop
  <2>1. PICK k \in 1..Minimum(want, Len(ring)) :
          /\ dst' = dst \o SubSeq(ring, 1, k)
          /\ ring' = SubSeq(ring, k + 1, Len(ring))
    BY <1>3 DEF Pop
  <2>2. k \in 1..Len(ring)
    <3>1. want \in Nat
      BY <1>0, Lengths
    <3> QED BY <1>0, <3>1 DEF Minimum
  <2>3. Len(dst') = Len(dst) + k /\ Len(ring') = Len(ring) - k
    <3>1. ring \in Seq(Nat) /\ dst \in Seq(Nat) /\ k \in 0..Len(ring)
      BY <1>0, <2>2, Lengths
    <3>2. /\ SubSeq(ring, 1, k) \in Seq(Nat) /\ Len(SubSeq(ring, 1, k)) = k
          /\ Len(SubSeq(ring, k + 1, Len(ring))) = Len(ring) - k
      BY <3>1, Split
    <3>3. Len(dst \o SubSeq(ring, 1, k)) = Len(dst) + k
      BY <3>1, <3>2, ConcatProperties
    <3> QED BY <2>1, <3>2, <3>3
  <2>4. UNCHANGED <<receiver, nextWord>>
    BY <1>3 DEF Pop, recvVars, cardVars
  <2>5. Service!Deliver
    BY <1>0, <2>2, <2>3, <2>4 DEF Service!Deliver, OnHost
  <2> QED BY <2>5 DEF Service!Next
<1>4. CASE Close
  <2>1. busy' = busy /\ UNCHANGED <<nextWord, ring, dst>>
    BY <1>4 DEF Close, ReceiverEnded, cardVars
  <2> QED BY <2>1 DEF Service!rvars, OnHost
<1>5. CASE Recv
  <2>1. busy' = busy /\ UNCHANGED <<nextWord, ring, dst>>
    BY <1>5 DEF Recv, hostVars
  <2> QED BY <2>1 DEF Service!rvars, OnHost
<1>6. CASE Push
  <2>1. PICK k \in Nat \ {0} :
          pushed + k <= ToPush(recvBuffer) /\ Len(ring') = Len(ring) + k
    <3>1. \A j \in (pushed + 1)..ToPush(recvBuffer) : recvBuffer[j] = OnHost + (j - pushed)
      BY <1>0, <1>6 DEF Push, ReceiverInv
    <3> QED BY <1>0, <1>6, <3>1, PushAdds
  <2>2. /\ receiver = "push" /\ UNCHANGED <<receiver, recvBuffer, nextWord, dst>>
    BY <1>6 DEF Push, hostVars, cardVars
  <2>3. /\ ToPush(recvBuffer) \in Int /\ pushed \in Nat /\ DataLen \in Nat
        /\ nextWord = OnHost + (ToPush(recvBuffer) - pushed) + DataLen + 1
    <3>1. ToPush(recvBuffer) \in Int
      BY <1>0, Lengths, Sizes DEF ToPush
    <3>2. pushed \in Nat /\ DataLen \in Nat
      BY <1>0, Lengths, FifoShape
    <3>3. nextWord = OnHost + (ToPush(recvBuffer) - pushed) + DataLen + 1
      BY <1>0, <2>2 DEF CardInv, Base, Pending
    <3> QED BY <3>1, <3>2, <3>3
  <2>4. OnHost' = OnHost + k /\ OnHost + k <= nextWord - 1
    BY <1>0, <2>1, <2>2, <2>3, SMTT(30) DEF OnHost
  <2>5. Service!Store
    BY <1>0, <2>2, <2>4 DEF Service!Store
  <2> QED BY <2>5 DEF Service!Next
<1>7. CASE ChunkDone
  <2>1. /\ receiver = "push" /\ pushed = ToPush(recvBuffer)
        /\ receiver' = IF Short(recvBuffer) THEN "done" ELSE "recv"
        /\ UNCHANGED <<nextWord, ring, dst>>
    BY <1>7 DEF ChunkDone, LeaveChunk, hostVars, cardVars
  <2>2. CASE Short(recvBuffer)
    <3>1. c2h = << >> /\ DataLen = 0
      BY <1>0, <2>1, <2>2, FifoShape DEF ReceiverInv
    <3>2. OnHost = nextWord - 1
      <4>1. pushed \in Nat /\ OnHost \in Nat
        BY <1>0, Lengths
      <4> QED BY <1>0, <2>1, <3>1, <4>1 DEF CardInv, Base, Pending
    <3>3. Service!Finish
      BY <2>1, <2>2, <3>2 DEF Service!Finish, OnHost
    <3> QED BY <3>3 DEF Service!Next
  <2>3. CASE ~Short(recvBuffer)
    <3>1. busy' = busy /\ UNCHANGED <<nextWord, ring, dst>>
      BY <2>1, <2>3
    <3> QED BY <3>1 DEF Service!rvars, OnHost
  <2> QED BY <2>2, <2>3
<1>8. CASE CardRead
  <2>1. /\ jobs # << >> /\ nextWord' = nextWord + ReadWords
        /\ UNCHANGED <<receiver, ring, dst>>
    BY <1>8 DEF CardRead, hostVars, recvVars
  <2>2. busy
    BY <1>0, <2>1 DEF ReceiverInv, ReceiverEnded, TypeOK
  <2>3. Service!Produce
    BY <1>0, <2>1, <2>2, Sizes DEF Service!Produce, OnHost
  <2> QED BY <2>3 DEF Service!Next
<1>9. CASE \/ Execute \/ ExecuteRejected \/ Send \/ ReceiveData \/ ReceiveReturns
           \/ ResetFPGA \/ SetAREF \/ Destroy \/ CardEnds \/ WriteFails \/ RecvFails
           \/ UNCHANGED vars
  <2>1. UNCHANGED <<receiver, nextWord, ring, dst>>
    BY <1>9 DEF Execute, ExecuteRejected, Send, ReceiveData, ReceiveReturns,
         ResetFPGA, SetAREF, SendCommand, CardTakes, Destroy, CardEnds, WriteFails,
         RecvFails, vars, hostVars, recvVars, cardVars
  <2> QED BY <1>1, <2>1
<1>10. ~RecvEmpty
  BY DEF RecvEmpty, NoEmptyReads
<1> QED
  BY <1>2, <1>3, <1>4, <1>5, <1>6, <1>7, <1>8, <1>9, <1>10
  DEF Next, Host, Receiver, Card, Fault, Stopped

\* The platform implements the readback service: one program at a time, every
\* word it produced on the host before it counts as finished, delivery in order.
THEOREM ImplementsReadback ==
  ASSUME NoEmptyReads
  PROVE  Spec => ServiceSpec
<1>1. Init => Service!Init
  BY DEF Init, Service!Init, OnHost
<1>2. IInv /\ IInv' /\ [Next]_vars => [Service!Next]_Service!rvars
  BY StepImplementsService
<1> QED BY <1>1, <1>2, InvariantHolds, PTL DEF Spec, ServiceSpec, Service!Spec

-----------------------------------------------------------------------------
(* What the card is sent *)

LEMMA SentInitial == Init => SentInv
<1> SUFFICES ASSUME Init PROVE SentInv
  OBVIOUS
<1>1. Made("setAREF") = {} /\ Made("execute") = {}
  BY DEF Init, Made
<1>2. /\ received = << >> /\ pc = "call" /\ sendBuffer = EmptyBuffer
  BY DEF Init
<1>3. aref = FALSE
  BY Zenon DEF Init
<1>4. DOMAIN received = {}
  BY <1>2
<1>5. CardMatchesCalls
  BY <1>1, <1>3, <1>4 DEF CardMatchesCalls
<1> QED BY <1>2, <1>5, TypeInitial DEF SentInv, BufferInv

\* The call that returns adds itself to those of its operation.
LEMMA MadeGrows ==
  ASSUME TypeOK, at <= Len(calls), at' = at + 1, UNCHANGED calls, NEW op
  PROVE  Made(op)' = IF Call.op = op THEN Made(op) \cup {at} ELSE Made(op)
<1>1. at \in Nat \ {0}
  BY DEF TypeOK
<1> QED BY <1>1 DEF Made, Call

\* A step that sends the card nothing, in a call that is none of the two that send.
LEMMA NothingSent ==
  ASSUME TypeOK, CardMatchesCalls, UNCHANGED <<calls, aref, received>>,
         Made("setAREF")' = Made("setAREF"), Made("execute")' = Made("execute")
  PROVE  CardMatchesCalls'
<1>1. aref' = \E j \in Made("setAREF") : calls[j].on /\ \A k \in Made("setAREF") : k <= j
  BY DEF CardMatchesCalls
<1>2. aref' = \E j \in Made("setAREF")' : calls'[j].on /\ \A k \in Made("setAREF")' : k <= j
  BY <1>1, Zenon
<1>3. {received'[p][1] : p \in DOMAIN received'} = Made("execute")'
  BY DEF CardMatchesCalls
<1>4. \A p, q \in DOMAIN received' : p < q => received'[p][1] < received'[q][1]
  BY Zenon DEF CardMatchesCalls
<1>5. \A p \in DOMAIN received' :
        received'[p] = [b \in 1..calls'[received'[p][1]].insts |-> received'[p][1]]
  BY Zenon DEF CardMatchesCalls
<1> QED BY <1>2, <1>3, <1>4, <1>5, Zenon DEF CardMatchesCalls

\* The packet of a program is its call's number in each of its beats.
LEMMA PacketOfProgram ==
  ASSUME SentInv, pc = "send"
  PROVE  LET packet == SubSeq(sendBuffer, 1, Call.insts)
         IN  /\ packet[1].control = 0
             /\ [b \in DOMAIN packet |-> packet[b].lane0] = [b \in 1..Call.insts |-> at]
<1> DEFINE packet == SubSeq(sendBuffer, 1, Call.insts)
           beat == [NoBeat EXCEPT !.lane0 = at]
<1>1. at \in 1..Len(calls) /\ Call.op = "execute" /\ Acceptable(Call) /\ calls \in Scripts
  <2>1. Len(calls) \in Nat /\ at \in Nat \ {0}
    BY ScriptsAssumption, LenProperties DEF SentInv, TypeOK
  <2> QED BY <2>1 DEF SentInv, TypeOK
<1>2. Call.insts \in 1..MaxInsts
  BY <1>1, CallTypes, SizesAssumption DEF Acceptable
<1>3. \A b \in 1..Call.insts : sendBuffer[b] = beat
  <2>1. sendBuffer = [b \in 1..MaxInsts |-> IF b <= Call.insts THEN beat ELSE NoBeat]
    BY DEF SentInv, BufferInv
  <2>2. \A b \in 1..Call.insts : b \in 1..MaxInsts /\ b <= Call.insts
    BY <1>2, SizesAssumption
  <2> HIDE DEF beat
  <2> QED BY <2>1, <2>2
<1>4. beat.control = 0 /\ beat.lane0 = at
  BY DEF NoBeat
<1>5. packet = [b \in 1..Call.insts |-> beat]
  <2>1. Call.insts \in Nat /\ \A b \in 1..Call.insts : 1 + b - 1 = b
    BY <1>2, SizesAssumption
  <2>2. packet = [b \in 1..Call.insts |-> sendBuffer[b]]
    BY <2>1
  <2> HIDE DEF beat, packet
  <2> QED BY <1>3, <2>2
<1>6. DOMAIN packet = 1..Call.insts /\ 1 \in 1..Call.insts
  BY <1>2, <1>5
<1> HIDE DEF packet, beat
<1>7. packet[1] = beat /\ \A b \in DOMAIN packet : packet[b] = beat
  BY <1>5, <1>6
<1>8. [b \in DOMAIN packet |-> packet[b].lane0] = [b \in 1..Call.insts |-> at]
  BY <1>4, <1>6, <1>7
<1> QED BY <1>4, <1>7, <1>8 DEF packet

\* The program that is sent comes after those the card has.
LEMMA ProgramSent ==
  ASSUME SentInv, pc = "send", Send
  PROVE  CardMatchesCalls'
<1> DEFINE packet == SubSeq(sendBuffer, 1, Call.insts)
           lanes == [b \in 1..Call.insts |-> at]
           n == Len(received)
<1>1. /\ at \in Nat \ {0} /\ at <= Len(calls) /\ Call.op = "execute" /\ calls \in Scripts
      /\ received \in Seq(Seq(Nat)) /\ n \in Nat /\ DOMAIN received = 1..n
  BY LenProperties DEF SentInv, TypeOK
<1>2. /\ packet[1].control = 0
      /\ [b \in DOMAIN packet |-> packet[b].lane0] = lanes
  BY PacketOfProgram
<1>3. /\ received' = Append(received, lanes) /\ UNCHANGED <<calls, aref>> /\ at' = at + 1
  <2>1. CardTakes(packet, Call.reads) /\ UNCHANGED calls /\ at' = at + 1
    BY DEF Send, Return
  <2> HIDE DEF packet, lanes
  <2>2. 0 # ResetBit /\ 0 # ArefBit
    BY DEF ResetBit, ArefBit
  <2>3. /\ received' = Append(received, [b \in DOMAIN packet |-> packet[b].lane0])
        /\ UNCHANGED aref
    BY <1>2, <2>1, <2>2, Zenon DEF CardTakes
  <2> QED BY <1>2, <2>1, <2>3, Zenon
<1>4. Call.insts \in Nat \ {0}
  <2>1. Len(calls) \in Nat
    BY <1>1, ScriptsAssumption, LenProperties
  <2> QED BY <1>1, <2>1, CallTypes
<1>5. lanes \in Seq(Nat) /\ lanes[1] = at
  <2>1. lanes \in [1..Call.insts -> Nat]
    BY <1>1
  <2>2. Call.insts \in Nat /\ 1 \in 1..Call.insts
    BY <1>4
  <2> QED BY <2>1, <2>2, FunctionIsSeq
<1> HIDE DEF lanes, packet
<1>6. /\ DOMAIN received' = 1..(n + 1)
      /\ received'[n + 1] = lanes
      /\ \A p \in 1..n : received'[p] = received[p]
  BY <1>1, <1>3, <1>5, AppendProperties
<1>7. Made("setAREF")' = Made("setAREF") /\ Made("execute")' = Made("execute") \cup {at}
  BY <1>1, <1>3, MadeGrows DEF SentInv
<1>8. \A p \in 1..n : received[p][1] \in Made("execute") /\ received[p][1] < at
  <2>1. {received[p][1] : p \in 1..n} = Made("execute")
    BY <1>1 DEF SentInv, CardMatchesCalls
  <2>2. \A j \in Made("execute") : j < at
    BY <1>1 DEF Made
  <2> QED BY <2>1, <2>2
<1>9. aref' = \E j \in Made("setAREF")' : calls'[j].on /\ \A k \in Made("setAREF")' : k <= j
  <2>1. aref = \E j \in Made("setAREF") : calls[j].on /\ \A k \in Made("setAREF") : k <= j
    BY Zenon DEF SentInv, CardMatchesCalls
  <2>2. aref' = aref /\ calls' = calls
    BY <1>3
  <2> QED BY <1>7, <2>1, <2>2, Zenon
<1>10. {received'[p][1] : p \in DOMAIN received'} = Made("execute")'
  <2>1. {received[p][1] : p \in 1..n} = Made("execute")
    BY <1>1 DEF SentInv, CardMatchesCalls
  <2>2. 1..(n + 1) = 1..n \cup {n + 1}
    BY <1>1
  <2> HIDE DEF n
  <2> QED BY <1>5, <1>6, <1>7, <2>1, <2>2, SMTT(30)
<1>11. \A p, q \in DOMAIN received' : p < q => received'[p][1] < received'[q][1]
  <2> SUFFICES ASSUME NEW p \in 1..(n + 1), NEW q \in 1..(n + 1), p < q
               PROVE  received'[p][1] < received'[q][1]
    BY <1>6
  <2>1. p \in 1..n /\ (q \in 1..n \/ q = n + 1)
    <3>1. n \in Nat
      BY <1>1
    <3> HIDE DEF n
    <3> QED BY <3>1
  <2> QED BY <1>1, <1>5, <1>6, <1>8, <2>1 DEF SentInv, CardMatchesCalls
<1>12. \A p \in DOMAIN received' :
         received'[p] = [b \in 1..calls'[received'[p][1]].insts |-> received'[p][1]]
  <2> SUFFICES ASSUME NEW p \in 1..(n + 1)
               PROVE  received'[p] = [b \in 1..calls[received'[p][1]].insts |-> received'[p][1]]
    BY <1>3, <1>6
  <2>1. CASE p \in 1..n
    <3>1. received[p] = [b \in 1..calls[received[p][1]].insts |-> received[p][1]]
      BY <1>1, <2>1, Zenon DEF SentInv, CardMatchesCalls
    <3> QED BY <1>6, <2>1, <3>1
  <2>2. CASE p = n + 1
    BY <1>5, <1>6, <2>2 DEF lanes, Call
  <2> QED BY <1>1, <2>1, <2>2
<1> QED BY <1>9, <1>10, <1>11, <1>12, Zenon DEF CardMatchesCalls


\* An auto-refresh switch takes effect as its call says; no program goes with it.
LEMMA SwitchSent ==
  ASSUME SentInv, SetAREF
  PROVE  CardMatchesCalls'
<1> DEFINE beat == [lane0 |-> IF Call.on THEN 1 ELSE 0, control |-> ArefBit]
<1>1. /\ at \in Nat \ {0} /\ at <= Len(calls) /\ Call.op = "setAREF" /\ calls \in Scripts
  BY DEF SentInv, TypeOK, SetAREF, Making
<1>2. CardTakes(<<beat>>, 0) /\ UNCHANGED calls /\ at' = at + 1
  BY DEF SetAREF, SendCommand, Return
<1>3. <<beat>>[1] = beat /\ beat.control = ArefBit
  OBVIOUS
<1>4. Call.on \in BOOLEAN
  <2>1. at \in 1..Len(calls)
    BY <1>1, ScriptsAssumption, LenProperties
  <2>2. Call \in Calls
    BY <1>1, <2>1, CallTypes
  <2> QED BY <1>1, <2>2 DEF Calls
<1>5. (beat.lane0 = 1) <=> Call.on
  BY <1>4
<1> HIDE DEF beat
<1>6. UNCHANGED received /\ aref' = (beat.lane0 = 1)
  <2>1. <<beat>>[1].control = ArefBit /\ <<beat>>[1].lane0 = beat.lane0
    BY <1>3
  <2>2. ArefBit # 0 /\ ArefBit # ResetBit
    BY DEF ResetBit, ArefBit
  <2> QED BY <1>2, <2>1, <2>2, Zenon DEF CardTakes
<1>7. Made("setAREF")' = Made("setAREF") \cup {at} /\ Made("execute")' = Made("execute")
  BY <1>1, <1>2, MadeGrows DEF SentInv
<1>8. aref' <=> \E j \in Made("setAREF")' : calls'[j].on /\ \A k \in Made("setAREF")' : k <= j
  <2>1. \A k \in Made("setAREF") : k \in Nat /\ k < at
    BY <1>1 DEF Made
  <2>2. \A j \in Made("setAREF")' : (\A k \in Made("setAREF")' : k <= j) <=> j = at
    BY <1>1, <1>7, <2>1
  <2>3. (\E j \in Made("setAREF")' : calls'[j].on /\ \A k \in Made("setAREF")' : k <= j) <=> calls'[at].on
    BY <1>7, <2>2
  <2>4. calls'[at].on = Call.on
    BY <1>2 DEF Call
  <2> QED BY <1>5, <1>6, <2>3, <2>4, Zenon
<1>9. aref' = \E j \in Made("setAREF")' : calls'[j].on /\ \A k \in Made("setAREF")' : k <= j
  <2>1. aref' \in BOOLEAN
    BY <1>6
  <2> QED BY <1>8, <2>1, Zenon
<1>10. {received'[p][1] : p \in DOMAIN received'} = Made("execute")'
  BY <1>6, <1>7 DEF SentInv, CardMatchesCalls
<1>11. \A p, q \in DOMAIN received' : p < q => received'[p][1] < received'[q][1]
  BY <1>6, Zenon DEF SentInv, CardMatchesCalls
<1>12. \A p \in DOMAIN received' :
         received'[p] = [b \in 1..calls'[received'[p][1]].insts |-> received'[p][1]]
  BY <1>2, <1>6, Zenon DEF SentInv, CardMatchesCalls
<1> QED BY <1>9, <1>10, <1>11, <1>12, Zenon DEF CardMatchesCalls

\* The buffer is clear again when a call returns, and holds one program while it waits.
LEMMA BufferInductive ==
  ASSUME SentInv, [Next]_vars
  PROVE  BufferInv'
<1>1. CASE Execute
  <2>1. /\ pc' = "join" /\ UNCHANGED <<calls, at>> /\ sendBuffer = EmptyBuffer
        /\ sendBuffer' = [b \in 1..MaxInsts |->
                            IF b <= Call.insts THEN [sendBuffer[b] EXCEPT !.lane0 = at] ELSE sendBuffer[b]]
    BY <1>1 DEF Execute, Making, SentInv, BufferInv
  <2>2. \A b \in 1..MaxInsts : sendBuffer[b] = NoBeat
    BY <2>1 DEF EmptyBuffer
  <2>3. sendBuffer' = [b \in 1..MaxInsts |-> IF b <= Call.insts THEN [NoBeat EXCEPT !.lane0 = at] ELSE NoBeat]
    BY <2>1, <2>2, Zenon
  <2> QED BY <2>1, <2>3 DEF BufferInv, Call
<1>2. CASE Send
  <2>1. /\ pc = "send" /\ pc' = "call"
        /\ sendBuffer' = [b \in 1..MaxInsts |-> IF b <= Call.insts THEN NoBeat ELSE sendBuffer[b]]
    BY <1>2 DEF Send, Return
  <2>2. sendBuffer = [b \in 1..MaxInsts |-> IF b <= Call.insts THEN [NoBeat EXCEPT !.lane0 = at] ELSE NoBeat]
    BY <2>1 DEF SentInv, BufferInv
  <2> DEFINE full == [NoBeat EXCEPT !.lane0 = at]
  <2> HIDE DEF full
  <2>3. \A b \in 1..MaxInsts : ~(b <= Call.insts) => sendBuffer[b] = NoBeat
    BY <2>2, Zenon
  <2>4. \A b \in 1..MaxInsts : sendBuffer'[b] = NoBeat
    BY <2>1, <2>3
  <2>5. sendBuffer' = EmptyBuffer
    BY <2>1, <2>4 DEF EmptyBuffer
  <2> QED BY <2>1, <2>5 DEF BufferInv
<1>3. CASE ResetFPGA \/ SetAREF
  BY <1>3 DEF ResetFPGA, SetAREF, SendCommand, Return, BufferInv
<1>4. CASE ExecuteRejected \/ WriteFails \/ RecvFails
  BY <1>4 DEF ExecuteRejected, WriteFails, RecvFails, BufferInv
<1>5. CASE JoinAndSpawn
  BY <1>5 DEF JoinAndSpawn, SentInv, BufferInv, Call
<1>6. CASE ReceiveData
  BY <1>6 DEF ReceiveData, Making, SentInv, BufferInv, Call
<1>7. CASE ReceiveReturns \/ Close
  BY <1>7 DEF ReceiveReturns, Close, Making, Return, SentInv, BufferInv
<1>8. CASE Destroy
  BY <1>8 DEF Destroy, Making, Return, SentInv, BufferInv
<1>9. CASE Pop
  BY <1>9 DEF Pop, SentInv, BufferInv, Call
<1>10. CASE Recv \/ Push \/ ChunkDone \/ Card \/ RecvEmpty \/ UNCHANGED vars
  <2>1. UNCHANGED <<calls, at, pc, sendBuffer>>
    BY <1>10 DEF Recv, Push, ChunkDone, LeaveChunk, Card, CardRead, CardEnds, RecvEmpty, vars, hostVars
  <2> QED BY <2>1 DEF SentInv, BufferInv, Call
<1> QED BY <1>1, <1>2, <1>3, <1>4, <1>5, <1>6, <1>7, <1>8, <1>9, <1>10
     DEF Next, Host, Receiver, Fault, Stopped

LEMMA SentInductive == SentInv /\ [Next]_vars => SentInv'
<1> SUFFICES ASSUME SentInv, [Next]_vars PROVE SentInv'
  OBVIOUS
<1>1. TypeOK' /\ BufferInv'
  BY TypeInductive, BufferInductive DEF SentInv
<1>2. CASE Send
  BY <1>1, <1>2, ProgramSent DEF SentInv, Send
<1>3. CASE SetAREF
  BY <1>1, <1>3, SwitchSent DEF SentInv
<1>4. CASE ResetFPGA \/ ReceiveReturns \/ Close \/ (Destroy /\ at' = at + 1)
  <2>1. /\ at <= Len(calls) /\ at' = at + 1 /\ UNCHANGED calls
        /\ Call.op \in {"resetFPGA", "receiveData", "close", "destroy"}
    BY <1>4 DEF ResetFPGA, SendCommand, ReceiveReturns, Close, Destroy, Making, Return,
         SentInv, TypeOK, BufferInv
  <2>2. Made("setAREF")' = Made("setAREF") /\ Made("execute")' = Made("execute")
    BY <2>1, MadeGrows DEF SentInv
  <2>3. UNCHANGED <<aref, received>>
    <3>1. CASE ResetFPGA
      <4> DEFINE beat == [NoBeat EXCEPT !.control = ResetBit]
      <4>1. <<beat>>[1].control = ResetBit
        BY DEF NoBeat
      <4>2. CardTakes(<<beat>>, 0)
        BY <3>1 DEF ResetFPGA, SendCommand
      <4>3. ResetBit # 0 /\ ResetBit # ArefBit
        BY DEF ResetBit, ArefBit
      <4> HIDE DEF beat
      <4> QED BY <4>1, <4>2, <4>3, Zenon DEF CardTakes
    <3>2. CASE ReceiveReturns \/ Close \/ Destroy
      BY <3>2 DEF ReceiveReturns, Close, Destroy, cardVars
    <3> QED BY <1>4, <3>1, <3>2
  <2> QED BY <1>1, <2>1, <2>2, <2>3, NothingSent DEF SentInv
<1>5. CASE \/ Execute \/ ExecuteRejected \/ JoinAndSpawn \/ ReceiveData \/ Pop
           \/ Receiver \/ Card \/ Fault \/ (Destroy /\ at' = at)
           \/ UNCHANGED vars
  <2>1. UNCHANGED <<calls, at, aref, received>>
    BY <1>5 DEF Execute, ExecuteRejected, JoinAndSpawn, ReceiveData, Pop, Destroy, Receiver, Recv, Push,
         ChunkDone, LeaveChunk, Card, CardRead, CardEnds, Fault, WriteFails, RecvEmpty, RecvFails,
         vars, hostVars, cardVars
  <2>2. Made("setAREF")' = Made("setAREF") /\ Made("execute")' = Made("execute")
    BY <2>1 DEF Made
  <2> QED BY <1>1, <2>1, <2>2, NothingSent DEF SentInv
<1>6. CASE Destroy
  <2>1. at' = at + 1 \/ at' = at
    BY <1>6 DEF Destroy, Return
  <2>2. CASE at' = at + 1
    BY <1>4, <1>6, <2>2, Zenon
  <2>3. CASE at' = at
    BY <1>5, <1>6, <2>3, Zenon
  <2> QED BY <2>1, <2>2, <2>3
<1>7. CASE Host
  BY <1>2, <1>3, <1>4, <1>5, <1>6, <1>7, Zenon DEF Host
<1>8. CASE Receiver \/ Card \/ Fault \/ UNCHANGED vars
  BY <1>5, <1>8, Zenon
<1>9. CASE Stopped
  BY <1>8, <1>9 DEF Stopped
<1> QED BY <1>7, <1>8, <1>9, Zenon DEF Next

\* What the card got is what the calls said, for every script, also where a file of the
\* board fails.
THEOREM CardGetsTheCalls == Spec => []CardMatchesCalls
<1>1. SentInv => CardMatchesCalls
  BY DEF SentInv
<1> QED BY <1>1, SentInitial, SentInductive, PTL DEF Spec

-----------------------------------------------------------------------------
(* Which scripts can come to their end *)

Sums(amount, n) ==
  {s \in [0..n -> Nat] : s[0] = 0 /\ \A k \in 1..n : s[k] = s[k - 1] + amount[k]}

\* The prefixes of a sequence have sums.
LEMMA SumsExist ==
  ASSUME NEW amount \in Seq(Nat), NEW n \in Nat, n <= Len(amount)
  PROVE  Sums(amount, n) # {}
<1> DEFINE S == {m \in Nat : m <= Len(amount) => Sums(amount, m) # {}}
<1>1. 0 \in S
  <2>1. [k \in 0..0 |-> 0] \in [0..0 -> Nat] /\ [k \in 0..0 |-> 0][0] = 0 /\ 1..0 = {}
    OBVIOUS
  <2> QED BY <2>1 DEF Sums
<1>2. ASSUME NEW m \in Nat, m \in S PROVE m + 1 \in S
  <2> SUFFICES ASSUME m + 1 <= Len(amount)
               PROVE  Sums(amount, m + 1) # {}
    OBVIOUS
  <2>0. Sums(amount, m) # {}
    BY <1>2
  <2>1. PICK s \in [0..m -> Nat] : s[0] = 0 /\ \A k \in 1..m : s[k] = s[k - 1] + amount[k]
    BY <2>0 DEF Sums
  <2> DEFINE u == [k \in 0..m + 1 |-> IF k = m + 1 THEN s[m] + amount[m + 1] ELSE s[k]]
  <2>2. s[m] \in Nat /\ amount[m + 1] \in Nat
    OBVIOUS
  <2>3. u \in [0..m + 1 -> Nat]
    BY <2>2
  <2>4. u[0] = 0
    BY <2>1
  <2>5. ASSUME NEW k \in 1..m + 1 PROVE u[k] = u[k - 1] + amount[k]
    <3>1. CASE k = m + 1
      BY <3>1
    <3>2. CASE k # m + 1
      BY <2>1, <3>2
    <3> QED BY <3>1, <3>2
  <2> HIDE DEF u
  <2> QED BY <2>3, <2>4, <2>5 DEF Sums
<1> HIDE DEF S
<1>3. n \in S
  BY <1>1, <1>2, InductionBySet
<1> QED BY <1>3 DEF S

\* Each sum adds an element to the one before.
LEMMA SumsUnfold ==
  ASSUME NEW amount \in Seq(Nat)
  PROVE  /\ RunningSum(amount) \in [0..Len(amount) -> Nat]
         /\ RunningSum(amount)[0] = 0
         /\ \A n \in 1..Len(amount) : RunningSum(amount)[n] = RunningSum(amount)[n - 1] + amount[n]
<1>1. PICK s \in [0..Len(amount) -> Nat] :
        s[0] = 0 /\ \A k \in 1..Len(amount) : s[k] = s[k - 1] + amount[k]
  BY SumsExist DEF Sums
<1>2. s = [n \in 0..Len(amount) |-> IF n = 0 THEN 0 ELSE s[n - 1] + amount[n]]
  BY <1>1
<1> DEFINE w == CHOOSE w : w = [n \in 0..Len(amount) |-> IF n = 0 THEN 0 ELSE w[n - 1] + amount[n]]
<1>3. w = [n \in 0..Len(amount) |-> IF n = 0 THEN 0 ELSE w[n - 1] + amount[n]]
  BY <1>2
<1>4. RunningSum(amount) = w
  BY DEF RunningSum
<1> HIDE DEF w
<1>5. w[0] = 0 /\ \A n \in 1..Len(amount) : w[n] = w[n - 1] + amount[n]
  BY <1>3, SMTT(30)
<1> DEFINE S == {n \in Nat : n <= Len(amount) => w[n] \in Nat}
<1>6. 0 \in S
  BY <1>5
<1>7. ASSUME NEW n \in Nat, n \in S PROVE n + 1 \in S
  BY <1>5, <1>7, SMTT(30)
<1> HIDE DEF S
<1>8. Nat \subseteq S
  BY <1>6, <1>7, InductionBySet
<1>9. \A n \in 0..Len(amount) : w[n] \in Nat
  BY <1>8 DEF S
<1>10. w \in [0..Len(amount) -> Nat]
  BY <1>3, <1>9
<1> QED BY <1>4, <1>5, <1>10

\* What a call adds to the words read and to the words asked for.
LEMMA CallAdds ==
  ASSUME TypeOK
  PROVE  /\ at \in Nat \ {0}
         /\ Produced(calls)[0] = 0 /\ Taken(calls)[0] = 0
         /\ \A i \in 0..Len(calls) : Produced(calls)[i] \in Nat /\ Taken(calls)[i] \in Nat
         /\ at <= Len(calls) =>
              /\ Produced(calls)[at] = Produced(calls)[at - 1]
                   + (IF Call.op = "execute" THEN Call.reads * ReadWords ELSE 0)
              /\ Taken(calls)[at] = Taken(calls)[at - 1]
                   + (IF Call.op = "receiveData" THEN Call.words ELSE 0)
<1>1. calls \in Seq(Calls) /\ at \in 1..(Len(calls) + 1) /\ Len(calls) \in Nat
  BY ScriptsAssumption, LenProperties DEF TypeOK
<1>2. ASSUME NEW n \in 1..Len(calls)
      PROVE  WordsRead(calls)[n] \in Nat /\ WordsAsked(calls)[n] \in Nat
  <2>1. calls[n] \in Calls
    BY <1>1
  <2>2. calls[n].op = "execute" => calls[n].reads \in Nat
    BY <2>1 DEF Calls
  <2>3. calls[n].op = "receiveData" => calls[n].words \in Nat
    BY <2>1 DEF Calls
  <2>4. \A a, b \in Nat : a * b \in Nat
    OBVIOUS
  <2>5. calls[n].op = "execute" => calls[n].reads * ReadWords \in Nat
    BY <2>2, <2>4, Sizes
  <2> QED BY <2>3, <2>5 DEF WordsRead, WordsAsked
<1>3. /\ WordsRead(calls) \in Seq(Nat) /\ Len(WordsRead(calls)) = Len(calls)
      /\ WordsAsked(calls) \in Seq(Nat) /\ Len(WordsAsked(calls)) = Len(calls)
  <2>1. WordsRead(calls) \in [1..Len(calls) -> Nat] /\ WordsAsked(calls) \in [1..Len(calls) -> Nat]
    BY <1>2 DEF WordsRead, WordsAsked
  <2> QED BY <1>1, <2>1, FunctionIsSeq
<1>4. /\ Produced(calls) \in [0..Len(calls) -> Nat] /\ Produced(calls)[0] = 0
      /\ \A n \in 1..Len(calls) : Produced(calls)[n] = Produced(calls)[n - 1] + WordsRead(calls)[n]
  BY <1>3, SumsUnfold DEF Produced
<1>5. /\ Taken(calls) \in [0..Len(calls) -> Nat] /\ Taken(calls)[0] = 0
      /\ \A n \in 1..Len(calls) : Taken(calls)[n] = Taken(calls)[n - 1] + WordsAsked(calls)[n]
  BY <1>3, SumsUnfold DEF Taken
<1>6. at <= Len(calls) =>
        /\ WordsRead(calls)[at] = IF Call.op = "execute" THEN Call.reads * ReadWords ELSE 0
        /\ WordsAsked(calls)[at] = IF Call.op = "receiveData" THEN Call.words ELSE 0
  BY <1>1 DEF WordsRead, WordsAsked, Call
<1>7. \A i \in 0..Len(calls) : Produced(calls)[i] \in Nat /\ Taken(calls)[i] \in Nat
  BY <1>4, <1>5
<1>8. at <= Len(calls) =>
        /\ Produced(calls)[at] = Produced(calls)[at - 1] + WordsRead(calls)[at]
        /\ Taken(calls)[at] = Taken(calls)[at - 1] + WordsAsked(calls)[at]
  BY <1>1, <1>4, <1>5
<1>9. at \in Nat \ {0}
  BY <1>1
<1> QED BY <1>4, <1>5, <1>6, <1>7, <1>8, <1>9, Zenon

\* What the program on the card has still to read.
LEMMA LeftIsNat == TypeOK => Left \in Nat
<1> SUFFICES ASSUME TypeOK PROVE Left \in Nat
  OBVIOUS
<1>1. jobs # << >> => Head(jobs) \in Nat
  BY Lengths, HeadTailProperties
<1>2. \A a, b \in Nat : a * b \in Nat
  OBVIOUS
<1> QED BY <1>1, <1>2, Sizes DEF Left

LEMMA FitInitial == Init => HostFits
<1> SUFFICES ASSUME Init PROVE HostFits
  OBVIOUS
<1>1. IInv /\ SentInv
  BY TypeInitial, StreamInitial, SentInitial DEF IInv
<1>2. /\ at = 1 /\ pc = "call" /\ ring = << >> /\ dst = << >> /\ jobs = << >> /\ nextWord = 1
  BY DEF Init
<1>3. Produced(calls)[0] = 0 /\ Taken(calls)[0] = 0
  BY <1>1, CallAdds DEF IInv
<1>4. Left = 0 /\ Len(ring) = 0 /\ Len(dst) = 0 /\ at - 1 = 0
  BY <1>2 DEF Left
<1>5. FitInv
  BY <1>2, <1>3, <1>4, SizesAssumption DEF FitInv
<1> QED BY <1>1, <1>5 DEF HostFits

\* A call that returns with what FitInv says of it.
LEMMA ReturnFits ==
  ASSUME TypeOK, FitInv, at <= Len(calls), FitsAt(calls, at), Return, UNCHANGED <<calls, ring, dst>>,
         Len(dst) = Taken(calls)[at],
         nextWord' - 1 + Left' <= Produced(calls)[at],
         nextWord' - 1 + Left' = Produced(calls)[at] \/ Abandoned'
  PROVE  FitInv'
<1>1. at \in Nat \ {0} /\ at' = at + 1 /\ pc' = "call" /\ at' - 1 = at
  BY CallAdds DEF Return
<1>2. \A i \in 1..(at' - 1) : FitsAt(calls', i)
  <2> SUFFICES ASSUME NEW i \in 1..at PROVE FitsAt(calls, i)
    BY <1>1
  <2>1. CASE i = at
    BY <2>1
  <2>2. CASE i # at
    BY <1>1, <2>2 DEF FitInv
  <2> QED BY <2>1, <2>2
<1> QED BY <1>1, <1>2 DEF FitInv

\* When a call joins the thread nothing is left on the card: what has been read and not
\* been received is in the ring buffer, and fits in it.
LEMMA JoinFits ==
  ASSUME HostFits, ReceiverEnded, pc \in {"call", "join"}, at <= Len(calls),
         Call.op \in {"execute", "close"}
  PROVE  /\ FitsAt(calls, at)
         /\ nextWord - 1 + Left = Produced(calls)[at - 1]
<1> USE DEF HostFits, IInv, StreamInv
<1>1. jobs = << >> /\ c2h = << >> /\ Pending = 0 /\ DataLen = 0 /\ Left = 0
  BY FifoShape DEF ReceiverInv, ReceiverEnded, Pending, Left
<1>2. nextWord = Len(dst) + Len(ring) + 1
  BY <1>1, Lengths DEF CardInv, Base, OnHost
<1>3. nextWord - 1 + Left = Produced(calls)[at - 1]
  BY DEF FitInv, Abandoned, ReceiverEnded
<1>4. Len(dst) = Taken(calls)[at - 1] /\ Len(ring) <= RingCapacity
  BY DEF FitInv
<1>5. Len(dst) \in Nat /\ Len(ring) \in Nat
  BY Lengths
<1>6. Produced(calls)[at - 1] - Taken(calls)[at - 1] <= RingCapacity
  BY <1>1, <1>2, <1>3, <1>4, <1>5, SizesAssumption
<1> QED BY <1>3, <1>6 DEF FitsAt, Call

\* Steps of the host inside a call, and those with which the process ends.
LEMMA HostStepFits ==
  ASSUME HostFits,
         \/ Execute \/ ExecuteRejected \/ JoinAndSpawn \/ ReceiveData \/ Pop
         \/ (Destroy /\ pc' = "terminate") \/ WriteFails \/ RecvFails \/ UNCHANGED vars
  PROVE  FitInv'
<1> USE DEF HostFits, IInv
<1>1. CASE JoinAndSpawn
  <2>1. /\ pc = "join" /\ ReceiverEnded /\ pc' = "send"
        /\ UNCHANGED <<calls, at, ring, dst, jobs, nextWord>>
    BY <1>1 DEF JoinAndSpawn, cardVars
  <2>2. FitsAt(calls, at) /\ nextWord - 1 + Left = Produced(calls)[at - 1]
    BY <2>1, JoinFits DEF TypeOK
  <2>3. Left' = Left
    BY <2>1 DEF Left
  <2> QED BY <2>1, <2>2, <2>3 DEF FitInv
<1>2. CASE ReceiveData
  <2>1. /\ pc = "call" /\ at <= Len(calls) /\ Call.op = "receiveData"
        /\ want' = Call.words /\ pc' = "pop"
        /\ UNCHANGED <<calls, at, receiver, recvBuffer, ring, dst, jobs, c2h, nextWord>>
    BY <1>2 DEF ReceiveData, Making, recvVars, cardVars
  <2>2. Len(dst) + want' = Taken(calls)[at]
    BY <2>1, CallAdds DEF FitInv
  <2>3. Left' = Left /\ (Abandoned => Abandoned')
    BY <2>1 DEF Left, Abandoned, HasMarker
  <2> QED BY <2>1, <2>2, <2>3 DEF FitInv
<1>3. CASE Pop
  <2>1. PICK k \in 1..Minimum(want, Len(ring)) :
          /\ dst' = dst \o SubSeq(ring, 1, k)
          /\ ring' = SubSeq(ring, k + 1, Len(ring))
          /\ want' = want - k
    BY <1>3 DEF Pop
  <2>2. /\ pc = "pop"
        /\ UNCHANGED <<calls, at, pc, receiver, recvBuffer, jobs, c2h, nextWord>>
    BY <1>3 DEF Pop, recvVars, cardVars
  <2>3. k \in 0..Len(ring) /\ Len(dst) \in Nat /\ Len(ring) \in Nat /\ want \in Nat
    <3>1. want \in Nat /\ Len(ring) \in Nat /\ Len(dst) \in Nat
      BY Lengths
    <3> QED BY <3>1 DEF Minimum
  <2> DEFINE taken == SubSeq(ring, 1, k)
  <2>4. taken \in Seq(Nat) /\ Len(taken) = k /\ Len(ring') = Len(ring) - k
    BY <2>1, <2>3, Lengths, Split
  <2>5. Len(dst') = Len(dst) + k
    <3>1. dst \in Seq(Nat) /\ dst' = dst \o taken
      BY <2>1, Lengths
    <3> HIDE DEF taken
    <3> QED BY <2>4, <3>1, ConcatProperties
  <2>6. Len(dst') + want' = Len(dst) + want /\ Len(ring') <= Len(ring)
    BY <2>1, <2>3, <2>4, <2>5
  <2>7. Left' = Left /\ (Abandoned => Abandoned')
    BY <2>2 DEF Left, Abandoned, HasMarker
  <2>8. Len(dst') + want' = Taken(calls)[at] /\ Len(ring') <= RingCapacity
    BY <2>2, <2>3, <2>4, <2>6, SizesAssumption DEF FitInv
  <2> QED BY <2>2, <2>7, <2>8 DEF FitInv
<1>4. CASE \/ Execute \/ ExecuteRejected \/ (Destroy /\ pc' = "terminate")
           \/ WriteFails \/ RecvFails \/ UNCHANGED vars
  <2>1. /\ pc' = pc \/ (pc = "call" /\ pc' = "join") \/ pc' = "abort" \/ pc' = "terminate"
        /\ UNCHANGED <<calls, at, want, receiver, recvBuffer, ring, dst, jobs, c2h, nextWord>>
    BY <1>4 DEF Execute, ExecuteRejected, Destroy, WriteFails, RecvFails, Making, Return,
         vars, hostVars, recvVars, cardVars
  <2>2. Left' = Left /\ (Abandoned => Abandoned')
    BY <2>1 DEF Left, Abandoned, HasMarker
  <2> QED BY <2>1, <2>2 DEF FitInv
<1> QED BY <1>1, <1>2, <1>3, <1>4

\* The steps with which a call returns.
LEMMA ReturnStepFits ==
  ASSUME HostFits,
         \/ Send \/ ReceiveReturns \/ Close \/ ResetFPGA \/ SetAREF
         \/ (Destroy /\ pc' # "terminate")
  PROVE  FitInv'
<1> USE DEF HostFits, IInv
<1>1. CASE Send
  <2> DEFINE packet == SubSeq(sendBuffer, 1, Call.insts)
  <2>1. /\ pc = "send" /\ at <= Len(calls) /\ Call.op = "execute" /\ Return
        /\ receiver = "recv" /\ jobs = << >>
        /\ CardTakes(packet, Call.reads)
        /\ UNCHANGED <<calls, ring, dst, nextWord>>
    BY <1>1 DEF Send, TypeOK, StreamInv, HostInv, CardTakes
  <2>2. packet[1].control = 0
    BY <2>1, PacketOfProgram
  <2>3. jobs' = Append(jobs, Call.reads)
    <3> HIDE DEF packet
    <3> QED BY <2>1, <2>2 DEF CardTakes, ResetBit, ArefBit
  <2>4. Call.reads \in Nat
    BY <2>1, CallTypes DEF TypeOK
  <2>5. jobs' # << >> /\ Head(jobs') = Call.reads
    BY <2>1, <2>3, <2>4
  <2>6. Left = 0 /\ Left' = Call.reads * ReadWords
    BY <2>1, <2>5 DEF Left
  <2>7. nextWord - 1 = Produced(calls)[at - 1]
    BY <2>1, <2>6, Lengths DEF FitInv, Abandoned
  <2>8. /\ Produced(calls)[at] = Produced(calls)[at - 1] + Call.reads * ReadWords
        /\ Taken(calls)[at] = Taken(calls)[at - 1]
    BY <2>1, CallAdds
  <2>9. PICK w \in Nat : w = Call.reads * ReadWords
    BY <2>4, Sizes
  <2>10. nextWord' - 1 + Left' = Produced(calls)[at]
    BY <2>1, <2>6, <2>7, <2>8, <2>9, Lengths
  <2>11. Len(dst) = Taken(calls)[at] /\ FitsAt(calls, at)
    BY <2>1, <2>8 DEF FitInv
  <2>12. Produced(calls)[at] \in Nat
    BY <2>1, CallAdds
  <2> QED BY <2>1, <2>10, <2>11, <2>12, ReturnFits
<1>2. CASE ReceiveReturns
  <2>1. /\ pc = "pop" /\ want = 0 /\ at <= Len(calls) /\ Call.op = "receiveData" /\ Return
        /\ pc' = "call"
        /\ UNCHANGED <<calls, receiver, recvBuffer, ring, dst, jobs, c2h, nextWord>>
    BY <1>2 DEF ReceiveReturns, TypeOK, SentInv, BufferInv, Return, recvVars, cardVars
  <2>2. Left' = Left /\ (Abandoned => Abandoned')
    BY <2>1 DEF Left, Abandoned, HasMarker
  <2>3. Produced(calls)[at] = Produced(calls)[at - 1] /\ Produced(calls)[at] \in Nat
    BY <2>1, CallAdds
  <2>4. Len(dst) = Taken(calls)[at]
    BY <2>1, Lengths DEF FitInv
  <2>5. nextWord - 1 >= Len(dst)
    <3>1. Pending \in Nat /\ Base \in Nat /\ DataLen \in Nat
      BY BaseIsNat, FifoShape DEF StreamInv
    <3> QED BY <3>1, Lengths, SMTT(30) DEF StreamInv, CardInv, Base, OnHost
  <2>6. Taken(calls)[at] <= Produced(calls)[at]
    BY <2>3, <2>4, <2>5, LeftIsNat, Lengths DEF FitInv
  <2>7. FitsAt(calls, at)
    BY <2>1, <2>6 DEF FitsAt, Call
  <2>8. /\ nextWord' - 1 + Left' <= Produced(calls)[at]
        /\ nextWord' - 1 + Left' = Produced(calls)[at] \/ Abandoned'
    BY <2>1, <2>2, <2>3 DEF FitInv
  <2> QED BY <2>1, <2>4, <2>7, <2>8, ReturnFits
<1>3. CASE Close
  <2>1. /\ pc = "call" /\ at <= Len(calls) /\ Call.op = "close" /\ Return /\ ReceiverEnded
        /\ UNCHANGED <<calls, ring, dst, jobs, nextWord>>
    BY <1>3 DEF Close, Making, cardVars
  <2>2. FitsAt(calls, at) /\ nextWord - 1 + Left = Produced(calls)[at - 1]
    BY <2>1, JoinFits
  <2>3. /\ Produced(calls)[at] = Produced(calls)[at - 1] /\ Produced(calls)[at] \in Nat
        /\ Taken(calls)[at] = Taken(calls)[at - 1]
    BY <2>1, CallAdds
  <2>4. Left' = Left
    BY <2>1 DEF Left
  <2>5. Len(dst) = Taken(calls)[at]
    BY <2>1, <2>3 DEF FitInv
  <2> QED BY <2>1, <2>2, <2>3, <2>4, <2>5, ReturnFits
<1>4. CASE ResetFPGA \/ SetAREF \/ (Destroy /\ pc' # "terminate")
  <2>1. /\ pc = "call" /\ at <= Len(calls) /\ Return /\ pc' = "call"
        /\ Call.op \in {"resetFPGA", "setAREF", "destroy"}
        /\ UNCHANGED <<calls, receiver, recvBuffer, ring, dst, c2h, nextWord>>
    BY <1>4 DEF ResetFPGA, SetAREF, Destroy, SendCommand, CardTakes, Making, Return,
         recvVars, cardVars
  <2>2. jobs' = jobs \/ jobs' = << >>
    <3>1. CASE ResetFPGA \/ SetAREF
      <4>1. PICK beat : SendCommand(beat) /\ beat.control \in {ResetBit, ArefBit}
        BY <3>1 DEF ResetFPGA, SetAREF, NoBeat
      <4> QED BY <4>1 DEF SendCommand, CardTakes, ResetBit, ArefBit
    <3>2. CASE Destroy
      BY <3>2 DEF Destroy, cardVars
    <3> QED BY <1>4, <3>1, <3>2
  <2>3. /\ Produced(calls)[at] = Produced(calls)[at - 1] /\ Produced(calls)[at] \in Nat
        /\ Taken(calls)[at] = Taken(calls)[at - 1]
    BY <2>1, CallAdds
  <2>4. FitsAt(calls, at) /\ Len(dst) = Taken(calls)[at]
    BY <2>1, <2>3 DEF FitsAt, Call, FitInv
  <2>5. /\ nextWord - 1 + Left <= Produced(calls)[at]
        /\ nextWord - 1 + Left = Produced(calls)[at] \/ Abandoned
    BY <2>3 DEF FitInv
  <2>6. CASE jobs' = jobs
    <3>1. Left' = Left /\ (Abandoned => Abandoned')
      BY <2>1, <2>6 DEF Left, Abandoned, HasMarker
    <3> QED BY <2>1, <2>4, <2>5, <3>1, ReturnFits
  <2>7. CASE jobs' = << >> /\ jobs # << >>
    <3>1. Abandoned'
      BY <2>1, <2>7 DEF Abandoned, HasMarker, StreamInv, CardInv, ReceiverInv, ReceiverEnded, TypeOK
    <3>2. Left' = 0 /\ nextWord \in Nat
      BY <2>7, Lengths DEF Left
    <3>3. nextWord' - 1 + Left' <= Produced(calls)[at]
      BY <2>1, <2>3, <2>5, <3>2, LeftIsNat
    <3> QED BY <2>1, <2>4, <3>1, <3>3, ReturnFits
  <2> QED BY <2>2, <2>6, <2>7
<1> QED BY <1>1, <1>2, <1>3, <1>4

\* Steps of the receiver thread and of the card.
LEMMA FlowStepFits ==
  ASSUME HostFits, Recv \/ Push \/ ChunkDone \/ CardRead \/ CardEnds
  PROVE  FitInv'
<1> USE DEF HostFits, IInv
<1>1. UNCHANGED <<calls, at, pc, want, dst>>
  BY DEF Recv, Push, ChunkDone, LeaveChunk, CardRead, CardEnds, hostVars
<1>2. ASSUME /\ Len(ring') <= RingCapacity
             /\ nextWord' - 1 + Left' = nextWord - 1 + Left
             /\ Abandoned => Abandoned'
      PROVE  FitInv'
  BY <1>1, <1>2 DEF FitInv
<1>3. Len(ring) <= RingCapacity
  BY DEF FitInv
<1>4. CASE Recv
  <2>1. PICK count \in 1..Len(c2h) :
          /\ Available(count)
          /\ recvBuffer' = SubSeq(c2h, 1, count)
          /\ c2h' = SubSeq(c2h, count + 1, Len(c2h))
    BY <1>4 DEF Recv
  <2>2. count = Len(c2h) /\ (Short(c2h) => HasMarker)
    BY <2>1, RecvTakesAll DEF StreamInv
  <2>3. recvBuffer' = c2h /\ c2h' = << >>
    BY <2>1, <2>2, Lengths, SubSeqFull, SubSeqEmpty
  <2>4. receiver' = "push" /\ UNCHANGED <<pc, ring, jobs, nextWord>>
    BY <1>4 DEF Recv, hostVars
  <2>5. Abandoned => Abandoned'
    BY <2>2, <2>3, <2>4 DEF Abandoned, HasMarker, Short
  <2>6. Left' = Left
    BY <2>4 DEF Left
  <2> QED BY <1>2, <1>3, <2>4, <2>5, <2>6
<1>5. CASE Push
  <2>1. PICK k \in 1..Minimum(ToPush(recvBuffer) - pushed, RingCapacity - Len(ring)) :
          ring' = ring \o SubSeq(recvBuffer, pushed + 1, pushed + k)
    BY <1>5 DEF Push
  <2>2. UNCHANGED <<pc, receiver, recvBuffer, jobs, c2h, nextWord>>
    BY <1>5 DEF Push, hostVars, cardVars
  <2>3. /\ k \in Nat /\ k <= RingCapacity - Len(ring) /\ pushed + k <= Len(recvBuffer)
        /\ pushed \in Nat /\ Len(ring) \in Nat /\ Len(recvBuffer) \in Nat
    <3>1. /\ Len(recvBuffer) \in Nat /\ Len(ring) \in Nat /\ pushed \in Nat
          /\ ToPush(recvBuffer) \in Int /\ ToPush(recvBuffer) <= Len(recvBuffer)
      BY Lengths, Sizes DEF ToPush
    <3> QED BY <3>1, SizesAssumption DEF Minimum
  <2> DEFINE added == SubSeq(recvBuffer, pushed + 1, pushed + k)
  <2>4. added \in Seq(Nat) /\ Len(added) = k
    <3>1. \A i \in (pushed + 1)..(pushed + k) : recvBuffer[i] \in Nat
      <4>1. recvBuffer \in Seq(Nat)
        BY Lengths
      <4>2. \A i \in (pushed + 1)..(pushed + k) : i \in 1..Len(recvBuffer)
        BY <2>3
      <4> QED BY <4>1, <4>2, ElementOfSeq
    <3>2. pushed + 1 \in Int /\ pushed + k \in Int
      BY <2>3
    <3>3. /\ added \in Seq(Nat)
          /\ Len(added) = IF pushed + 1 <= pushed + k THEN pushed + k - (pushed + 1) + 1 ELSE 0
      BY <2>3, <3>1, <3>2, SubSeqProperties
    <3> QED BY <2>3, <3>3
  <2>5. Len(ring') = Len(ring) + k
    <3>1. ring' = ring \o added /\ ring \in Seq(Nat)
      BY <2>1, Lengths
    <3> HIDE DEF added
    <3> QED BY <2>4, <3>1, ConcatProperties
  <2>6. Len(ring') <= RingCapacity
    BY <2>3, <2>5, SizesAssumption
  <2>7. Left' = Left /\ (Abandoned => Abandoned')
    BY <2>2 DEF Left, Abandoned, HasMarker
  <2> QED BY <1>2, <2>2, <2>6, <2>7
<1>6. CASE ChunkDone
  <2>1. /\ receiver = "push" /\ receiver' = IF Short(recvBuffer) THEN "done" ELSE "recv"
        /\ UNCHANGED <<pc, ring, jobs, c2h, nextWord>>
    BY <1>6 DEF ChunkDone, LeaveChunk, hostVars, cardVars
  <2>2. Left' = Left /\ (Abandoned => Abandoned')
    BY <2>1 DEF Left, Abandoned, HasMarker
  <2> QED BY <1>2, <1>3, <2>1, <2>2
<1>7. ASSUME jobs # << >>
      PROVE  /\ Head(jobs) \in Nat /\ Tail(jobs) = << >> /\ ~Abandoned
             /\ Left = Head(jobs) * ReadWords
  <2>1. /\ Head(jobs) \in Nat /\ Tail(jobs) \in Seq(Nat) /\ Len(Tail(jobs)) = Len(jobs) - 1
    BY <1>7, Lengths, HeadTailProperties
  <2>2. Len(jobs) <= 1 /\ Len(jobs) \in Nat
    BY Lengths DEF StreamInv, CardInv
  <2>3. Tail(jobs) = << >>
    BY <2>1, <2>2, EmptySeq, LenProperties
  <2> QED BY <1>7, <2>1, <2>3 DEF Left, Abandoned
<1>8. CASE CardRead
  <2>1. /\ jobs # << >> /\ Head(jobs) > 0 /\ nextWord' = nextWord + ReadWords
        /\ jobs' = <<Head(jobs) - 1>> \o Tail(jobs)
        /\ UNCHANGED ring
    BY <1>8 DEF CardRead
  <2>2. PICK h \in Nat : h = Head(jobs) - 1
    BY <1>7, <2>1
  <2>3. jobs' = <<h>>
    <3>1. Tail(jobs) = << >> /\ jobs' = <<h>> \o Tail(jobs)
      BY <1>7, <2>1, <2>2
    <3>2. <<h>> \o << >> = <<h>>
      OBVIOUS
    <3> QED BY <3>1, <3>2
  <2>4. Left' = h * ReadWords
    BY <2>3 DEF Left
  <2>5. Left = h * ReadWords + ReadWords
    <3>1. \A a, b \in Nat : (a + 1) * b = a * b + b
      OBVIOUS
    <3>2. Head(jobs) = h + 1
      BY <1>7, <2>1, <2>2
    <3> QED BY <1>7, <2>1, <3>1, <3>2, Sizes
  <2>6. PICK w \in Nat : w = h * ReadWords
    BY Sizes
  <2>7. nextWord' - 1 + Left' = nextWord - 1 + Left
    BY <2>1, <2>4, <2>5, <2>6, Sizes, Lengths, SMTT(30)
  <2> QED BY <1>2, <1>3, <1>7, <2>1, <2>7
<1>9. CASE CardEnds
  <2>1. /\ jobs # << >> /\ Head(jobs) = 0 /\ jobs' = Tail(jobs) /\ UNCHANGED <<ring, nextWord>>
    BY <1>9 DEF CardEnds, recvVars
  <2>2. Left = 0
    BY <1>7, <2>1, Sizes
  <2>3. Left' = 0
    BY <1>7, <2>1 DEF Left
  <2> QED BY <1>2, <1>3, <1>7, <2>1, <2>2, <2>3
<1> QED BY <1>4, <1>5, <1>6, <1>8, <1>9

LEMMA FitInductive ==
  ASSUME NoEmptyReads
  PROVE  HostFits /\ [Next]_vars => HostFits'
<1> SUFFICES ASSUME HostFits, [Next]_vars PROVE HostFits'
  OBVIOUS
<1>1. IInv' /\ SentInv'
  BY TypeInductive, StreamInductive, SentInductive DEF HostFits, IInv
<1>2. CASE Host
  <2>1. (\/ Execute \/ ExecuteRejected \/ JoinAndSpawn \/ ReceiveData \/ Pop
         \/ (Destroy /\ pc' = "terminate")) => FitInv'
    BY HostStepFits, Zenon
  <2>2. (\/ Send \/ ReceiveReturns \/ Close \/ ResetFPGA \/ SetAREF
         \/ (Destroy /\ pc' # "terminate")) => FitInv'
    BY ReturnStepFits, Zenon
  <2>3. FitInv'
    BY <1>2, <2>1, <2>2, Zenon DEF Host
  <2> QED BY <1>1, <2>3 DEF HostFits
<1>3. CASE Receiver \/ Card
  BY <1>1, <1>3, FlowStepFits DEF HostFits, Receiver, Card
<1>4. CASE Fault \/ Stopped \/ UNCHANGED vars
  <2>1. ~RecvEmpty
    BY DEF RecvEmpty, NoEmptyReads
  <2>2. FitInv'
    BY <1>4, <2>1, HostStepFits DEF Fault, Stopped
  <2> QED BY <1>1, <2>2 DEF HostFits
<1> QED BY <1>2, <1>3, <1>4, Zenon DEF Next

\* Where every call stands against the rule of use: those that came back kept to it.
THEOREM HostInvariantHolds ==
  ASSUME NoEmptyReads
  PROVE  Spec => []HostFits
<1>1. HostFits /\ [Next]_vars => HostFits'
  BY FitInductive
<1> QED BY <1>1, FitInitial, PTL DEF Spec

\* A host that breaks the rule of use never comes to its end, in any interleaving of its
\* calls with the receiver thread and the card, whatever it resets.
THEOREM OnlyFittingHostsFinish ==
  ASSUME NoEmptyReads
  PROVE  Spec => []OnlyFittingFinishes
<1>1. HostFits => OnlyFittingFinishes
  <2> SUFFICES ASSUME HostFits, Finished, NEW i \in 1..Len(calls) PROVE FitsAt(calls, i)
    BY DEF OnlyFittingFinishes, Fits
  <2>1. i \in 1..(at - 1)
    BY CallAdds, LenProperties DEF Finished, HostFits, IInv, TypeOK
  <2> QED BY <2>1 DEF HostFits, FitInv
<1> QED BY <1>1, HostInvariantHolds, PTL

-----------------------------------------------------------------------------
(* The words of the stream, whatever fails *)

\* The end of a packet that follows its start p, and what is between them.
LEMMA PacketAfter ==
  ASSUME TypeOK, NEW E \in SUBSET (0..Len(c2h)), Packets(E), NEW p \in E, NEW x \in E, p < x
  PROVE  \E e \in E : /\ p < e /\ \A y \in E : y <= p \/ e <= y
                      /\ \E q \in Nat : e = p + q * ReadWords + BeatWords
                      /\ \A i \in (p + 1)..(e - BeatWords) : c2h[i] # 0
                      /\ \A i \in (e - BeatWords + 1)..e : c2h[i] = 0
<1>1. Len(c2h) \in Nat
  BY Lengths
<1> DEFINE T == {y \in E : p < y}
<1>2. T \in SUBSET Nat /\ T # {}
  <2>1. \A y \in E : y \in Nat
    BY <1>1
  <2>2. x \in T
    OBVIOUS
  <2>3. \A y \in T : y \in Nat
    BY <2>1
  <2> HIDE DEF T
  <2> QED BY <2>2, <2>3
<1>3. PICK e \in T : \A y \in T : e <= y
  <2> HIDE DEF T
  <2> QED BY <1>2, LeastNumber
<1>4. e \in E /\ p < e /\ \A y \in E : y <= p \/ e <= y
  BY <1>1, <1>3
<1> HIDE DEF T
<1> QED BY <1>4 DEF Packets

\* What read() returns when it does not fail: a packet or a part of one, that is either the
\* rest with its marker, or whole reads only and then everything the FIFO has.
LEMMA RecvTakesPacket ==
  ASSUME TypeOK, Len(c2h) <= ChunkWords, NEW E \in SUBSET (0..Len(c2h)), Packets(E),
         NEW count \in 1..Len(c2h), Available(count)
  PROVE  \/ /\ count = ChunkWords /\ count = Len(c2h)
            /\ \A i \in 1..count : c2h[i] # 0
         \/ /\ count \in E /\ count # ChunkWords /\ count >= BeatWords
            /\ \A x \in E : x <= 0 \/ count <= x
            /\ \A i \in 1..(count - BeatWords) : c2h[i] # 0
            /\ \A i \in (count - BeatWords + 1)..count : c2h[i] = 0
<1>1. Len(c2h) \in Nat /\ 0 \in E
  BY Lengths DEF Packets
<1>2. CASE E = {0}
  <2>1. \A i \in 1..Len(c2h) : c2h[i] # 0
    BY <1>2 DEF Packets
  <2>2. count = ChunkWords /\ Len(c2h) >= ChunkWords
    BY <2>1 DEF Available, FirstMarker, MarkerAt
  <2> QED BY <1>1, <2>1, <2>2, Sizes
<1>3. CASE E # {0}
  <2>1. \E x \in E : 0 < x
    <3>1. PICK x \in E : x # 0
      BY <1>1, <1>3
    <3>2. x \in Nat
      BY <1>1
    <3> QED BY <3>1, <3>2
  <2>2. PICK e \in E : /\ 0 < e /\ \A y \in E : y <= 0 \/ e <= y
                       /\ \E q \in Nat : e = 0 + q * ReadWords + BeatWords
                       /\ \A i \in (0 + 1)..(e - BeatWords) : c2h[i] # 0
                       /\ \A i \in (e - BeatWords + 1)..e : c2h[i] = 0
    BY <1>1, <2>1, PacketAfter
  <2>3. PICK q \in Nat : e = q * ReadWords + BeatWords
    <3>1. PICK q \in Nat : e = 0 + q * ReadWords + BeatWords
      BY <2>2
    <3>2. q * ReadWords \in Nat
      BY Sizes
    <3> QED BY <3>1, <3>2, Sizes
  <2>4. e # ChunkWords
    BY <2>3, MarkerLeavesShortChunk
  <2>5. e \in Nat /\ e <= Len(c2h) /\ e >= BeatWords
    <3>1. q * ReadWords \in Nat
      BY Sizes
    <3> QED BY <1>1, <2>3, <3>1, Sizes
  <2> DEFINE m == e - BeatWords + 1
  <2>6. m \in 1..Len(c2h) /\ m \in 1..(ChunkWords - BeatWords) /\ m + BeatWords - 1 = e
    BY <1>1, <2>4, <2>5, Sizes
  <2>7. MarkerAt(m) /\ \A j \in 1..(m - 1) : ~MarkerAt(j)
    <3>1. c2h[m] = 0
      BY <2>2, <2>5, Sizes
    <3>2. \A j \in 1..(m - 1) : c2h[j] # 0
      BY <2>2, <2>5, Sizes
    <3> HIDE DEF m
    <3> QED BY <2>6, <3>1, <3>2 DEF MarkerAt
  <2> HIDE DEF m
  <2>8. count = e
    <3>1. ~(\A i \in 1..(ChunkWords - BeatWords) : ~MarkerAt(i))
      BY <2>6, <2>7
    <3>2. PICK i \in 1..(ChunkWords - BeatWords) : FirstMarker(i) /\ count = i + BeatWords - 1
      BY <3>1 DEF Available
    <3>3. MarkerAt(i) /\ \A j \in 1..(i - 1) : ~MarkerAt(j)
      BY <3>2 DEF FirstMarker
    <3>4. i = m
      <4>1. i \in Nat \ {0} /\ m \in Nat \ {0}
        BY <2>6, Sizes
      <4>2. ~(i < m) /\ ~(m < i)
        BY <2>7, <3>3, <4>1
      <4> QED BY <4>1, <4>2
    <3> QED BY <2>6, <3>2, <3>4
  <2> QED BY <2>2, <2>4, <2>5, <2>8
<1> QED BY <1>2, <1>3

\* Words of the FIFO with no marker before them follow those that have left it.
LEMMA WordsFollow ==
  ASSUME TypeOK, WordsInv, Base \in Nat, NEW n \in 0..Len(c2h), \A i \in 1..n : c2h[i] # 0
  PROVE  \A i \in 1..n : c2h[i] = Base + i
<1> DEFINE S == {k \in Nat : \A i \in 1..n : i <= k => c2h[i] = Base + i}
<1>0. Len(c2h) \in Nat /\ nextWord \in Nat /\ n \in Nat /\ \A i \in 1..Len(c2h) : c2h[i] \in Nat
  BY Lengths, ElementOfSeq
<1>1. 0 \in S
  BY <1>0
<1>2. ASSUME NEW k \in Nat, k \in S PROVE k + 1 \in S
  <2> SUFFICES ASSUME k + 1 \in 1..n PROVE c2h[k + 1] = Base + (k + 1)
    BY <1>0, <1>2
  <2>1. k + 1 \in 1..Len(c2h) /\ c2h[k + 1] \in Nat /\ c2h[k + 1] # 0
    BY <1>0
  <2>2. Base < c2h[k + 1] /\ c2h[k + 1] < nextWord
    BY <2>1 DEF WordsInv
  <2>3. k = 0 \/ (k \in 1..n /\ c2h[k] = Base + k /\ c2h[k] < c2h[k + 1])
    <3>1. CASE k # 0
      <4>1. k \in 1..n /\ k \in 1..Len(c2h) /\ k < k + 1
        BY <1>0, <3>1
      <4>2. c2h[k] = Base + k /\ c2h[k] # 0
        BY <1>2, <4>1
      <4> QED BY <2>1, <4>1, <4>2 DEF WordsInv
    <3> QED BY <3>1
  <2>4. c2h[k + 1] >= Base + (k + 1)
    BY <2>1, <2>2, <2>3
  <2>5. ASSUME c2h[k + 1] > Base + (k + 1) PROVE FALSE
    <3>1. Base + (k + 1) \in (Base + 1)..(nextWord - 1)
      BY <1>0, <2>1, <2>2, <2>5
    <3>2. PICK j \in 1..Len(c2h) : c2h[j] = Base + (k + 1)
      BY <3>1 DEF WordsInv
    <3>3. c2h[j] # 0
      BY <3>2
    <3>4. ~(k + 1 <= j)
      BY <1>0, <2>1, <2>5, <3>2, <3>3 DEF WordsInv
    <3>5. j \in 1..n /\ j <= k
      BY <1>0, <3>4
    <3>6. c2h[j] = Base + j
      BY <1>2, <3>5
    <3> QED BY <1>0, <3>2, <3>5, <3>6
  <2> QED BY <2>1, <2>4, <2>5
<1> HIDE DEF S
<1>3. Nat \subseteq S
  BY <1>1, <1>2, InductionBySet
<1>4. n \in S
  BY <1>0, <1>3
<1> QED BY <1>0, <1>4 DEF S


\* Words that are added to the FIFO.
LEMMA FifoGrows ==
  ASSUME TypeOK, NEW n \in Nat, NEW new \in [1..n -> Nat], c2h' = c2h \o new
  PROVE  /\ Len(c2h') = Len(c2h) + n
         /\ \A i \in 1..Len(c2h) : c2h'[i] = c2h[i]
         /\ \A i \in 1..n : c2h'[Len(c2h) + i] = new[i]
<1>1. c2h \in Seq(Nat) /\ Len(c2h) \in Nat /\ new \in Seq(Nat) /\ Len(new) = n
  BY Lengths, FunctionIsSeq
<1>2. /\ Len(c2h') = Len(c2h) + Len(new)
      /\ \A i \in 1..(Len(c2h) + Len(new)) : c2h'[i] = IF i <= Len(c2h) THEN c2h[i] ELSE new[i - Len(c2h)]
  BY <1>1, ConcatProperties
<1> QED BY <1>1, <1>2

\* What has left the FIFO is a number.
LEMMA BaseOfHands ==
  ASSUME TypeOK, HandsInv
  PROVE  Pending \in Nat /\ Base \in Nat
<1>1. receiver = "push" => ToPush(recvBuffer) - pushed \in Nat
  <2>1. ToPush(recvBuffer) \in Int
    BY Lengths, Sizes DEF ToPush
  <2> QED BY <2>1, Lengths DEF HandsInv
<1> QED BY <1>1, Lengths DEF Pending, Base

\* Another read: its words follow, and the packet in the making is whole reads still.
LEMMA ReadFlows ==
  ASSUME FlowInv, CardRead
  PROVE  WordsInv' /\ PacketsInv'
<1> DEFINE new == [i \in 1..ReadWords |-> nextWord + i - 1]
           L == Len(c2h)
<1>1. /\ c2h' = c2h \o new /\ nextWord' = nextWord + ReadWords
      /\ L + ReadWords <= ChunkWords
      /\ UNCHANGED <<receiver, recvBuffer, pushed, ring, dst>>
  BY DEF CardRead, hostVars, recvVars
<1>2. /\ L \in Nat /\ nextWord \in Nat \ {0} /\ \A i \in 1..L : c2h[i] \in Nat
      /\ Base \in Nat /\ Base' = Base /\ ReadWords \in Nat
  <2>1. TypeOK
    BY DEF FlowInv
  <2>2. Base \in Nat
    BY BaseOfHands DEF FlowInv
  <2>3. Base' = Base
    BY <1>1 DEF Base, OnHost, Pending
  <2> QED BY <2>1, <2>2, <2>3, Lengths, Sizes, ElementOfSeq DEF TypeOK
<1>3. /\ Len(c2h') = L + ReadWords
      /\ \A i \in 1..L : c2h'[i] = c2h[i]
      /\ \A i \in 1..ReadWords : c2h'[L + i] = nextWord + i - 1
  <2>1. new \in [1..ReadWords -> Nat]
    BY <1>2
  <2>2. \A i \in 1..ReadWords : new[i] = nextWord + i - 1
    OBVIOUS
  <2> HIDE DEF new
  <2> QED BY <1>1, <1>2, <2>1, <2>2, FifoGrows DEF FlowInv
<1> HIDE DEF new, L
<1>4. /\ Base < nextWord
      /\ \A i \in 1..L : c2h[i] # 0 => Base < c2h[i] /\ c2h[i] < nextWord
      /\ \A i, j \in 1..L : i < j /\ c2h[i] # 0 /\ c2h[j] # 0 => c2h[i] < c2h[j]
      /\ \A n \in (Base + 1)..(nextWord - 1) : \E i \in 1..L : c2h[i] = n
  BY DEF FlowInv, WordsInv, L
<1>5. \A i \in 1..Len(c2h') :
        \/ i \in 1..L /\ c2h'[i] = c2h[i]
        \/ i > L /\ c2h'[i] = nextWord + (i - L) - 1
  <2>1. ASSUME NEW i \in 1..(L + ReadWords)
        PROVE  \/ i \in 1..L /\ c2h'[i] = c2h[i]
               \/ i > L /\ c2h'[i] = nextWord + (i - L) - 1
    <3>1. CASE i <= L
      <4>1. i \in 1..L
        BY <1>2, <3>1
      <4> QED BY <1>3, <4>1
    <3>2. CASE i > L
      <4>1. i - L \in 1..ReadWords /\ L + (i - L) = i
        BY <1>2, <3>2
      <4>2. c2h'[L + (i - L)] = nextWord + (i - L) - 1
        BY <1>3, <4>1
      <4> QED BY <3>2, <4>1, <4>2
    <3>3. i <= L \/ i > L
      BY <1>2
    <3> QED BY <3>1, <3>2, <3>3
  <2> QED BY <1>3, <2>1
<1>6. WordsInv'
  <2>1. Len(c2h') <= ChunkWords /\ Base' < nextWord'
    BY <1>1, <1>2, <1>3, <1>4 DEF L
  <2>2. \A i \in 1..Len(c2h') : c2h'[i] # 0 => Base' < c2h'[i] /\ c2h'[i] < nextWord'
    BY <1>1, <1>2, <1>3, <1>4, <1>5, SMTT(30)
  <2>3. \A i, j \in 1..Len(c2h') : i < j /\ c2h'[i] # 0 /\ c2h'[j] # 0 => c2h'[i] < c2h'[j]
    BY <1>2, <1>3, <1>4, <1>5
  <2>4. ASSUME NEW n \in (Base' + 1)..(nextWord' - 1) PROVE \E i \in 1..Len(c2h') : c2h'[i] = n
    <3>1. CASE n < nextWord
      <4>1. n \in (Base + 1)..(nextWord - 1)
        BY <1>1, <1>2, <3>1
      <4>2. PICK i \in 1..L : c2h[i] = n
        BY <1>4, <4>1
      <4> QED BY <1>2, <1>3, <4>2
    <3>2. CASE n >= nextWord
      <4>1. n - nextWord + 1 \in 1..ReadWords /\ nextWord + (n - nextWord + 1) - 1 = n
        BY <1>1, <1>2, <3>2
      <4>2. c2h'[L + (n - nextWord + 1)] = n
        BY <1>3, <4>1
      <4>3. L + (n - nextWord + 1) \in 1..Len(c2h')
        BY <1>2, <1>3, <4>1
      <4> QED BY <4>2, <4>3
    <3> QED BY <1>1, <1>2, <3>1, <3>2
  <2> QED BY <2>1, <2>2, <2>3, <2>4 DEF WordsInv
<1>7. PacketsInv'
  <2>1. PICK E \in SUBSET (0..L) : Packets(E)
    BY DEF FlowInv, PacketsInv, L
  <2>2. \A e \in E : e \in 0..L
    BY <2>1
  <2>3. E \in SUBSET (0..Len(c2h'))
    BY <1>2, <1>3, <2>2
  <2>4. ASSUME NEW p \in E, NEW e \in E, p < e, \A x \in E : x <= p \/ e <= x
        PROVE  /\ \E q \in Nat : e = p + q * ReadWords + BeatWords
               /\ \A i \in (p + 1)..(e - BeatWords) : c2h'[i] # 0
               /\ \A i \in (e - BeatWords + 1)..e : c2h'[i] = 0
    <3>1. /\ \E q \in Nat : e = p + q * ReadWords + BeatWords
          /\ \A i \in (p + 1)..(e - BeatWords) : c2h[i] # 0
          /\ \A i \in (e - BeatWords + 1)..e : c2h[i] = 0
      BY <2>1, <2>4, Zenon DEF Packets
    <3>2. p \in Nat /\ e \in Nat /\ e <= L /\ e >= p + BeatWords
      <4>1. PICK q \in Nat : e = p + q * ReadWords + BeatWords
        BY <3>1
      <4>2. q * ReadWords \in Nat
        BY <1>2
      <4> QED BY <1>2, <2>2, <4>1, <4>2, Sizes
    <3>3. \A i \in (p + 1)..e : i \in 1..L /\ c2h'[i] = c2h[i]
      BY <1>2, <1>3, <3>2
    <3> QED BY <3>1, <3>2, <3>3, Sizes
  <2>5. ASSUME NEW p \in E, \A x \in E : x <= p
        PROVE  /\ \E q \in Nat : Len(c2h') = p + q * ReadWords
               /\ \A i \in (p + 1)..Len(c2h') : c2h'[i] # 0
    <3>1. /\ \E q \in Nat : L = p + q * ReadWords
          /\ \A i \in (p + 1)..L : c2h[i] # 0
      BY <2>1, <2>5, Zenon DEF Packets, L
    <3>2. PICK q \in Nat : L = p + q * ReadWords
      BY <3>1
    <3>3. Len(c2h') = p + (q + 1) * ReadWords
      BY <1>2, <1>3, <2>2, <3>2
    <3>4. \A i \in (p + 1)..Len(c2h') : c2h'[i] # 0
      BY <1>2, <1>5, <2>2, <3>1
    <3> QED BY <3>3, <3>4
  <2>6. 0 \in E
    BY <2>1 DEF Packets
  <2>7. Packets(E)'
    BY <2>4, <2>5, <2>6, Zenon DEF Packets
  <2> QED BY <2>3, <2>7 DEF PacketsInv
<1> QED BY <1>6, <1>7


\* The end of a program: a marker, no data.
LEMMA EndFlows ==
  ASSUME FlowInv, CardEnds
  PROVE  WordsInv' /\ PacketsInv'
<1> DEFINE new == [i \in 1..BeatWords |-> 0]
           L == Len(c2h)
<1>1. /\ c2h' = c2h \o new /\ nextWord' = nextWord
      /\ L + BeatWords <= ChunkWords
      /\ UNCHANGED <<receiver, recvBuffer, pushed, ring, dst>>
  BY DEF CardEnds, hostVars, recvVars
<1>2. /\ L \in Nat /\ nextWord \in Nat \ {0} /\ \A i \in 1..L : c2h[i] \in Nat
      /\ Base' = Base /\ BeatWords \in Nat \ {0}
  <2>1. TypeOK
    BY DEF FlowInv
  <2>2. Base' = Base
    BY <1>1 DEF Base, OnHost, Pending
  <2> QED BY <2>1, <2>2, Lengths, Sizes, ElementOfSeq DEF TypeOK
<1>3. /\ Len(c2h') = L + BeatWords
      /\ \A i \in 1..L : c2h'[i] = c2h[i]
      /\ \A i \in 1..BeatWords : c2h'[L + i] = 0
  <2>1. new \in [1..BeatWords -> Nat]
    OBVIOUS
  <2>2. \A i \in 1..BeatWords : new[i] = 0
    OBVIOUS
  <2> HIDE DEF new
  <2> QED BY <1>1, <1>2, <2>1, <2>2, FifoGrows DEF FlowInv
<1> HIDE DEF new, L
<1>4. \A i \in 1..Len(c2h') :
        \/ i \in 1..L /\ c2h'[i] = c2h[i]
        \/ i > L /\ c2h'[i] = 0
  <2>1. ASSUME NEW i \in 1..(L + BeatWords)
        PROVE  \/ i \in 1..L /\ c2h'[i] = c2h[i]
               \/ i > L /\ c2h'[i] = 0
    <3>1. CASE i <= L
      <4>1. i \in 1..L
        BY <1>2, <3>1
      <4> QED BY <1>3, <4>1
    <3>2. CASE i > L
      <4>1. i - L \in 1..BeatWords /\ L + (i - L) = i
        BY <1>2, <3>2
      <4>2. c2h'[L + (i - L)] = 0
        BY <1>3, <4>1
      <4> QED BY <3>2, <4>1, <4>2
    <3>3. i <= L \/ i > L
      BY <1>2
    <3> QED BY <3>1, <3>2, <3>3
  <2> QED BY <1>3, <2>1
<1>5. WordsInv'
  <2>1. /\ Base < nextWord
        /\ \A i \in 1..L : c2h[i] # 0 => Base < c2h[i] /\ c2h[i] < nextWord
        /\ \A i, j \in 1..L : i < j /\ c2h[i] # 0 /\ c2h[j] # 0 => c2h[i] < c2h[j]
        /\ \A n \in (Base + 1)..(nextWord - 1) : \E i \in 1..L : c2h[i] = n
    BY DEF FlowInv, WordsInv, L
  <2>2. Len(c2h') <= ChunkWords /\ Base' < nextWord'
    BY <1>1, <1>2, <1>3, <2>1
  <2>3. \A i \in 1..Len(c2h') : c2h'[i] # 0 => Base' < c2h'[i] /\ c2h'[i] < nextWord'
    BY <1>1, <1>2, <1>4, <2>1
  <2>4. \A i, j \in 1..Len(c2h') : i < j /\ c2h'[i] # 0 /\ c2h'[j] # 0 => c2h'[i] < c2h'[j]
    BY <1>4, <2>1
  <2>5. ASSUME NEW n \in (Base' + 1)..(nextWord' - 1) PROVE \E i \in 1..Len(c2h') : c2h'[i] = n
    <3>1. PICK i \in 1..L : c2h[i] = n
      BY <1>1, <1>2, <2>1
    <3> QED BY <1>2, <1>3, <3>1
  <2> QED BY <2>2, <2>3, <2>4, <2>5 DEF WordsInv
<1>6. PacketsInv'
  <2>1. PICK E \in SUBSET (0..L) : Packets(E)
    BY DEF FlowInv, PacketsInv, L
  <2>2. \A e \in E : e \in 0..L
    BY <2>1
  <2>0. PICK M \in {L + BeatWords} : M = L + BeatWords
    OBVIOUS
  <2>m. PICK D \in {E \cup {M}} : D = E \cup {M}
    OBVIOUS
  <2>3. M \in Nat /\ M > L /\ Len(c2h') = M /\ 0 \in D
    BY <1>2, <1>3, <2>0, <2>1, <2>m DEF Packets
  <2>4. D \in SUBSET (0..Len(c2h'))
    BY <1>2, <2>2, <2>3, <2>m
  <2>5. ASSUME NEW p \in D, NEW e \in D, p < e, \A x \in D : x <= p \/ e <= x
        PROVE  /\ \E q \in Nat : e = p + q * ReadWords + BeatWords
               /\ \A i \in (p + 1)..(e - BeatWords) : c2h'[i] # 0
               /\ \A i \in (e - BeatWords + 1)..e : c2h'[i] = 0
    <3>1. p \in E /\ p \in 0..L
      BY <1>2, <2>2, <2>3, <2>m, <2>5
    <3>2. CASE e = M
      <4>1. \A x \in E : x <= p
        BY <1>2, <2>2, <2>3, <2>m, <2>5, <3>2
      <4>2. /\ \E q \in Nat : L = p + q * ReadWords
            /\ \A i \in (p + 1)..L : c2h[i] # 0
        BY <2>1, <3>1, <4>1, Zenon DEF Packets, L
      <4>3. PICK q \in Nat : L = p + q * ReadWords
        BY <4>2
      <4>4. e = p + q * ReadWords + BeatWords
        BY <3>2, <4>3
      <4>5. \A i \in (p + 1)..(e - BeatWords) : c2h'[i] # 0
        BY <1>2, <1>3, <3>1, <3>2, <4>2
      <4>6. \A i \in (e - BeatWords + 1)..e : i > L /\ i \in 1..Len(c2h')
        BY <1>2, <2>3, <3>2
      <4>7. \A i \in (e - BeatWords + 1)..e : c2h'[i] = 0
        BY <1>2, <1>4, <4>6
      <4> QED BY <4>4, <4>5, <4>7
    <3>3. CASE e # M
      <4>1. e \in E /\ e \in 0..L
        BY <2>2, <2>m, <3>3
      <4>2. \A x \in E : x <= p \/ e <= x
        BY <2>5, <2>m
      <4>3. /\ \E q \in Nat : e = p + q * ReadWords + BeatWords
            /\ \A i \in (p + 1)..(e - BeatWords) : c2h[i] # 0
            /\ \A i \in (e - BeatWords + 1)..e : c2h[i] = 0
        BY <2>1, <2>5, <3>1, <4>1, <4>2, Zenon DEF Packets
      <4>4. e >= p + BeatWords
        <5>1. PICK q \in Nat : e = p + q * ReadWords + BeatWords
          BY <4>3
        <5>2. q * ReadWords \in Nat
          BY Sizes
        <5> QED BY <1>2, <3>1, <5>1, <5>2
      <4>5. \A i \in (p + 1)..e : i \in 1..L /\ c2h'[i] = c2h[i]
        BY <1>2, <1>3, <3>1, <4>1
      <4> QED BY <1>2, <3>1, <4>1, <4>3, <4>4, <4>5
    <3> QED BY <3>2, <3>3
  <2>6. ASSUME NEW p \in D, \A x \in D : x <= p
        PROVE  /\ \E q \in Nat : Len(c2h') = p + q * ReadWords
               /\ \A i \in (p + 1)..Len(c2h') : c2h'[i] # 0
    <3>1. p = M
      BY <1>2, <2>2, <2>3, <2>m, <2>6
    <3>2. Len(c2h') = p + 0 * ReadWords
      BY <2>3, <3>1, Sizes
    <3> QED BY <2>3, <3>1, <3>2
  <2>7. Packets(D)'
    BY <2>3, <2>5, <2>6, Zenon DEF Packets
  <2> QED BY <2>4, <2>7 DEF PacketsInv
<1> QED BY <1>5, <1>6

\* What remains of the FIFO after read() has taken a packet whole.
LEMMA PacketLeaves ==
  ASSUME TypeOK, NEW E \in SUBSET (0..Len(c2h)), Packets(E), NEW count \in E,
         count \in 1..Len(c2h), \A x \in E : x <= 0 \/ count <= x,
         Len(c2h') = Len(c2h) - count,
         \A i \in 1..(Len(c2h) - count) : c2h'[i] = c2h[count + i]
  PROVE  PacketsInv'
<1>1. Len(c2h) \in Nat /\ count \in Nat /\ Len(c2h') \in Nat
  BY Lengths
<1>2. PICK D \in {{x - count : x \in {y \in E : count <= y}}} :
        D = {x - count : x \in {y \in E : count <= y}}
  OBVIOUS
<1>3. \A d \in D : d \in 0..Len(c2h') /\ d + count \in E
  BY <1>1, <1>2
<1>4. \A x \in E : x <= 0 \/ x - count \in D
  BY <1>1, <1>2
<1>5. 0 \in D
  BY <1>1, <1>2
<1>6. ASSUME NEW p \in D, NEW e \in D, p < e, \A x \in D : x <= p \/ e <= x
      PROVE  /\ \E q \in Nat : e = p + q * ReadWords + BeatWords
             /\ \A i \in (p + 1)..(e - BeatWords) : c2h'[i] # 0
             /\ \A i \in (e - BeatWords + 1)..e : c2h'[i] = 0
  <2>1. PICK P \in E, F \in E : P = p + count /\ F = e + count
    BY <1>3
  <2>2. p \in Nat /\ e \in Nat /\ e <= Len(c2h')
    BY <1>1, <1>3
  <2>3. P < F
    BY <1>1, <1>6, <2>1, <2>2
  <2>4. ASSUME NEW x \in E PROVE x <= P \/ F <= x
    <3>1. x \in Nat
      BY <1>1
    <3>2. CASE x <= 0
      BY <1>1, <2>1, <2>2, <3>1, <3>2
    <3>3. CASE x - count <= p \/ e <= x - count
      BY <1>1, <2>1, <2>2, <3>1, <3>3
    <3> QED BY <1>4, <1>6, <3>2, <3>3
  <2>5. /\ \E q \in Nat : F = P + q * ReadWords + BeatWords
        /\ \A i \in (P + 1)..(F - BeatWords) : c2h[i] # 0
        /\ \A i \in (F - BeatWords + 1)..F : c2h[i] = 0
    BY <2>3, <2>4, Zenon DEF Packets
  <2>6. PICK q \in Nat : F = P + q * ReadWords + BeatWords
    BY <2>5
  <2>7. PICK w \in Nat : w = q * ReadWords
    BY Sizes
  <2>8. e = p + q * ReadWords + BeatWords /\ e - BeatWords >= p
    <3>1. \A b, d, c, r, s \in Nat : d + c = b + c + r + s => d = b + r + s /\ d - s >= b
      OBVIOUS
    <3>2. e + count = p + count + w + BeatWords
      BY <2>1, <2>6, <2>7
    <3>3. e = p + w + BeatWords /\ e - BeatWords >= p
      BY <1>1, <2>2, <3>1, <3>2, Sizes
    <3> QED BY <2>7, <3>3
  <2>9. ASSUME NEW i \in (p + 1)..e PROVE c2h'[i] = c2h[count + i]
    <3>1. i \in 1..(Len(c2h) - count)
      BY <1>1, <2>2
    <3> QED BY <3>1
  <2>10. ASSUME NEW i \in (p + 1)..(e - BeatWords) PROVE c2h'[i] # 0
    <3>1. i \in (p + 1)..e /\ count + i \in (P + 1)..(F - BeatWords)
      BY <1>1, <2>1, <2>2, Sizes
    <3> QED BY <2>5, <2>9, <3>1
  <2>11. ASSUME NEW i \in (e - BeatWords + 1)..e PROVE c2h'[i] = 0
    <3>1. i \in (p + 1)..e /\ count + i \in (F - BeatWords + 1)..F
      <4>1. i \in Int /\ e - BeatWords + 1 <= i /\ i <= e /\ BeatWords \in Nat
        BY <2>2, Sizes
      <4>2. e - BeatWords >= p
        BY <2>8
      <4> QED BY <1>1, <2>1, <2>2, <4>1, <4>2
    <3> QED BY <2>5, <2>9, <3>1
  <2> QED BY <2>8, <2>10, <2>11
<1>7. ASSUME NEW p \in D, \A x \in D : x <= p
      PROVE  /\ \E q \in Nat : Len(c2h') = p + q * ReadWords
             /\ \A i \in (p + 1)..Len(c2h') : c2h'[i] # 0
  <2>1. PICK P \in E : P = p + count
    BY <1>3
  <2>2. p \in Nat /\ p <= Len(c2h')
    BY <1>1, <1>3
  <2>3. ASSUME NEW x \in E PROVE x <= P
    <3>1. x \in Nat
      BY <1>1
    <3>2. CASE x <= 0
      BY <1>1, <2>1, <2>2, <3>1, <3>2
    <3>3. CASE x - count <= p
      BY <1>1, <2>1, <2>2, <3>1, <3>3
    <3> QED BY <1>4, <1>7, <3>2, <3>3
  <2>4. /\ \E q \in Nat : Len(c2h) = P + q * ReadWords
        /\ \A i \in (P + 1)..Len(c2h) : c2h[i] # 0
    BY <2>3, Zenon DEF Packets
  <2>5. PICK q \in Nat : Len(c2h) = P + q * ReadWords
    BY <2>4
  <2>6. PICK w \in Nat : w = q * ReadWords
    BY Sizes
  <2>7. Len(c2h') = p + q * ReadWords
    BY <1>1, <2>1, <2>2, <2>5, <2>6
  <2>8. ASSUME NEW i \in (p + 1)..Len(c2h') PROVE c2h'[i] # 0
    <3>1. i \in 1..(Len(c2h) - count) /\ count + i \in (P + 1)..Len(c2h)
      BY <1>1, <2>1, <2>2
    <3> QED BY <2>4, <3>1
  <2> QED BY <2>7, <2>8
<1>8. Packets(D)'
  BY <1>5, <1>6, <1>7, Zenon DEF Packets
<1>9. D \in SUBSET (0..Len(c2h'))
  BY <1>3
<1> QED BY <1>8, <1>9 DEF PacketsInv

\* A read: the chunk is the words that follow those the host has, and its marker if it is
\* short; the FIFO keeps the rest.
LEMMA RecvFlows ==
  ASSUME FlowInv, Recv
  PROVE  HandsInv' /\ WordsInv' /\ PacketsInv'
<1> DEFINE L == Len(c2h)
<1>1. PICK count \in 1..L : /\ Available(count)
                            /\ recvBuffer' = SubSeq(c2h, 1, count)
                            /\ c2h' = SubSeq(c2h, count + 1, Len(c2h))
  BY DEF Recv
<1>2. /\ receiver = "recv" /\ receiver' = "push" /\ pushed' = 0
      /\ UNCHANGED <<ring, dst, nextWord>>
  BY DEF Recv, hostVars
<1>3. TypeOK /\ HandsInv /\ WordsInv
  BY DEF FlowInv
<1>4. /\ L \in Nat /\ nextWord \in Nat /\ OnHost \in Nat /\ count \in Nat
      /\ \A i \in 1..L : c2h[i] \in Nat
  BY <1>3, Lengths, ElementOfSeq
<1>5. Base = OnHost /\ OnHost' = OnHost /\ Base \in Nat
  BY <1>2, <1>4 DEF Base, Pending, OnHost
<1>6. /\ Len(recvBuffer') = count
      /\ \A i \in 1..count : recvBuffer'[i] = c2h[i]
      /\ Len(c2h') = L - count
      /\ \A i \in 1..(L - count) : c2h'[i] = c2h[count + i]
  <2>1. count \in 0..Len(c2h)
    BY <1>4
  <2> QED BY <1>1, <1>3, <2>1, Lengths, Split
<1>7. PICK E \in SUBSET (0..L) : Packets(E)
  BY DEF FlowInv, PacketsInv
<1>8. \/ /\ count = ChunkWords /\ count = L
         /\ \A i \in 1..count : c2h[i] # 0
      \/ /\ count \in E /\ count # ChunkWords /\ count >= BeatWords
         /\ \A x \in E : x <= 0 \/ count <= x
         /\ \A i \in 1..(count - BeatWords) : c2h[i] # 0
         /\ \A i \in (count - BeatWords + 1)..count : c2h[i] = 0
  BY <1>1, <1>3, <1>7, RecvTakesPacket DEF WordsInv
<1>9. PICK d \in 0..count : d = ToPush(recvBuffer')
  <2>1. ToPush(recvBuffer') = IF count # ChunkWords THEN count - BeatWords ELSE count
    BY <1>6 DEF ToPush, Short
  <2>2. count # ChunkWords => count >= BeatWords
    BY <1>8
  <2>3. ToPush(recvBuffer') \in 0..count
    BY <1>4, <2>1, <2>2, Sizes
  <2> QED BY <2>3
<1>10. /\ count >= BeatWords /\ count <= ChunkWords
       /\ \A i \in 1..d : c2h[i] # 0
       /\ \A i \in (d + 1)..count : c2h[i] = 0
  <2>1. d = IF count # ChunkWords THEN count - BeatWords ELSE count
    BY <1>6, <1>9 DEF ToPush, Short
  <2>2. L <= ChunkWords
    BY <1>3 DEF WordsInv
  <2> HIDE DEF L
  <2> QED BY <1>4, <1>8, <2>1, <2>2, Sizes
<1>11. d \in 0..L /\ \A i \in 1..d : c2h[i] = Base + i
  <2>1. d \in 0..L
    BY <1>4
  <2> QED BY <1>3, <1>5, <1>10, <2>1, WordsFollow
<1>12. Base' = Base + d
  BY <1>2, <1>4, <1>5, <1>9 DEF Base, Pending
<1>13. HandsInv'
  <2>1. \A j \in 1..d : recvBuffer'[j] = OnHost + j
    BY <1>4, <1>5, <1>6, <1>11
  <2>2. \A j \in (pushed' + 1)..ToPush(recvBuffer') : recvBuffer'[j] = OnHost' + (j - pushed')
    BY <1>2, <1>4, <1>5, <1>9, <2>1
  <2>3. Len(recvBuffer') \in BeatWords..ChunkWords /\ pushed' <= ToPush(recvBuffer')
    BY <1>2, <1>4, <1>6, <1>9, <1>10, Sizes
  <2>4. /\ \A i \in 1..Len(ring') : ring'[i] = Len(dst') + i
        /\ \A i \in 1..Len(dst') : dst'[i] = i
    BY <1>2, <1>3 DEF HandsInv
  <2> QED BY <1>2, <2>2, <2>3, <2>4 DEF HandsInv
<1> HIDE DEF L
<1>14. /\ Base < nextWord /\ L <= ChunkWords
       /\ \A i \in 1..L : c2h[i] # 0 => Base < c2h[i] /\ c2h[i] < nextWord
       /\ \A i, j \in 1..L : i < j /\ c2h[i] # 0 /\ c2h[j] # 0 => c2h[i] < c2h[j]
       /\ \A n \in (Base + 1)..(nextWord - 1) : \E i \in 1..L : c2h[i] = n
  BY <1>3 DEF WordsInv, L
<1>15. WordsInv'
  <2>1. Base + d < nextWord
    <3>1. CASE d = 0
      BY <1>5, <1>14, <3>1
    <3>2. CASE d # 0
      <4>1. d \in 1..d /\ d \in 1..L
        BY <1>4, <1>11, <3>2
      <4> QED BY <1>10, <1>11, <1>14, <4>1
    <3> QED BY <3>1, <3>2
  <2>2. \A i \in 1..(L - count) : count + i \in 1..L
    BY <1>4
  <2>3. ASSUME NEW i \in 1..(L - count), c2h[count + i] # 0 PROVE Base + d < c2h[count + i]
    <3>1. CASE d = 0
      BY <1>4, <1>5, <1>14, <2>2, <2>3, <3>1
    <3>2. CASE d # 0
      <4>1. d \in 1..d /\ d \in 1..L /\ d < count + i
        BY <1>4, <1>11, <3>2
      <4>2. c2h[d] = Base + d /\ c2h[d] # 0
        BY <1>10, <1>11, <4>1
      <4>3. c2h[d] < c2h[count + i]
        BY <1>14, <2>2, <2>3, <4>1, <4>2
      <4> QED BY <4>2, <4>3
    <3> QED BY <3>1, <3>2
  <2>4. \A i \in 1..Len(c2h') : c2h'[i] # 0 => Base' < c2h'[i] /\ c2h'[i] < nextWord'
    BY <1>2, <1>6, <1>12, <1>14, <2>2, <2>3
  <2>5. ASSUME NEW i \in 1..(L - count), NEW j \in 1..(L - count), i < j,
               c2h[count + i] # 0, c2h[count + j] # 0
        PROVE  c2h[count + i] < c2h[count + j]
    <3>1. count + i < count + j
      BY <1>4, <2>5
    <3> QED BY <1>14, <2>2, <2>5, <3>1
  <2>6. \A i, j \in 1..Len(c2h') : i < j /\ c2h'[i] # 0 /\ c2h'[j] # 0 => c2h'[i] < c2h'[j]
    BY <1>6, <2>5
  <2>7. ASSUME NEW n \in (Base' + 1)..(nextWord' - 1) PROVE \E i \in 1..Len(c2h') : c2h'[i] = n
    <3>1. n \in (Base + 1)..(nextWord - 1) /\ n > Base + d
      BY <1>2, <1>4, <1>5, <1>12
    <3>2. PICK i \in 1..L : c2h[i] = n
      BY <1>14, <3>1
    <3>3. ~(i \in 1..d)
      BY <1>5, <1>11, <3>1, <3>2
    <3>4. ~(i \in (d + 1)..count)
      BY <1>5, <1>10, <3>1, <3>2
    <3>5. i - count \in 1..(L - count) /\ count + (i - count) = i
      BY <1>4, <3>3, <3>4
    <3>6. c2h'[i - count] = n
      BY <1>6, <3>2, <3>5
    <3> QED BY <1>6, <3>5, <3>6
  <2>8. Len(c2h') <= ChunkWords
    BY <1>4, <1>6, <1>14, Sizes
  <2>9. Base' < nextWord'
    BY <1>2, <1>12, <2>1
  <2> QED BY <2>4, <2>6, <2>7, <2>8, <2>9 DEF WordsInv
<1>16. CASE count = L
  <2>1. Len(c2h') = 0
    BY <1>4, <1>6, <1>16
  <2>2. Packets({0})'
    <3>1. Len(c2h') = 0 + 0 * ReadWords /\ \A i \in (0 + 1)..Len(c2h') : FALSE
      BY <2>1, Sizes
    <3>2. \A p, e \in {0} : ~(p < e)
      OBVIOUS
    <3> QED BY <3>1, <3>2 DEF Packets
  <2>3. {0} \in SUBSET (0..Len(c2h'))
    BY <2>1
  <2> QED BY <1>13, <1>15, <2>2, <2>3 DEF PacketsInv
<1>17. CASE count # L
  <2>1. count \in E /\ \A x \in E : x <= 0 \/ count <= x
    BY <1>8, <1>17
  <2>2. PacketsInv'
    BY <1>3, <1>6, <1>7, <2>1, PacketLeaves DEF L
  <2> QED BY <1>13, <1>15, <2>2
<1> QED BY <1>16, <1>17

\* A step that leaves the FIFO and what the host has of it alone.
LEMMA FlowFrame ==
  ASSUME FlowInv, Base' = Base, UNCHANGED <<c2h, nextWord>>
  PROVE  WordsInv' /\ PacketsInv'
<1>1. WordsInv'
  BY DEF FlowInv, WordsInv
<1>2. PICK E \in SUBSET (0..Len(c2h)) : Packets(E)
  BY DEF FlowInv, PacketsInv
<1>3. Packets(E)' /\ E \in SUBSET (0..Len(c2h'))
  BY <1>2, Zenon DEF Packets
<1> QED BY <1>1, <1>3 DEF PacketsInv

\* At first the FIFO is empty.
LEMMA FlowInitial == Init => FlowInv
<1> SUFFICES ASSUME Init PROVE FlowInv
  OBVIOUS
<1>1. /\ receiver = "none" /\ ring = << >> /\ dst = << >> /\ c2h = << >> /\ recvBuffer = << >>
      /\ nextWord = 1
  BY DEF Init
<1>2. HandsInv
  BY <1>1 DEF HandsInv
<1>3. WordsInv
  <2>1. Base = 0
    BY <1>1 DEF Base, Pending, OnHost
  <2> QED BY <1>1, <2>1, Sizes DEF WordsInv
<1>4. PacketsInv
  <2>1. Len(c2h) = 0 + 0 * ReadWords /\ \A i \in (0 + 1)..Len(c2h) : FALSE
    BY <1>1, Sizes
  <2>2. Packets({0})
    BY <2>1 DEF Packets
  <2>3. {0} \in SUBSET (0..Len(c2h))
    BY <1>1
  <2> QED BY <2>2, <2>3 DEF PacketsInv
<1> QED BY <1>2, <1>3, <1>4, TypeInitial DEF FlowInv

\* Every call, every step of the receiver thread and every fault keeps the words in order.
LEMMA FlowInductive == FlowInv /\ [Next]_vars => FlowInv'
<1> SUFFICES ASSUME FlowInv, [Next]_vars PROVE HandsInv' /\ WordsInv' /\ PacketsInv'
  BY TypeInductive DEF FlowInv
<1>0. TypeOK /\ HandsInv
  BY DEF FlowInv
<1>1. CASE \/ Execute \/ ExecuteRejected \/ ReceiveData \/ ReceiveReturns \/ Send
           \/ ResetFPGA \/ SetAREF \/ Destroy \/ WriteFails \/ RecvFails \/ UNCHANGED vars
  <2>1. UNCHANGED <<receiver, recvBuffer, pushed, ring, dst, c2h, nextWord>>
    BY <1>1 DEF Execute, ExecuteRejected, ReceiveData, ReceiveReturns, Send, ResetFPGA, SetAREF,
         SendCommand, CardTakes, Destroy, WriteFails, RecvFails, vars, hostVars, recvVars, cardVars
  <2>2. Base' = Base
    BY <2>1 DEF Base, Pending, OnHost
  <2>3. HandsInv'
    BY <1>0, <2>1 DEF HandsInv, OnHost
  <2> QED BY <2>1, <2>2, <2>3, FlowFrame
<1>2. CASE JoinAndSpawn \/ Close \/ RecvEmpty
  <2>1. /\ receiver # "push" /\ receiver' # "push"
        /\ recvBuffer' = << >> \/ recvBuffer' = recvBuffer
        /\ UNCHANGED <<ring, dst, c2h, nextWord>>
    BY <1>2 DEF JoinAndSpawn, Close, RecvEmpty, ReceiverEnded, hostVars, cardVars
  <2>2. Base' = Base
    BY <2>1 DEF Base, Pending, OnHost
  <2>3. HandsInv'
    BY <1>0, <2>1 DEF HandsInv
  <2> QED BY <2>1, <2>2, <2>3, FlowFrame
<1>3. CASE ChunkDone
  <2>1. /\ receiver = "push" /\ pushed = ToPush(recvBuffer)
        /\ receiver' # "push" /\ recvBuffer' = << >>
        /\ UNCHANGED <<dst, ring, c2h, nextWord>>
    BY <1>3 DEF ChunkDone, LeaveChunk, hostVars, cardVars
  <2>2. Base' = Base
    BY <1>0, <2>1, Lengths DEF Base, Pending, OnHost
  <2>3. HandsInv'
    BY <1>0, <2>1 DEF HandsInv
  <2> QED BY <2>1, <2>2, <2>3, FlowFrame
<1>4. CASE Pop
  <2>1. /\ OnHost' = OnHost
        /\ UNCHANGED <<pc, receiver, recvBuffer, pushed, jobs, c2h, nextWord>>
        /\ \A i \in 1..Len(ring') : ring'[i] = Len(dst') + i
        /\ \A i \in 1..Len(dst') : dst'[i] = i
    BY <1>0, <1>4, PopMoves DEF HandsInv
  <2>2. Base' = Base
    BY <2>1 DEF Base, Pending
  <2>3. HandsInv'
    BY <1>0, <2>1 DEF HandsInv
  <2> QED BY <2>1, <2>2, <2>3, FlowFrame
<1>5. CASE Push
  <2>1. PICK k \in Nat \ {0} :
          /\ pushed + k <= ToPush(recvBuffer)
          /\ pushed' = pushed + k
          /\ Len(ring') = Len(ring) + k
          /\ \A i \in 1..(Len(ring) + k) :
               ring'[i] = IF i <= Len(ring) THEN ring[i] ELSE OnHost + (i - Len(ring))
    <3>1. \A j \in (pushed + 1)..ToPush(recvBuffer) : recvBuffer[j] = OnHost + (j - pushed)
      BY <1>0, <1>5 DEF Push, HandsInv
    <3> QED BY <1>0, <1>5, <3>1, PushAdds
  <2>2. /\ receiver = "push"
        /\ UNCHANGED <<dst, receiver, recvBuffer, c2h, nextWord>>
    BY <1>5 DEF Push, hostVars, cardVars
  <2>3. /\ Len(ring) \in Nat /\ Len(dst) \in Nat /\ pushed \in Nat
        /\ ToPush(recvBuffer) \in Int
        /\ OnHost = Len(dst) + Len(ring)
    BY <1>0, Lengths, Sizes DEF ToPush, OnHost
  <2>4. OnHost' = OnHost + k /\ Base' = Base
    BY <2>1, <2>2, <2>3 DEF OnHost, Base, Pending
  <2>5. ASSUME NEW i \in 1..(Len(ring) + k) PROVE ring'[i] = Len(dst) + i
    <3>1. CASE i <= Len(ring)
      BY <1>0, <2>1, <2>3, <3>1 DEF HandsInv
    <3>2. CASE i > Len(ring)
      BY <2>1, <2>3, <3>2
    <3> QED BY <2>1, <2>3, <3>1, <3>2
  <2>6. ASSUME NEW j \in (pushed' + 1)..ToPush(recvBuffer')
        PROVE  recvBuffer'[j] = OnHost' + (j - pushed')
    <3>1. j \in (pushed + 1)..ToPush(recvBuffer) /\ OnHost \in Nat
      BY <2>1, <2>2, <2>3
    <3>2. recvBuffer[j] = OnHost + (j - pushed)
      BY <1>0, <2>2, <3>1 DEF HandsInv
    <3>3. OnHost + (j - pushed) = OnHost' + (j - pushed')
      BY <2>1, <2>3, <2>4, <3>1
    <3> QED BY <2>2, <3>2, <3>3
  <2>7. HandsInv'
    <3>1. \A i \in 1..Len(ring') : ring'[i] = Len(dst') + i
      BY <2>1, <2>2, <2>5
    <3> QED BY <1>0, <2>1, <2>2, <2>6, <3>1 DEF HandsInv
  <2> QED BY <2>2, <2>4, <2>7, FlowFrame
<1>6. CASE Recv
  BY <1>6, RecvFlows
<1>7. CASE CardRead \/ CardEnds
  <2>1. UNCHANGED <<receiver, recvBuffer, pushed, ring, dst>>
    BY <1>7 DEF CardRead, CardEnds, hostVars, recvVars
  <2>2. HandsInv'
    BY <1>0, <2>1 DEF HandsInv, OnHost
  <2> QED BY <1>7, <2>2, ReadFlows, EndFlows
<1> QED
  BY <1>1, <1>2, <1>3, <1>4, <1>5, <1>6, <1>7
  DEF Next, Host, Receiver, Card, Fault, Stopped

\* The words 1..n, and those that follow them.
LEMMA NumbersFollow ==
  ASSUME NEW s \in Seq(Nat), \A i \in 1..Len(s) : s[i] = i,
         NEW t \in Seq(Nat), \A i \in 1..Len(t) : t[i] = Len(s) + i
  PROVE  /\ s \o t \in Seq(Nat) /\ Len(s \o t) = Len(s) + Len(t)
         /\ \A i \in 1..Len(s \o t) : (s \o t)[i] = i
<1>1. Len(s) \in Nat /\ Len(t) \in Nat
  BY LenProperties
<1>2. /\ s \o t \in Seq(Nat) /\ Len(s \o t) = Len(s) + Len(t)
      /\ \A i \in 1..(Len(s) + Len(t)) : (s \o t)[i] = IF i <= Len(s) THEN s[i] ELSE t[i - Len(s)]
  BY ConcatProperties
<1>3. ASSUME NEW i \in 1..(Len(s) + Len(t)) PROVE (s \o t)[i] = i
  <2>1. CASE i <= Len(s)
    BY <1>1, <1>2, <2>1
  <2>2. CASE i > Len(s)
    <3>1. i - Len(s) \in 1..Len(t) /\ Len(s) + (i - Len(s)) = i
      BY <1>1, <2>2
    <3>2. t[i - Len(s)] = i
      BY <3>1
    <3> QED BY <1>1, <1>2, <2>2, <3>2
  <2> QED BY <1>1, <2>1, <2>2
<1> QED BY <1>2, <1>3

\* What the host has are the words that have left the FIFO, then come those of the FIFO.
LEMMA StreamOfFlow ==
  ASSUME FlowInv
  PROVE  /\ Base \in Nat /\ Stream \in Seq(Nat) /\ Len(Stream) = Base + Len(c2h)
         /\ \A i \in 1..Base : Stream[i] = i
         /\ \A i \in 1..Len(c2h) : Stream[Base + i] = c2h[i]
<1>1. TypeOK /\ HandsInv
  BY DEF FlowInv
<1>2. /\ Len(dst) \in Nat /\ Len(ring) \in Nat /\ Len(recvBuffer) \in Nat /\ Len(c2h) \in Nat
      /\ dst \in Seq(Nat) /\ ring \in Seq(Nat) /\ recvBuffer \in Seq(Nat) /\ c2h \in Seq(Nat)
      /\ pushed \in Nat /\ OnHost = Len(dst) + Len(ring)
      /\ Pending \in Nat /\ Base = OnHost + Pending
  BY <1>1, Lengths, BaseOfHands DEF OnHost, Base
<1>3. /\ InFlight \in Seq(Nat) /\ Len(InFlight) = Pending
      /\ \A i \in 1..Pending : InFlight[i] = OnHost + i
  <2>1. CASE receiver = "push"
    <3>1. /\ recvBuffer # << >> /\ Pending = ToPush(recvBuffer) - pushed
          /\ ToPush(recvBuffer) \in Int /\ ToPush(recvBuffer) <= Len(recvBuffer)
          /\ \A j \in (pushed + 1)..ToPush(recvBuffer) : recvBuffer[j] = OnHost + (j - pushed)
      <4>1. Len(recvBuffer) > 0
        BY <1>1, <1>2, <2>1, Sizes DEF HandsInv
      <4>2. recvBuffer # << >>
        BY <4>1, EmptySeq
      <4>3. ToPush(recvBuffer) \in Int /\ ToPush(recvBuffer) <= Len(recvBuffer)
        BY <1>2, Sizes DEF ToPush
      <4>4. \A j \in (pushed + 1)..ToPush(recvBuffer) : recvBuffer[j] = OnHost + (j - pushed)
        BY <1>1, <2>1 DEF HandsInv
      <4> QED BY <2>1, <4>2, <4>3, <4>4 DEF Pending
    <3>2. PICK m \in Int : m = ToPush(recvBuffer) /\ Pending = m - pushed
      BY <3>1
    <3>3. InFlight = SubSeq(recvBuffer, pushed + 1, m)
      BY <3>1, <3>2 DEF InFlight
    <3>4. \A i \in (pushed + 1)..m : recvBuffer[i] \in Nat
      <4>1. \A i \in (pushed + 1)..m : i \in 1..Len(recvBuffer)
        BY <1>2, <3>1, <3>2
      <4> QED BY <1>2, <4>1, ElementOfSeq
    <3>5. /\ SubSeq(recvBuffer, pushed + 1, m) \in Seq(Nat)
          /\ Len(SubSeq(recvBuffer, pushed + 1, m)) =
               IF pushed + 1 <= m THEN m - (pushed + 1) + 1 ELSE 0
          /\ \A i \in 1..(m - (pushed + 1) + 1) :
               SubSeq(recvBuffer, pushed + 1, m)[i] = recvBuffer[pushed + 1 + i - 1]
      <4>1. pushed + 1 \in Int
        BY <1>2
      <4> QED BY <3>4, <4>1, SubSeqProperties
    <3>6. Len(InFlight) = Pending /\ InFlight \in Seq(Nat)
      <4>1. (IF pushed + 1 <= m THEN m - (pushed + 1) + 1 ELSE 0) = m - pushed
        <5>1. pushed \in Nat /\ m - pushed \in Nat
          BY <1>2, <3>2
        <5> QED BY <5>1
      <4> QED BY <3>2, <3>3, <3>5, <4>1
    <3>7. ASSUME NEW i \in 1..Pending PROVE InFlight[i] = OnHost + i
      <4>1. /\ pushed + i \in (pushed + 1)..m /\ (pushed + i) - pushed = i
            /\ i \in 1..(m - (pushed + 1) + 1) /\ pushed + 1 + i - 1 = pushed + i
        <5>1. pushed \in Nat /\ i \in 1..(m - pushed)
          BY <1>2, <3>2
        <5> QED BY <3>2, <5>1
      <4>2. InFlight[i] = recvBuffer[pushed + i]
        BY <3>3, <3>5, <4>1
      <4> QED BY <3>1, <3>2, <4>1, <4>2
    <3> QED BY <3>6, <3>7
  <2>2. CASE receiver # "push"
    <3>1. recvBuffer = << >> /\ Pending = 0
      BY <1>1, <2>2 DEF HandsInv, Pending
    <3>2. InFlight = << >>
      <4>1. InFlight = SubSeq(<< >>, pushed + 1, 0)
        BY <3>1 DEF InFlight
      <4>2. pushed + 1 \in Int /\ pushed + 1 > 0
        BY <1>2
      <4> QED BY <4>1, <4>2, SubSeqEmpty
    <3> QED BY <3>1, <3>2, EmptySeq
  <2> QED BY <2>1, <2>2
<1>4. /\ dst \o ring \in Seq(Nat) /\ Len(dst \o ring) = OnHost
      /\ \A i \in 1..OnHost : (dst \o ring)[i] = i
  <2>1. /\ \A i \in 1..Len(ring) : ring[i] = Len(dst) + i
        /\ \A i \in 1..Len(dst) : dst[i] = i
    BY <1>1 DEF HandsInv
  <2> QED BY <1>2, <2>1, NumbersFollow
<1> DEFINE host == dst \o ring \o InFlight
<1>5. /\ host \in Seq(Nat) /\ Len(host) = Base
      /\ \A i \in 1..Base : host[i] = i
  BY <1>2, <1>3, <1>4, NumbersFollow
<1>6. Stream = host \o c2h
  BY DEF Stream
<1> HIDE DEF host
<1>7. Base \in Nat
  BY <1>5, LenProperties
<1>8. /\ Stream \in Seq(Nat) /\ Len(Stream) = Base + Len(c2h)
      /\ \A i \in 1..(Base + Len(c2h)) :
           Stream[i] = IF i <= Base THEN host[i] ELSE c2h[i - Base]
  BY <1>2, <1>5, <1>6, ConcatProperties
<1>9. \A i \in 1..Base : Stream[i] = i
  BY <1>2, <1>5, <1>7, <1>8
<1>10. ASSUME NEW i \in 1..Len(c2h) PROVE Stream[Base + i] = c2h[i]
  <2>1. Base + i \in 1..(Base + Len(c2h)) /\ ~(Base + i <= Base) /\ (Base + i) - Base = i
    BY <1>2, <1>7
  <2> QED BY <1>8, <2>1
<1> QED BY <1>7, <1>8, <1>9, <1>10

\* From the invariant: every word is where it should be, none is missing.
LEMMA FlowConserves == FlowInv => Conservation
<1> SUFFICES ASSUME FlowInv PROVE Conservation
  OBVIOUS
<1> DEFINE L == Len(c2h)
<1>1. /\ Base \in Nat /\ L \in Nat /\ nextWord \in Nat
      /\ \A i \in 1..L : c2h[i] \in Nat
      /\ \A i \in 1..Base : Stream[i] = i
      /\ \A i \in 1..L : Stream[Base + i] = c2h[i]
      /\ DOMAIN Stream = 1..(Base + L) /\ Len(Stream) = Base + L
  BY StreamOfFlow, Lengths, ElementOfSeq, LenProperties DEF FlowInv
<1>2. /\ Base < nextWord
      /\ \A i \in 1..L : c2h[i] # 0 => Base < c2h[i] /\ c2h[i] < nextWord
      /\ \A i, j \in 1..L : i < j /\ c2h[i] # 0 /\ c2h[j] # 0 => c2h[i] < c2h[j]
      /\ \A n \in (Base + 1)..(nextWord - 1) : \E i \in 1..L : c2h[i] = n
  BY DEF FlowInv, WordsInv
<1>3. \A i \in 1..(Base + L) :
        \/ i <= Base /\ i \in 1..Base
        \/ i > Base /\ i - Base \in 1..L /\ Base + (i - Base) = i
  BY <1>1
<1>4. \A i \in 1..(Base + L) :
        \/ i <= Base /\ Stream[i] = i
        \/ i > Base /\ i - Base \in 1..L /\ Stream[i] = c2h[i - Base]
  BY <1>1, <1>3
<1> HIDE DEF L
<1>5. {Stream[i] : i \in 1..(Base + L)} \ {0} = 1..(nextWord - 1)
  <2>1. ASSUME NEW i \in 1..(Base + L), Stream[i] # 0 PROVE Stream[i] \in 1..(nextWord - 1)
    <3>1. CASE i <= Base /\ Stream[i] = i
      BY <1>1, <1>2, <3>1
    <3>2. CASE i > Base /\ i - Base \in 1..L /\ Stream[i] = c2h[i - Base]
      BY <1>1, <1>2, <2>1, <3>2
    <3> QED BY <1>4, <3>1, <3>2
  <2>2. ASSUME NEW n \in 1..(nextWord - 1) PROVE \E i \in 1..(Base + L) : Stream[i] = n
    <3>1. CASE n <= Base
      BY <1>1, <3>1
    <3>2. CASE n > Base
      <4>1. PICK i \in 1..L : c2h[i] = n
        BY <1>1, <1>2, <3>2
      <4>2. Base + i \in 1..(Base + L)
        BY <1>1
      <4> QED BY <1>1, <4>1, <4>2
    <3>3. n <= Base \/ n > Base
      BY <1>1
    <3> QED BY <3>1, <3>2, <3>3
  <2> QED BY <2>1, <2>2
<1>6. ASSUME NEW i \in 1..(Base + L), NEW j \in 1..(Base + L), i < j,
             Stream[i] # 0, Stream[j] # 0
      PROVE  Stream[i] < Stream[j]
  <2>1. CASE i <= Base /\ Stream[i] = i
    <3>1. CASE j <= Base /\ Stream[j] = j
      BY <1>1, <1>6, <2>1, <3>1
    <3>2. CASE j > Base /\ j - Base \in 1..L /\ Stream[j] = c2h[j - Base]
      <4>1. Base < c2h[j - Base]
        BY <1>2, <1>6, <3>2
      <4> QED BY <1>1, <2>1, <3>2, <4>1
    <3> QED BY <1>4, <3>1, <3>2
  <2>2. CASE i > Base /\ i - Base \in 1..L /\ Stream[i] = c2h[i - Base]
    <3>1. j > Base /\ j - Base \in 1..L /\ Stream[j] = c2h[j - Base]
      <4>1. ~(j <= Base)
        BY <1>1, <1>6, <2>2
      <4> QED BY <1>4, <4>1
    <3>2. i - Base < j - Base
      BY <1>1, <1>6
    <3> QED BY <1>2, <1>6, <2>2, <3>1, <3>2
  <2> QED BY <1>4, <2>1, <2>2
<1>7. \A i \in 1..(Len(Stream) - Len(c2h)) : Stream[i] # 0
  BY <1>1 DEF L
<1> QED BY <1>1, <1>5, <1>6, <1>7 DEF Conservation, IsData

\* From the invariant: what the caller has begins with word 1 and has no gap.
LEMMA FlowOrders == FlowInv => InOrder
<1> SUFFICES ASSUME FlowInv PROVE InOrder
  OBVIOUS
<1>1. dst \in Seq(Nat) /\ Len(dst) \in Nat /\ \A i \in 1..Len(dst) : dst[i] = i
  BY Lengths DEF FlowInv, HandsInv
<1>2. Numbers(1, Len(dst)) = [i \in 1..Len(dst) |-> i]
  BY <1>1 DEF Numbers
<1>3. dst = [i \in 1..Len(dst) |-> dst[i]]
  BY <1>1, LenProperties
<1> QED BY <1>1, <1>2, <1>3 DEF InOrder

\* The order of the words holds in every state, whatever the board's files do.
LEMMA FlowHolds == Spec => []FlowInv
BY FlowInitial, FlowInductive, PTL DEF Spec

\* The caller gets the readback words in order, each once, without markers, for every
\* script, ring size, interleaving and fault: a read() that returns 0 early ends the
\* receiver thread, but the next one goes on where it stopped.
THEOREM DeliveredInOrder == Spec => []InOrder
BY FlowOrders, FlowHolds, PTL

\* And between the card and the caller no word is lost or duplicated, and no end marker
\* is taken for data: the caller's words, the ring, the chunk in the receiver's hands and
\* the FIFO hold, in order, every word the card has produced.
THEOREM NothingLost == Spec => []Conservation
BY FlowConserves, FlowHolds, PTL

=============================================================================
