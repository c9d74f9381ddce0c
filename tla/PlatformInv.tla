---------------------------- MODULE PlatformInv ----------------------------
(***************************************************************************)
(* The inductive invariant of Platform, from which InOrder, SendOnlyWhen-  *)
(* Idle and the refinement of Readback follow.  None of those is inductive *)
(* by itself: each depends on where the next words of the stream are       *)
(* (ring, chunk being pushed, FIFO) and on the receiver thread ending      *)
(* exactly when it has taken the end marker.                               *)
(***************************************************************************)
EXTENDS Platform

\* read() never returns 0 while data is outstanding.
NoEmptyReads == "emptyRead" \notin Faults

\* Words of the chunk in the receiver's hands that are not in the ring yet.
Pending == IF receiver = "push" THEN ToPush(recvBuffer) - pushed ELSE 0

\* Words that have left the card's FIFO.
Base == OnHost + Pending

HasMarker == c2h # << >> /\ c2h[Len(c2h)] = 0
DataLen   == IF HasMarker THEN Len(c2h) - BeatWords ELSE Len(c2h)

\* The FIFO holds the words that follow those that left it, whole reads only,
\* then at most one marker, which comes after the last read of the program.
CardInv ==
  /\ Len(jobs) <= 1
  /\ HasMarker => jobs = << >>
  /\ Len(c2h) <= ChunkWords
  /\ \E q \in 0..ChunkBeats : DataLen = q * ReadWords
  /\ \A i \in 1..DataLen : c2h[i] = Base + i
  /\ \A i \in (DataLen + 1)..Len(c2h) : c2h[i] = 0
  /\ nextWord = Base + DataLen + 1

\* A chunk is pushed in order; after a short one nothing is left on the card.
ReceiverInv ==
  /\ receiver = "push" =>
       /\ Len(recvBuffer) \in BeatWords..ChunkWords
       /\ pushed <= ToPush(recvBuffer)
       /\ \A j \in (pushed + 1)..ToPush(recvBuffer) : recvBuffer[j] = OnHost + (j - pushed)
       /\ Short(recvBuffer) => jobs = << >> /\ c2h = << >>
  /\ ReceiverEnded => jobs = << >> /\ c2h = << >>

\* The host sends only to an idle card, and its ring and buffer are in order.
HostInv ==
  /\ pc = "send" => receiver = "recv" /\ jobs = << >> /\ c2h = << >>
  /\ \A i \in 1..Len(ring) : ring[i] = Len(dst) + i
  /\ \A i \in 1..Len(dst) : dst[i] = i

StreamInv == CardInv /\ ReceiverInv /\ HostInv

IInv == TypeOK /\ StreamInv

\* Between two calls the send buffer is clear, and while a program waits to be
\* sent it holds that program and no more.
BufferInv ==
  /\ pc = "pop" => Call.op = "receiveData"
  /\ pc \in {"call", "pop"} => sendBuffer = EmptyBuffer
  /\ pc \in {"join", "send"} =>
       sendBuffer = [b \in 1..MaxInsts |->
                       IF b <= Call.insts THEN [NoBeat EXCEPT !.lane0 = at] ELSE NoBeat]

SentInv == TypeOK /\ BufferInv /\ CardMatchesCalls

-----------------------------------------------------------------------------
(* Which scripts can come to their end *)

\* A reset took a program's last reads: no marker will come, and the receiver
\* thread waits for it for ever.
Abandoned ==
  /\ receiver \in {"recv", "push"}
  /\ pc # "send"
  /\ jobs = << >>
  /\ ~HasMarker
  /\ ~(receiver = "push" /\ Short(recvBuffer))

\* Words the program on the card has still to read.
Left == IF jobs = << >> THEN 0 ELSE Head(jobs) * ReadWords

\* The calls that have come back fit, what the caller has is what they asked for,
\* and, unless a program was abandoned, the card reads what they had it read.
FitInv ==
  /\ \A i \in 1..(at - 1) : FitsAt(calls, i)
  /\ pc = "send" => FitsAt(calls, at)
  /\ Len(ring) <= RingCapacity
  /\ pc \in {"call", "join", "send"} => Len(dst) = Taken(calls)[at - 1]
  /\ pc = "pop" => Len(dst) + want = Taken(calls)[at]
  /\ nextWord - 1 + Left <= Produced(calls)[at - 1]
  /\ nextWord - 1 + Left = Produced(calls)[at - 1] \/ Abandoned

HostFits == IInv /\ SentInv /\ FitInv

-----------------------------------------------------------------------------
(* The order of the words does not depend on the receiver thread ending with *)
(* its program: the FIFO may hold what several programs have left in it.     *)

\* The receiver holds a chunk or nothing; its words, those of the ring and those
\* the caller has follow each other.
HandsInv ==
  /\ receiver = "push" =>
       /\ Len(recvBuffer) \in BeatWords..ChunkWords
       /\ pushed <= ToPush(recvBuffer)
       /\ \A j \in (pushed + 1)..ToPush(recvBuffer) : recvBuffer[j] = OnHost + (j - pushed)
  /\ receiver # "push" => recvBuffer = << >>
  /\ \A i \in 1..Len(ring) : ring[i] = Len(dst) + i
  /\ \A i \in 1..Len(dst) : dst[i] = i

\* The FIFO's data are the words that have not left it, in order.
WordsInv ==
  /\ Len(c2h) <= ChunkWords
  /\ Base < nextWord
  /\ \A i \in 1..Len(c2h) : c2h[i] # 0 => Base < c2h[i] /\ c2h[i] < nextWord
  /\ \A i, j \in 1..Len(c2h) : i < j /\ c2h[i] # 0 /\ c2h[j] # 0 => c2h[i] < c2h[j]
  /\ \A n \in (Base + 1)..(nextWord - 1) : \E i \in 1..Len(c2h) : c2h[i] = n

\* Between two ends of packets that follow each other in E are whole reads, then a marker;
\* after the last are whole reads.
Packets(E) ==
  /\ 0 \in E
  /\ \A p, e \in E : p < e /\ (\A x \in E : x <= p \/ e <= x) =>
       /\ \E q \in Nat : e = p + q * ReadWords + BeatWords
       /\ \A i \in (p + 1)..(e - BeatWords) : c2h[i] # 0
       /\ \A i \in (e - BeatWords + 1)..e : c2h[i] = 0
  /\ \A p \in E : (\A x \in E : x <= p) =>
       /\ \E q \in Nat : Len(c2h) = p + q * ReadWords
       /\ \A i \in (p + 1)..Len(c2h) : c2h[i] # 0

PacketsInv == \E E \in SUBSET (0..Len(c2h)) : Packets(E)

FlowInv == TypeOK /\ HandsInv /\ WordsInv /\ PacketsInv
=============================================================================
