------------------------------ MODULE Platform ------------------------------
(***************************************************************************)
(* IPlatform (src/api/platform/platform.cpp) driving a board through   *)
(* XDMA (src/api/board/xdma.cpp).                                      *)
(*                                                                         *)
(* Three processes run concurrently:                                       *)
(*   - the host thread, making a script of IPlatform calls;                *)
(*   - the receiver thread consumeData_, which moves readback data from    *)
(*     the card into a single-producer single-consumer ring buffer;        *)
(*   - the card (external): it runs the programs it is sent, puts the data *)
(*     their DRAM reads return in a FIFO and, after the last, one more AXI *)
(*     beat that marks the end of the program.                             *)
(*                                                                         *)
(* Readback words are numbered 1, 2, 3, ... in the order the card produces *)
(* them; the words of an end marker are 0.                                 *)
(***************************************************************************)
EXTENDS Integers, Sequences

CONSTANTS
  Scripts,      \* the sequences of calls the host may make
  BeatWords,    \* words in one AXI beat (8 in the code)
  ReadBeats,    \* beats one DRAM read returns (2: a 64-byte cache line)
  ChunkBeats,   \* readback_buffer_size_, in beats (1024)
  RingCapacity, \* capacity of m_recv_ringbuffer_, in words (1024*1024*2)
  MaxInsts,     \* max_num_insts_per_prog_ (2048)
  Faults        \* which faults of the board's files may happen

ReadWords  == ReadBeats * BeatWords
ChunkWords == ChunkBeats * BeatWords

\* What a caller may ask for.  A concluded program has at least its END.
Calls ==
  [op : {"execute"}, concluded : BOOLEAN, insts : Nat \ {0}, reads : Nat]
    \cup [op : {"receiveData"}, words : Nat]
    \cup [op : {"setAREF"}, on : BOOLEAN]
    \cup [op : {"resetFPGA", "close", "destroy"}]

ASSUME SizesAssumption ==
  /\ BeatWords \in Nat \ {0}
  /\ ReadBeats \in Nat /\ ReadBeats >= 2
  /\ ChunkBeats \in Nat \ {0}
  /\ \E m \in 1..ChunkBeats : ChunkBeats = m * ReadBeats
  /\ RingCapacity \in Nat \ {0}
  /\ MaxInsts \in Nat \ {0}

ASSUME ScriptsAssumption == Scripts \subseteq Seq(Calls)

ASSUME FaultsAssumption == Faults \subseteq {"emptyRead", "failedRead", "failedWrite"}

VARIABLES
  calls,      \* the script of this behaviour; never changes
  at,         \* index of the call being made
  pc,         \* where the host thread is
  want,       \* words receiveData still has to pop
  sendBuffer, \* m_send_buffer_: lane 0 and the control lane of each beat
  receiver,   \* m_receiver_thread_; joinable unless "none"
  recvBuffer, \* what the last read() returned
  pushed,     \* words of it already in the ring buffer
  ring,       \* m_recv_ringbuffer_
  dst,        \* every word handed to the caller so far, in order
  jobs,       \* card: DRAM reads left to do, for each program it was sent
  c2h,        \* card: FIFO of readback words
  nextWord,   \* card: number of the next readback word
  aref,       \* card: auto-refresh
  received    \* card: every program it was sent, as the lanes 0 of its beats

hostVars == <<calls, at, pc, want, sendBuffer, dst>>
recvVars == <<receiver, recvBuffer, pushed>>
cardVars == <<jobs, c2h, nextWord, aref, received>>
vars == <<hostVars, recvVars, ring, cardVars>>

-----------------------------------------------------------------------------
NoBeat      == [lane0 |-> 0, control |-> 0]
EmptyBuffer == [b \in 1..MaxInsts |-> NoBeat]
ResetBit    == 1
ArefBit     == 8

Minimum(a, b) == IF a < b THEN a ELSE b

Call       == calls[at]
Making(op) == pc = "call" /\ at <= Len(calls) /\ Call.op = op
Halted     == pc \in {"abort", "terminate"}
Finished   == pc = "call" /\ at > Len(calls)

\* Joining the receiver thread returns once it has ended.
ReceiverEnded == receiver \in {"none", "done"}

Return == pc' = "call" /\ at' = at + 1

\* The card decodes what sendData writes: the control lane tells a reset and
\* an auto-refresh switch from a program.
CardTakes(packet, reads) ==
  /\ \/ /\ packet[1].control = 0
        /\ jobs' = Append(jobs, reads)
        /\ received' = Append(received, [b \in DOMAIN packet |-> packet[b].lane0])
        /\ UNCHANGED aref
     \/ /\ packet[1].control = ResetBit
        /\ jobs' = << >>
        /\ UNCHANGED <<received, aref>>
     \/ /\ packet[1].control = ArefBit
        /\ aref' = (packet[1].lane0 = 1)
        /\ UNCHANGED <<jobs, received>>
  /\ UNCHANGED <<c2h, nextWord>>

Init ==
  /\ calls \in Scripts
  /\ at = 1
  /\ pc = "call"
  /\ want = 0
  /\ sendBuffer = EmptyBuffer
  /\ receiver = "none"
  /\ recvBuffer = << >>
  /\ pushed = 0
  /\ ring = << >>
  /\ dst = << >>
  /\ jobs = << >>
  /\ c2h = << >>
  /\ nextWord = 1
  /\ aref = FALSE
  /\ received = << >>

-----------------------------------------------------------------------------
(* The host thread *)

Acceptable(call) == call.concluded /\ call.insts <= MaxInsts

\* Mutant: execute() without its assertions.
ExecuteUnchecked ==
  /\ Making("execute")
  /\ sendBuffer' = [b \in 1..MaxInsts |->
                      IF b <= Call.insts THEN [sendBuffer[b] EXCEPT !.lane0 = at] ELSE sendBuffer[b]]
  /\ pc' = "join"
  /\ UNCHANGED <<calls, at, want, dst, recvVars, ring, cardVars>>

\* execute(), up to the join: the assertions, then the program is copied into
\* lane 0 of the send buffer.  The number of the call stands for its code.
Execute ==
  /\ Making("execute")
  /\ Acceptable(Call)
  /\ sendBuffer' = [b \in 1..MaxInsts |->
                      IF b <= Call.insts THEN [sendBuffer[b] EXCEPT !.lane0 = at]
                                         ELSE sendBuffer[b]]
  /\ pc' = "join"
  /\ UNCHANGED <<calls, at, want, dst, recvVars, ring, cardVars>>

ExecuteRejected ==
  /\ Making("execute")
  /\ ~Acceptable(Call)
  /\ pc' = "abort"
  /\ UNCHANGED <<calls, at, want, sendBuffer, dst, recvVars, ring, cardVars>>

\* Mutant: the old thread is not waited for.
SpawnWithoutJoin ==
  /\ pc = "join"
  /\ receiver' = "recv" /\ recvBuffer' = << >> /\ pushed' = 0
  /\ pc' = "send"
  /\ UNCHANGED <<calls, at, want, sendBuffer, dst, ring, cardVars>>

\* Waits for the receiver thread of the previous program, starts a new one.
JoinAndSpawn ==
  /\ pc = "join"
  /\ ReceiverEnded
  /\ receiver' = "recv"
  /\ recvBuffer' = << >>
  /\ pushed' = 0
  /\ pc' = "send"
  /\ UNCHANGED <<calls, at, want, sendBuffer, dst, ring, cardVars>>

\* sendData of the program, then the part of the buffer it used is cleared.
Send ==
  /\ pc = "send"
  /\ CardTakes(SubSeq(sendBuffer, 1, Call.insts), Call.reads)
  /\ sendBuffer' = [b \in 1..MaxInsts |->
                      IF b <= Call.insts THEN NoBeat ELSE sendBuffer[b]]
  /\ Return
  /\ UNCHANGED <<calls, want, dst, recvVars, ring>>

ReceiveData ==
  /\ Making("receiveData")
  /\ want' = Call.words
  /\ pc' = "pop"
  /\ UNCHANGED <<calls, at, sendBuffer, dst, recvVars, ring, cardVars>>

\* One pop() takes some of the words that are in the ring buffer: the index
\* it compares with may be older than the receiver's last push.
Pop ==
  /\ pc = "pop"
  /\ \E k \in 1..Minimum(want, Len(ring)) :
       /\ dst' = dst \o SubSeq(ring, 1, k)
       /\ ring' = SubSeq(ring, k + 1, Len(ring))
       /\ want' = want - k
  /\ UNCHANGED <<calls, at, pc, sendBuffer, recvVars, cardVars>>

\* Mutant: receiveData takes what there is and does not wait for the rest.
ReceiveReturnsEarly ==
  /\ pc = "pop"
  /\ Return
  /\ UNCHANGED <<calls, want, sendBuffer, dst, recvVars, ring, cardVars>>

ReceiveReturns ==
  /\ pc = "pop"
  /\ want = 0
  /\ Return
  /\ UNCHANGED <<calls, want, sendBuffer, dst, recvVars, ring, cardVars>>

\* close() joins the receiver if there is one and does nothing otherwise.
Close ==
  /\ Making("close")
  /\ ReceiverEnded
  /\ receiver' = "none"
  /\ Return
  /\ UNCHANGED <<calls, want, sendBuffer, dst, recvBuffer, pushed, ring, cardVars>>

\* Mutant: the buffer is not cleared after a command.
SendCommandKeepsBuffer(beat) ==
  /\ CardTakes(<<beat>>, 0)
  /\ sendBuffer' = [EmptyBuffer EXCEPT ![1] = beat]
  /\ Return
  /\ UNCHANGED <<calls, want, dst, recvVars, ring>>

\* Both commands clear the whole buffer, fill the first beat, send it and
\* clear the whole buffer again.
SendCommand(beat) ==
  /\ CardTakes(<<beat>>, 0)
  /\ sendBuffer' = EmptyBuffer
  /\ Return
  /\ UNCHANGED <<calls, want, dst, recvVars, ring>>

ResetFPGA ==
  /\ Making("resetFPGA")
  /\ SendCommand([NoBeat EXCEPT !.control = ResetBit])

SetAREF ==
  /\ Making("setAREF")
  /\ SendCommand([lane0 |-> IF Call.on THEN 1 ELSE 0, control |-> ArefBit])

\* The destructor does not join: destroying a joinable std::thread terminates.
Destroy ==
  /\ Making("destroy")
  /\ IF receiver = "none" THEN Return ELSE pc' = "terminate" /\ UNCHANGED at
  /\ UNCHANGED <<calls, want, sendBuffer, dst, recvVars, ring, cardVars>>

\* write() returns an error or a short count: the assertion in sendData aborts.
WriteFails ==
  /\ "failedWrite" \in Faults
  /\ pc = "send" \/ Making("resetFPGA") \/ Making("setAREF")
  /\ pc' = "abort"
  /\ UNCHANGED <<calls, at, want, sendBuffer, dst, recvVars, ring, cardVars>>

-----------------------------------------------------------------------------
(* The receiver thread *)

\* A packet ends with its marker.
MarkerAt(i)    == i \in 1..Len(c2h) /\ c2h[i] = 0
FirstMarker(i) == MarkerAt(i) /\ \A j \in 1..(i - 1) : ~MarkerAt(j)

\* How many words read() returns: a full chunk, or what is left of the packet.
Available(count) ==
  \/ /\ count = ChunkWords
     /\ Len(c2h) >= ChunkWords
     /\ \A i \in 1..(ChunkWords - BeatWords) : ~MarkerAt(i)
  \/ \E i \in 1..(ChunkWords - BeatWords) :
       FirstMarker(i) /\ count = i + BeatWords - 1

Short(buffer) == Len(buffer) # ChunkWords

\* Mutants: the marker is pushed too; the last beat is always taken for one.
ToPushAll(buffer)     == Len(buffer)
ToPushTrimmed(buffer) == Len(buffer) - BeatWords

\* A short transfer ends with the marker, which is not data.
ToPush(buffer) == IF Short(buffer) THEN Len(buffer) - BeatWords ELSE Len(buffer)

Recv ==
  /\ ~Halted
  /\ receiver = "recv"
  /\ \E count \in 1..Len(c2h) :
       /\ Available(count)
       /\ recvBuffer' = SubSeq(c2h, 1, count)
       /\ c2h' = SubSeq(c2h, count + 1, Len(c2h))
  /\ pushed' = 0
  /\ receiver' = "push"
  /\ UNCHANGED <<hostVars, ring, jobs, nextWord, aref, received>>

\* read() returns 0: the thread takes it for the end of the data.
RecvEmpty ==
  /\ "emptyRead" \in Faults
  /\ ~Halted
  /\ receiver = "recv"
  /\ receiver' = "done"
  /\ UNCHANGED <<hostVars, recvBuffer, pushed, ring, cardVars>>

\* read() returns -1, a size_t larger than the buffer: the assertion aborts.
RecvFails ==
  /\ "failedRead" \in Faults
  /\ ~Halted
  /\ receiver = "recv"
  /\ pc' = "abort"
  /\ UNCHANGED <<calls, at, want, sendBuffer, dst, recvVars, ring, cardVars>>

\* Mutant: a second push() starts again from the start of the buffer.
PushFromStart ==
  /\ ~Halted
  /\ receiver = "push"
  /\ \E k \in 1..Minimum(ToPush(recvBuffer) - pushed, RingCapacity - Len(ring)) :
       /\ ring' = ring \o SubSeq(recvBuffer, 1, k)
       /\ pushed' = pushed + k
  /\ UNCHANGED <<hostVars, receiver, recvBuffer, cardVars>>

\* One push() moves as many words as it sees room for, some or all.
Push ==
  /\ ~Halted
  /\ receiver = "push"
  /\ \E k \in 1..Minimum(ToPush(recvBuffer) - pushed, RingCapacity - Len(ring)) :
       /\ ring' = ring \o SubSeq(recvBuffer, pushed + 1, pushed + k)
       /\ pushed' = pushed + k
  /\ UNCHANGED <<hostVars, receiver, recvBuffer, cardVars>>

\* The thread leaves its chunk and goes on as next says.
LeaveChunk(next) ==
  /\ ~Halted
  /\ receiver = "push"
  /\ receiver' = next
  /\ recvBuffer' = << >>
  /\ pushed' = 0
  /\ UNCHANGED <<hostVars, ring, cardVars>>

\* Mutants: what one push() did not take is dropped; the thread ends after its
\* first chunk; it never ends.
ChunkDroppedEarly == LeaveChunk(IF Short(recvBuffer) THEN "done" ELSE "recv")
EndsAfterChunk    == pushed = ToPush(recvBuffer) /\ LeaveChunk("done")
NeverEnds         == pushed = ToPush(recvBuffer) /\ LeaveChunk("recv")

\* Everything is pushed: the thread ends after a short transfer, else reads on.
ChunkDone ==
  /\ pushed = ToPush(recvBuffer)
  /\ LeaveChunk(IF Short(recvBuffer) THEN "done" ELSE "recv")

-----------------------------------------------------------------------------
(* The card, as the code in src/ uses it.  It stalls when its FIFO, which
   holds ChunkBeats beats, has no room for the data of another read. *)

CardRead ==
  /\ ~Halted
  /\ jobs # << >> /\ Head(jobs) > 0
  /\ Len(c2h) + ReadWords <= ChunkWords
  /\ c2h' = c2h \o [i \in 1..ReadWords |-> nextWord + i - 1]
  /\ nextWord' = nextWord + ReadWords
  /\ jobs' = <<Head(jobs) - 1>> \o Tail(jobs)
  /\ UNCHANGED <<hostVars, recvVars, ring, aref, received>>

CardEnds ==
  /\ ~Halted
  /\ jobs # << >> /\ Head(jobs) = 0
  /\ Len(c2h) + BeatWords <= ChunkWords
  /\ c2h' = c2h \o [i \in 1..BeatWords |-> 0]
  /\ jobs' = Tail(jobs)
  /\ UNCHANGED <<hostVars, recvVars, ring, nextWord, aref, received>>

-----------------------------------------------------------------------------
Host ==
  \/ Execute \/ ExecuteRejected \/ JoinAndSpawn \/ Send
  \/ ReceiveData \/ Pop \/ ReceiveReturns
  \/ Close \/ ResetFPGA \/ SetAREF \/ Destroy

Receiver == Recv \/ Push \/ ChunkDone

Card == CardRead \/ CardEnds

Fault == WriteFails \/ RecvEmpty \/ RecvFails

\* A script that is over, or a process that is gone, is not a deadlock.
Stopped == (Finished \/ Halted) /\ UNCHANGED vars

Next == Host \/ Receiver \/ Card \/ Fault \/ Stopped

Spec == Init /\ [][Next]_vars

\* The host and the receiver are operating-system threads that poll; the card
\* runs by itself.  No fairness is asked of the faults.
Fairness ==
  /\ WF_vars(Host)
  /\ WF_vars(Receiver)
  /\ WF_vars(Card)

FairSpec == Spec /\ Fairness

-----------------------------------------------------------------------------
(* Properties *)

\* The words of c2h, or of the receive buffer, that are readback data.
IsData(word)   == word # 0
InFlight       == SubSeq(recvBuffer, pushed + 1,
                         IF recvBuffer = << >> THEN 0 ELSE ToPush(recvBuffer))
OnHost         == Len(dst) + Len(ring)
Numbers(a, b)  == [i \in 1..(b - a + 1) |-> a + i - 1]

\* Type invariant.
TypeOK ==
  /\ calls \in Scripts
  /\ at \in 1..(Len(calls) + 1)
  /\ pc \in {"call", "join", "send", "pop", "abort", "terminate"}
  /\ pc \in {"join", "send"} => at <= Len(calls) /\ Call.op = "execute" /\ Acceptable(Call)
  /\ pc = "pop" => at <= Len(calls)
  /\ want \in Nat
  /\ sendBuffer \in [1..MaxInsts -> [lane0 : Nat, control : {0, ResetBit, ArefBit}]]
  /\ receiver \in {"none", "recv", "push", "done"}
  /\ recvBuffer \in Seq(Nat)
  /\ pushed \in Nat
  /\ ring \in Seq(Nat)
  /\ dst \in Seq(Nat)
  /\ jobs \in Seq(Nat)
  /\ c2h \in Seq(Nat)
  /\ nextWord \in Nat \ {0}
  /\ aref \in BOOLEAN
  /\ received \in Seq(Seq(Nat))

\* The caller receives the readback words in the order the DRAM was read, each
\* once, and never a word of an end marker (receiveData after consumeData_
\* has dropped the last 32 bytes of a short transfer).
InOrder == dst = Numbers(1, Len(dst))

\* Every word on its way, those of end markers included.
Stream == dst \o ring \o InFlight \o c2h

\* No word is lost or duplicated anywhere between the card and the caller:
\* the caller's words, the ring, the chunk being pushed and the card's FIFO
\* hold, in this order, every word produced (partial pushes and pops, the
\* marker dropped by its length only), and no marker has left the FIFO but
\* what was cut off.
Conservation ==
  /\ {Stream[i] : i \in DOMAIN Stream} \ {0} = 1..(nextWord - 1)
  /\ \A i, j \in DOMAIN Stream :
       i < j /\ IsData(Stream[i]) /\ IsData(Stream[j]) => Stream[i] < Stream[j]
  /\ \A i \in 1..(Len(Stream) - Len(c2h)) : IsData(Stream[i])

\* "Joins the receiver thread to make sure data transfer from previous program
\* is finished before starting the next one": when a program is sent the card
\* is idle and its FIFO empty.
SendOnlyWhenIdle == pc = "send" => jobs = << >> /\ c2h = << >>

\* The calls of one operation that have returned.
Made(op) == {j \in 1..(at - 1) : calls[j].op = op}

\* What the card got is what the calls said: auto-refresh is as the last
\* setAREF left it, and the programs are those of the calls of execute, in
\* their order, each complete and nothing else in it, though all of them share
\* one send buffer that is cleared only in part.
CardMatchesCalls ==
  /\ aref = \E j \in Made("setAREF") : calls[j].on /\ \A k \in Made("setAREF") : k <= j
  /\ {received[p][1] : p \in DOMAIN received} = Made("execute")
  /\ \A p, q \in DOMAIN received : p < q => received[p][1] < received[q][1]
  /\ \A p \in DOMAIN received :
       LET call == received[p][1]
       IN  received[p] = [b \in 1..calls[call].insts |-> call]

(* When do calls return?  The words that the first n calls of a script make
   the card produce, and that they hand to the caller. *)
RunningSum(amount) ==
  LET sum[n \in 0..Len(amount)] == IF n = 0 THEN 0 ELSE sum[n - 1] + amount[n]
  IN  sum

WordsRead(script) ==
  [n \in 1..Len(script) |-> IF script[n].op = "execute" THEN script[n].reads * ReadWords ELSE 0]

WordsAsked(script) ==
  [n \in 1..Len(script) |-> IF script[n].op = "receiveData" THEN script[n].words ELSE 0]

Produced(script) == RunningSum(WordsRead(script))
Taken(script)    == RunningSum(WordsAsked(script))

\* The rule nothing in the interface states: receive no more than the programs
\* have read, and when a call joins the receiver thread leave no more unread
\* than the ring buffer holds.
FitsAt(script, i) ==
  /\ script[i].op = "receiveData" => Taken(script)[i] <= Produced(script)[i]
  /\ script[i].op \in {"execute", "close"} =>
       Produced(script)[i - 1] - Taken(script)[i - 1] <= RingCapacity

Fits(script) == \A i \in 1..Len(script) : FitsAt(script, i)

\* A program has been executed since the last close.
Unclosed(script, i) ==
  \E j \in 1..(i - 1) :
    script[j].op = "execute" /\ \A k \in j..(i - 1) : script[k].op # "close"

Orderly(script) ==
  /\ Fits(script)
  /\ \A i \in 1..Len(script) :
       /\ script[i].op = "execute" => Acceptable(script[i])
       /\ script[i].op \in {"resetFPGA", "destroy"} => ~Unclosed(script, i)

\* A host that keeps to the rule gets every call back: no execute, close or
\* receiveData of it spins or joins for ever.
OrderlyCompletes == Orderly(calls) => <>Finished

\* And the rule is exact: a host that breaks it never gets to the end, in any
\* interleaving, whatever resets it makes.
OnlyFittingFinishes == Finished => Fits(calls)

\* "Executes all the programs in the queue back to back": execute comes back.
ExecuteReturns == (pc = "join") ~> (pc # "join")

\* The platform implements the abstract readback service.
Service == INSTANCE Readback WITH
  busy      <- receiver \in {"recv", "push"},
  produced  <- nextWord - 1,
  hosted    <- OnHost,
  delivered <- Len(dst)

ServiceSpec == Service!Spec
=============================================================================
