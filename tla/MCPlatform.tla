----------------------------- MODULE MCPlatform -----------------------------
(* Scripts and sizes with which TLC checks Platform. *)
EXTENDS PlatformInv

Exec(n)    == [op |-> "execute", concluded |-> TRUE, insts |-> 1, reads |-> n]
Longer(n)  == [op |-> "execute", concluded |-> TRUE, insts |-> 2, reads |-> n]
TooLong    == [op |-> "execute", concluded |-> TRUE, insts |-> 3, reads |-> 1]
Open       == [op |-> "execute", concluded |-> FALSE, insts |-> 1, reads |-> 1]
Receive(n) == [op |-> "receiveData", words |-> n]
Aref(on)   == [op |-> "setAREF", on |-> on]
Plain(op)  == [op |-> op]

Ending == {Plain("destroy"), Plain("close")}

AllCalls ==
  {Exec(n) : n \in {0, 1, 2, 3}} \cup {Longer(1), TooLong, Open}
    \cup {Receive(n) : n \in {1, 2, 4}}
    \cup {Aref(TRUE), Aref(FALSE), Plain("resetFPGA"), Plain("close")}

ScriptsOver(S, n) == UNION {[1..m -> S] : m \in 1..n}

\* Every script of at most three calls, and the same with a destructor.
AllScripts ==
  LET short == ScriptsOver(AllCalls, 3)
  IN  short \cup {Append(s, Plain("destroy")) : s \in ScriptsOver(AllCalls, 2)}

\* Scripts that keep to the rule: all the short ones, and the shapes of the
\* Python experiments (switch refresh off; execute and receive per row, or
\* execute everything first; close before the destructor).
Calls4 == {Exec(0), Exec(1), Exec(2), Longer(3), Receive(1), Receive(2), Receive(4),
           Plain("close"), Aref(TRUE)}

OrderlyScripts ==
  {s \in AllScripts \cup ScriptsOver(Calls4, 4) : Orderly(s)} \cup
  {<<Aref(FALSE), Longer(2), Receive(2), Receive(2), Exec(1), Receive(2), Plain("close"), Plain("destroy")>>,
   <<Exec(0), Exec(1), Longer(1), Receive(2), Receive(2), Plain("close"), Plain("resetFPGA")>>,
   <<Longer(6), Receive(1), Receive(10), Receive(1), Exec(2), Receive(4), Plain("close")>>}

\* Both: with the latter every call has to come back.
CheckedScripts == AllScripts \cup OrderlyScripts

\* Scripts with which a file of the board may fail.
FaultScripts ==
  {<<Exec(3), Receive(4), Exec(1), Receive(4), Plain("close")>>,
   <<Exec(2), Exec(2), Receive(3), Exec(0), Receive(5), Plain("close")>>,
   <<Aref(TRUE), Exec(1), Plain("resetFPGA"), Exec(1), Receive(2), Plain("close")>>}

\* A queue of two programs, nothing of the first one received in between, and
\* more data in it than the ring buffer holds.
QueueScripts == {<<Exec(3), Exec(1), Receive(8), Plain("close")>>}

=============================================================================
