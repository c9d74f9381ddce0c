--------------------------- MODULE CampaignProofs ---------------------------
(***************************************************************************)
(* For every chip, every list of victims and counts, whatever an earlier   *)
(* campaign left and whatever fails: the scripts reach the rows they mean, *)
(* what they record is what the chip shows by itself, and a file says how  *)
(* far its script has come.                                                *)
(***************************************************************************)
EXTENDS Campaign, NaturalFacts, SequenceTheorems

-----------------------------------------------------------------------------
(* The address of every row is found again by mapping it once more, so that a logical  *)
(* address names the physical row it was computed from and no two rows share one.      *)

\* What the exchange does in the block of 8 rows that begins at 8 * q.
LEMMA Block ==
  ASSUME NEW q \in Nat
  PROVE  /\ Xor6(8 * q) = 8 * q + 6     /\ Xor6(8 * q + 6) = 8 * q
         /\ Xor6(8 * q + 1) = 8 * q + 7 /\ Xor6(8 * q + 7) = 8 * q + 1
         /\ Xor6(8 * q + 2) = 8 * q + 4 /\ Xor6(8 * q + 4) = 8 * q + 2
         /\ Xor6(8 * q + 3) = 8 * q + 5 /\ Xor6(8 * q + 5) = 8 * q + 3
<1>1. Xor6(8 * q) = 8 * q + 6
  <2>1. Bit(8 * q, 2) = 0
    BY DEF Bit
  <2>2. FlipBit(8 * q, 2) = 8 * q + 2
    BY <2>1 DEF FlipBit
  <2>3. Bit(8 * q + 2, 4) = 0
    BY DEF Bit
  <2> QED BY <2>2, <2>3 DEF FlipBit, Xor6
<1>2. Xor6(8 * q + 6) = 8 * q
  <2>1. Bit(8 * q + 6, 2) = 1
    BY DEF Bit
  <2>2. FlipBit(8 * q + 6, 2) = 8 * q + 4
    BY <2>1 DEF FlipBit
  <2>3. Bit(8 * q + 4, 4) = 1
    BY DEF Bit
  <2> QED BY <2>2, <2>3 DEF FlipBit, Xor6
<1>3. Xor6(8 * q + 1) = 8 * q + 7
  <2>1. Bit(8 * q + 1, 2) = 0
    BY DEF Bit
  <2>2. FlipBit(8 * q + 1, 2) = 8 * q + 3
    BY <2>1 DEF FlipBit
  <2>3. Bit(8 * q + 3, 4) = 0
    BY DEF Bit
  <2> QED BY <2>2, <2>3 DEF FlipBit, Xor6
<1>4. Xor6(8 * q + 7) = 8 * q + 1
  <2>1. Bit(8 * q + 7, 2) = 1
    BY DEF Bit
  <2>2. FlipBit(8 * q + 7, 2) = 8 * q + 5
    BY <2>1 DEF FlipBit
  <2>3. Bit(8 * q + 5, 4) = 1
    BY DEF Bit
  <2> QED BY <2>2, <2>3 DEF FlipBit, Xor6
<1>5. Xor6(8 * q + 2) = 8 * q + 4
  <2>1. Bit(8 * q + 2, 2) = 1
    BY DEF Bit
  <2>2. FlipBit(8 * q + 2, 2) = 8 * q
    BY <2>1 DEF FlipBit
  <2>3. Bit(8 * q, 4) = 0
    BY DEF Bit
  <2> QED BY <2>2, <2>3 DEF FlipBit, Xor6
<1>6. Xor6(8 * q + 4) = 8 * q + 2
  <2>1. Bit(8 * q + 4, 2) = 0
    BY DEF Bit
  <2>2. FlipBit(8 * q + 4, 2) = 8 * q + 6
    BY <2>1 DEF FlipBit
  <2>3. Bit(8 * q + 6, 4) = 1
    BY DEF Bit
  <2> QED BY <2>2, <2>3 DEF FlipBit, Xor6
<1>7. Xor6(8 * q + 3) = 8 * q + 5
  <2>1. Bit(8 * q + 3, 2) = 1
    BY DEF Bit
  <2>2. FlipBit(8 * q + 3, 2) = 8 * q + 1
    BY <2>1 DEF FlipBit
  <2>3. Bit(8 * q + 1, 4) = 0
    BY DEF Bit
  <2> QED BY <2>2, <2>3 DEF FlipBit, Xor6
<1>8. Xor6(8 * q + 5) = 8 * q + 3
  <2>1. Bit(8 * q + 5, 2) = 0
    BY DEF Bit
  <2>2. FlipBit(8 * q + 5, 2) = 8 * q + 7
    BY <2>1 DEF FlipBit
  <2>3. Bit(8 * q + 7, 4) = 1
    BY DEF Bit
  <2> QED BY <2>2, <2>3 DEF FlipBit, Xor6
<1> QED BY <1>1, <1>2, <1>3, <1>4, <1>5, <1>6, <1>7, <1>8

\* Exchanging bits 1 and 2 stays in the rows, is its own inverse and leaves
\* the block as it is.
LEMMA Exchange ==
  ASSUME NEW addr \in Row
  PROVE  /\ Xor6(addr) \in Row
         /\ Xor6(Xor6(addr)) = addr
         /\ Xor6(addr) \div 8 = addr \div 8
<1> DEFINE q == addr \div 8
           block == {8 * q, 8 * q + 1, 8 * q + 2, 8 * q + 3, 8 * q + 4, 8 * q + 5, 8 * q + 6, 8 * q + 7}
<1>1. addr \in Nat /\ addr < 32768 /\ q \in Nat /\ q <= 4095
  BY DEF Row
<1>2. addr \in block
  BY <1>1
<1>3. Xor6(addr) \in block /\ Xor6(Xor6(addr)) = addr
  <2> HIDE DEF q
  <2> QED BY <1>1, <1>2, Block
<1>4. ASSUME NEW n, n \in block
      PROVE  n \in Nat /\ n < 32768 /\ n \div 8 = q
  <2> HIDE DEF q
  <2>1. n \in Nat /\ n < 32768
    BY <1>1, <1>4
  <2>2. n \div 8 = q
    BY <1>1, <1>4
  <2> QED BY <2>1, <2>2
<1>5. Xor6(addr) \in Nat /\ Xor6(addr) < 32768 /\ Xor6(addr) \div 8 = q
  BY <1>3, <1>4
<1> QED BY <1>3, <1>5 DEF Row

\* A bit above the block is a bit of the block's number.
LEMMA HighBits ==
  ASSUME NEW a \in Row, NEW b \in Row, a \div 8 = b \div 8
  PROVE  /\ Bit(a, 8) = Bit(b, 8) /\ Bit(a, 1024) = Bit(b, 1024)
         /\ Bit(a, 4096) = Bit(b, 4096) /\ Bit(a, 16384) = Bit(b, 16384)
<1>1. Bit(a, 8) = Bit(b, 8)
  BY DEF Bit
<1>2. Bit(a, 1024) = Bit(b, 1024)
  <2>1. a \div 1024 = (a \div 8) \div 128 /\ b \div 1024 = (b \div 8) \div 128
    BY DEF Row
  <2> QED BY <2>1 DEF Bit
<1>3. Bit(a, 4096) = Bit(b, 4096)
  <2>1. a \div 4096 = (a \div 8) \div 512 /\ b \div 4096 = (b \div 8) \div 512
    BY DEF Row
  <2> QED BY <2>1 DEF Bit
<1>4. Bit(a, 16384) = Bit(b, 16384)
  <2>1. a \div 16384 = (a \div 8) \div 2048 /\ b \div 16384 = (b \div 8) \div 2048
    BY DEF Row
  <2> QED BY <2>1 DEF Bit
<1> QED BY <1>1, <1>2, <1>3, <1>4

\* For every known mapping and every row, mapping twice gives the row back.
THEOREM MappingIsInvolution ==
  \A addr \in Row, m \in Known :
    /\ map_row(addr, m) \in Row
    /\ map_row(map_row(addr, m), m) = addr
<1> SUFFICES ASSUME NEW addr \in Row, NEW m \in Known
             PROVE  /\ map_row(addr, m) \in Row
                    /\ map_row(map_row(addr, m), m) = addr
  OBVIOUS
<1>1. type1(addr) \in Row /\ type1(type1(addr)) = addr
  BY Exchange, HighBits DEF type1
<1>2. type2(addr) \in Row /\ type2(type2(addr)) = addr
  BY Exchange, HighBits DEF type2
<1> QED BY <1>1, <1>2 DEF map_row, Known

\* No two rows have the same logical address: the victim and its aggressors are
\* three different rows of the chip.
THEOREM MappingIsInjective ==
  \A a, b \in Row, m \in Known : map_row(a, m) = map_row(b, m) => a = b
  BY MappingIsInvolution

-----------------------------------------------------------------------------

\* Given the mapping of the chip, the address that a script computes for a victim or one
\* of its neighbours names that physical row (di_rd_hc.py:74-79 and its likes).
THEOREM ReachesRows == Spec => []RowsReached
<1>1. ASSUME NEW r \in Tracked
      PROVE  r \in Row
  <2>1. PICK v \in VictimSet : r \in {v - 1, v, v + 1}
    BY DEF Tracked
  <2>2. PICK k \in 1..Len(Victims) : v = Victims[k]
    BY DEF VictimSet
  <2>3. v \in Row /\ {v - 1, v + 1} \subseteq Row
    BY <2>2, VictimAssumption
  <2> QED BY <2>1, <2>3
<1>2. RowsReached
  BY <1>1, MappingIsInvolution DEF RowsReached, Mapped, Reached
<1> QED BY <1>2, PTL
-----------------------------------------------------------------------------
(* run.sh runs the scripts one after the other: how many have exited says which runs,  *)
(* and a script that has not come through its loops has written nothing.               *)

Script == 1..5

\* The k-th script has not begun to write.
Unwritten(k) == (k > Len(exits) /\ phase \in {"start", "connected", "loop"}) \/ k > Len(exits) + 1

\* Masks are dumped after their results are written, and 0 is the status of both.
Kept(k) ==
  /\ k <= Len(exits) /\ exits[k] = 0 => files[Scripts[k]].kind = "whole" /\ dumps[Scripts[k]] = "whole"
  /\ dumps[Scripts[k]] # "none" => files[Scripts[k]].kind = "whole"
  /\ Unwritten(k) => files[Scripts[k]].kind \in {"none", "before"} /\ dumps[Scripts[k]] = "none"

Progress ==
  /\ exits \in Seq(0..2)
  /\ Len(exits) <= 5
  /\ script = IF Len(exits) = 5 THEN Over ELSE Scripts[Len(exits) + 1]
  /\ phase \in {"start", "connected", "loop", "written", "dumped"}
  /\ script = Over => phase = "start"
  /\ DOMAIN files = FileNames /\ DOMAIN dumps = ScriptSet
  /\ \A k \in Script : Kept(k)
  /\ phase \in {"written", "dumped"} => files[script].kind = "whole"
  /\ phase = "dumped" => dumps[script] = "whole"

LEMMA ScriptFacts ==
  /\ Len(Scripts) = 5
  /\ \A k \in Script : /\ Scripts[k] # Over /\ Scripts[k] # "ds_hcf"
                       /\ Scripts[k] \in FileNames /\ Scripts[k] \in ScriptSet
  /\ \A j, k \in Script : Scripts[j] = Scripts[k] => j = k
  /\ ScriptSet = {"retention", "hcf", "ber", "rp", "sweep"} /\ FileNames = ScriptSet \cup {"ds_hcf"}
<1>1. /\ Len(Scripts) = 5 /\ Scripts[1] = "retention" /\ Scripts[2] = "hcf" /\ Scripts[3] = "ber"
      /\ Scripts[4] = "rp" /\ Scripts[5] = "sweep"
  BY DEF Scripts
<1>2. Script = {1, 2, 3, 4, 5}
  BY DEF Script
<1>3. ScriptSet = {"retention", "hcf", "ber", "rp", "sweep"}
  BY <1>1, <1>2 DEF ScriptSet, Script
<1> QED BY <1>1, <1>2, <1>3 DEF Over, FileNames

LEMMA FollowsInOrder ==
  ASSUME NEW n \in Script
  PROVE  NextScript(Scripts[n]) = IF n = 5 THEN Over ELSE Scripts[n + 1]
<1> DEFINE k == CHOOSE k \in 1..Len(Scripts) : Scripts[k] = Scripts[n]
<1>1. k = n
  BY ScriptFacts DEF Script
<1> HIDE DEF k
<1>2. NextScript(Scripts[n]) = IF k = Len(Scripts) THEN Over ELSE Scripts[k + 1]
  BY DEF NextScript, k
<1> QED BY <1>1, <1>2, ScriptFacts

\* Which script runs.
LEMMA Running ==
  ASSUME Progress, script # Over
  PROVE  \E n \in Script : /\ n = Len(exits) + 1 /\ script = Scripts[n] /\ Kept(n)
                           /\ script \in ScriptSet /\ script \in FileNames /\ script # "ds_hcf"
<1>1. PICK l \in Nat : l = Len(exits) /\ l # 5 /\ l <= 5 /\ script = Scripts[l + 1]
  <2>1. Len(exits) \in Nat /\ Len(exits) <= 5
    BY DEF Progress
  <2>2. script = IF Len(exits) = 5 THEN Over ELSE Scripts[Len(exits) + 1]
    BY Zenon DEF Progress
  <2> QED BY <2>1, <2>2
<1>2. l + 1 \in Script
  BY <1>1 DEF Script
<1>3. Kept(l + 1)
  BY <1>2 DEF Progress
<1> WITNESS l + 1 \in Script
<1> QED BY <1>1, <1>2, <1>3, ScriptFacts

\* What a step leaves of the files when it changes those of the running script alone.
OthersKept ==
  /\ DOMAIN files' = FileNames /\ DOMAIN dumps' = ScriptSet
  /\ \A f \in FileNames : f # script => files'[f] = files[f]
  /\ \A s \in ScriptSet : s # script => dumps'[s] = dumps[s]
  /\ dumps'[script] # "none" => files'[script].kind = "whole"

\* One script exits, with both of its files whole if its status is 0.
LEMMA ExitsOnce ==
  ASSUME Progress, script # Over, NEW status \in 0..2, Exit(status), OthersKept,
         status = 0 => files'[script].kind = "whole" /\ dumps'[script] = "whole"
  PROVE  Progress'
<1>1. PICK n \in Script : n = Len(exits) + 1 /\ script = Scripts[n]
  BY Running
<1>2. exits \in Seq(0..2) /\ Len(exits) \in Nat
  BY DEF Progress
<1>3. /\ exits' = Append(exits, status) /\ exits' \in Seq(0..2)
      /\ Len(exits') = n /\ exits'[n] = status
      /\ \A k \in 1..Len(exits) : exits'[k] = exits[k]
  BY <1>1, <1>2 DEF Exit
<1>4. script' = (IF n = 5 THEN Over ELSE Scripts[n + 1]) /\ phase' = "start" /\ n <= 5
  BY <1>1, FollowsInOrder DEF Exit, Script
<1>5. ASSUME NEW k \in Script PROVE Kept(k)'
  <2>1. Unwritten(k)' <=> k > n
    BY <1>3, <1>4 DEF Unwritten, Script
  <2>2. CASE k = n
    BY <1>1, <1>3, <2>1, <2>2 DEF Kept, OthersKept
  <2>3. CASE k # n
    <3>1. files'[Scripts[k]] = files[Scripts[k]] /\ dumps'[Scripts[k]] = dumps[Scripts[k]]
      BY <1>1, <2>3, ScriptFacts DEF OthersKept
    <3>2. (k <= n /\ exits'[k] = 0) => (k <= Len(exits) /\ exits[k] = 0)
      BY <1>1, <1>2, <1>3, <2>3 DEF Script
    <3>3. k > n => Unwritten(k)
      BY <1>1, <1>2 DEF Unwritten
    <3>4. Kept(k)
      BY DEF Progress
    <3> QED BY <1>3, <2>1, <3>1, <3>2, <3>3, <3>4 DEF Kept
  <2> QED BY <2>2, <2>3
<1> QED BY <1>3, <1>4, <1>5 DEF Progress, OthersKept

\* A step within the loops of a script leaves what it rests on alone.
LEMMA StaysInScript ==
  ASSUME Progress, UNCHANGED <<script, files, dumps, exits>>,
         \/ phase' = phase
         \/ /\ script # Over
            /\ phase \in {"start", "connected", "loop"} /\ phase' \in {"start", "connected", "loop"}
  PROVE  Progress'
<1>1. ASSUME NEW k \in Script PROVE Kept(k)'
  <2>1. Unwritten(k)' => Unwritten(k)
    BY DEF Unwritten
  <2> QED BY <2>1 DEF Progress, Kept
<1> QED BY <1>1 DEF Progress

\* A script writes its results or its masks, and goes on.
LEMMA WritesOne ==
  ASSUME Progress, script # Over, UNCHANGED <<script, exits>>, OthersKept,
         files'[script].kind = "whole",
         \/ phase' = "written"
         \/ phase' = "dumped" /\ dumps'[script] = "whole"
  PROVE  Progress'
<1>1. PICK n \in Script : n = Len(exits) + 1 /\ script = Scripts[n]
  BY Running
<1>2. Len(exits) \in Nat
  BY DEF Progress
<1>3. ASSUME NEW k \in Script PROVE Kept(k)'
  <2>1. Unwritten(k)' => Unwritten(k) /\ k # n
    BY <1>1, <1>2 DEF Unwritten
  <2>2. CASE k = n
    BY <1>1, <1>2, <2>1, <2>2 DEF Kept, OthersKept
  <2>3. CASE k # n
    <3>1. files'[Scripts[k]] = files[Scripts[k]] /\ dumps'[Scripts[k]] = dumps[Scripts[k]]
      BY <1>1, <2>3, ScriptFacts DEF OthersKept
    <3> QED BY <2>1, <3>1 DEF Progress, Kept
  <2> QED BY <2>2, <2>3
<1> QED BY <1>3 DEF Progress, OthersKept

LEMMA ProgressInit ==
  ASSUME Init
  PROVE  Progress
<1>1. exits = <<>> /\ script = Scripts[1] /\ phase = "start" /\ files \in Data
      /\ dumps = [s \in ScriptSet |-> "none"]
  BY DEF Init
<1>2. DOMAIN files = FileNames /\ \A f \in FileNames : files[f].kind \in {"none", "before"}
  BY <1>1, DataAssumption
<1>3. \A k \in Script : Kept(k)
  BY <1>1, <1>2, ScriptFacts DEF Kept, Script
<1>4. script # Over
  BY <1>1, ScriptFacts DEF Script
<1> QED BY <1>1, <1>2, <1>3, <1>4 DEF Progress, Script

\* A step that leaves all files alone is one that keeps the others.
LEMMA NoneWritten ==
  ASSUME Progress, script # Over, UNCHANGED <<files, dumps>>
  PROVE  OthersKept
<1>1. PICK n \in Script : script = Scripts[n] /\ Kept(n)
  BY Running
<1> QED BY <1>1 DEF OthersKept, Progress, Kept

LEMMA ProgressStep ==
  ASSUME Progress, [Next]_vars
  PROVE  Progress'
<1>0. phase # "start" => script # Over
  BY DEF Progress
<1>a. script # Over => script \in ScriptSet /\ script \in FileNames
  BY Running
<1>b. script \in ScriptSet => script # Over
  BY ScriptFacts DEF Over
<1>1. CASE ArgumentsMissing \/ ConnectFails \/ ImportsMissing
  <2>1. script # Over /\ UNCHANGED <<files, dumps>> /\ \E status \in 0..2 : status # 0 /\ Exit(status)
    BY <1>1, <1>b, ScriptFacts DEF ArgumentsMissing, ConnectFails, ImportsMissing, Starts
  <2> QED BY <2>1, NoneWritten, ExitsOnce
<1>2. CASE Connect
  BY <1>2, <1>b, StaysInScript DEF Connect, Starts
<1>3. CASE ReadInputs
  BY <1>0, <1>3, StaysInScript DEF ReadInputs
<1>4. CASE InputMissing \/ RowUnmapped \/ VictimMissing \/ Fails
  <2>1. script # Over /\ UNCHANGED <<files, dumps>> /\ Exit(1)
    BY <1>0, <1>4 DEF InputMissing, RowUnmapped, VictimMissing, Fails, InLoop
  <2> QED BY <2>1, NoneWritten, ExitsOnce
<1>5. CASE HcfRound \/ HcfNext
  BY <1>5, StaysInScript DEF HcfRound, HcfNext
<1>6. CASE RpRound \/ RetentionRound
  BY <1>6, StaysInScript DEF RpRound, RetentionRound
<1>7. CASE SweepRound \/ SweepNext
  BY <1>7, StaysInScript DEF SweepRound, SweepNext
<1>8. CASE WriteCsv
  <2>1. /\ script # Over /\ files' = [files EXCEPT ![script] = File("whole", results)]
        /\ phase' = "written" /\ UNCHANGED <<script, dumps, exits>>
    BY <1>8 DEF WriteCsv, LoopsDone
  <2>2. files'[script].kind = "whole"
    BY <1>a, <2>1 DEF File, Progress
  <2>3. OthersKept
    BY <2>1, <2>2 DEF OthersKept, Progress
  <2> QED BY <2>1, <2>2, <2>3, WritesOne
<1>9. CASE DumpFlips
  <2>1. /\ script # Over /\ dumps' = [dumps EXCEPT ![script] = "whole"]
        /\ phase' = "dumped" /\ UNCHANGED <<script, files, exits>> /\ files[script].kind = "whole"
    BY <1>0, <1>9 DEF DumpFlips, Progress
  <2>2. dumps'[script] = "whole"
    BY <1>a, <2>1 DEF Progress
  <2>3. OthersKept
    BY <2>1, <2>2 DEF OthersKept, Progress
  <2> QED BY <2>1, <2>2, <2>3, WritesOne
<1>10. CASE Close
  <2>1. /\ script # Over /\ Exit(0) /\ UNCHANGED <<files, dumps>>
        /\ files[script].kind = "whole" /\ dumps[script] = "whole"
    BY <1>0, <1>10 DEF Close, Progress
  <2> QED BY <2>1, NoneWritten, ExitsOnce
<1>11. CASE WriteTorn
  <2>1. PICK f : /\ script # Over /\ phase = "loop" /\ files' = [files EXCEPT ![script] = f]
                 /\ Exit(1) /\ UNCHANGED dumps
    BY <1>11 DEF WriteTorn, LoopsDone
  <2>2. dumps[script] = "none"
    <3>1. PICK n \in Script : n = Len(exits) + 1 /\ script = Scripts[n] /\ Kept(n)
      BY <2>1, Running
    <3>2. Unwritten(n)
      <4>1. Len(exits) \in Nat
        BY DEF Progress
      <4> QED BY <2>1, <3>1, <4>1 DEF Unwritten
    <3> QED BY <3>1, <3>2 DEF Kept
  <2>3. OthersKept
    BY <2>1, <2>2 DEF OthersKept, Progress
  <2> QED BY <2>1, <2>3, ExitsOnce
<1>12. CASE DumpTorn
  <2>1. /\ script # Over /\ dumps' = [dumps EXCEPT ![script] = "torn"]
        /\ Exit(1) /\ UNCHANGED files /\ files[script].kind = "whole"
    BY <1>0, <1>12 DEF DumpTorn, Progress
  <2>2. OthersKept
    BY <2>1 DEF OthersKept, Progress
  <2> QED BY <2>1, <2>2, ExitsOnce
<1>13. CASE UNCHANGED vars
  BY <1>13, StaysInScript DEF vars
<1> QED BY <1>1, <1>2, <1>3, <1>4, <1>5, <1>6, <1>7, <1>8, <1>9, <1>10, <1>11, <1>12, <1>13
        DEF Next, Runs

\* run.sh runs each of the five scripts once, whatever the exit status of those before; one that
\* exits with 0 has written its results and then its masks, whole; and what a failure
\* in between, or before, leaves behind is never masks without their results, nor a file of an
\* earlier campaign half overwritten by a script still in its loops (run.sh:6-10,
\* di_rd_hc.py:142-147 and its likes).
THEOREM AccountsForAll == Spec => []Accounted
<1>1. Init => Progress
  BY ProgressInit
<1>2. Progress /\ [Next]_vars => Progress'
  BY ProgressStep
<1>3. Progress => Accounted
  <2> SUFFICES ASSUME Progress PROVE Accounted
    OBVIOUS
  <2>1. PICK l \in Nat : l = Len(exits) /\ l <= 5
    BY DEF Progress
  <2>2. \A k \in 1..Len(exits) : k \in Script
    BY <2>1 DEF Script
  <2>3. \A k \in 1..Len(exits) :
          exits[k] = 0 => files[Scripts[k]].kind = "whole" /\ dumps[Scripts[k]] = "whole"
    BY <2>1, <2>2 DEF Progress, Kept
  <2>4. \A k \in 1..Len(Scripts) : k \in Script
    BY ScriptFacts DEF Script
  <2>5. \A s \in ScriptSet : dumps[s] # "none" => files[s].kind = "whole"
    BY <2>4 DEF Progress, Kept, ScriptSet
  <2>6. \A k \in 1..Len(Scripts) : Unwritten(k) => files[Scripts[k]].kind \in {"none", "before"}
    BY <2>4 DEF Progress, Kept
  <2>7. script = Over <=> Len(exits) = Len(Scripts)
    <3>1. l # 5 => l + 1 \in Script
      BY <2>1 DEF Script
    <3> QED BY <2>1, <3>1, ScriptFacts DEF Progress
  <2> QED BY <2>3, <2>5, <2>6, <2>7 DEF Accounted, Unwritten
<1> QED BY <1>1, <1>2, <1>3, PTL DEF Spec

-----------------------------------------------------------------------------
(* Sequences of sequences, flattened.  FlattenSeq is recursive; that it unfolds at the  *)
(* end is shown with the function of the flattenings of all first parts.                *)

\* f holds the flattenings of the first 1, 2, ..., n parts of seqs.
Flats(f, seqs, S, n) ==
  /\ f \in [1..n -> Seq(S)]
  /\ n # 0 => f[1] = seqs[1]
  /\ \A i \in Nat \ {0} : i < n => f[i + 1] = f[i] \o seqs[i + 1]

\* There is such a function for any sequence of sequences.
LEMMA FlatsExist ==
  ASSUME NEW S, NEW seqs \in Seq(Seq(S)), NEW n \in Nat, n <= Len(seqs)
  PROVE  \E f : Flats(f, seqs, S, n)
<1> DEFINE T == {m \in Nat : m <= Len(seqs) => \E f : Flats(f, seqs, S, m)}
<1>1. 0 \in T
  <2>1. Flats([i \in 1..0 |-> seqs[i]], seqs, S, 0)
    BY DEF Flats
  <2> QED BY <2>1
<1>2. ASSUME NEW m \in Nat, m \in T PROVE m + 1 \in T
  <2> SUFFICES ASSUME m + 1 <= Len(seqs) PROVE \E g : Flats(g, seqs, S, m + 1)
    OBVIOUS
  <2>1. PICK f : Flats(f, seqs, S, m)
    BY <1>2
  <2>2. /\ f \in [1..m -> Seq(S)]
        /\ m # 0 => f[1] = seqs[1]
        /\ \A i \in Nat \ {0} : i < m => f[i + 1] = f[i] \o seqs[i + 1]
    BY <2>1 DEF Flats
  <2>3. PICK new \in Seq(S) : new = IF m = 0 THEN seqs[m + 1] ELSE f[m] \o seqs[m + 1]
    <3>1. m # 0 => f[m] \in Seq(S)
      BY <2>2
    <3>2. seqs[m + 1] \in Seq(S)
      OBVIOUS
    <3>3. m # 0 => f[m] \o seqs[m + 1] \in Seq(S)
      BY <3>1, <3>2, ConcatProperties
    <3> QED BY <3>2, <3>3
  <2> DEFINE g == [i \in 1..m + 1 |-> IF i = m + 1 THEN new ELSE f[i]]
  <2>4. g \in [1..m + 1 -> Seq(S)]
    BY <2>2, <2>3
  <2>5. g[1] = seqs[1]
    BY <2>2, <2>3
  <2>6. ASSUME NEW i \in Nat \ {0}, i < m + 1 PROVE g[i + 1] = g[i] \o seqs[i + 1]
    <3>1. CASE i = m
      <4>1. m # 0 /\ g[m + 1] = new /\ g[m] = f[m]
        BY <3>1
      <4> QED BY <2>3, <3>1, <4>1
    <3>2. CASE i # m
      <4>1. i < m /\ g[i + 1] = f[i + 1] /\ g[i] = f[i]
        BY <2>6, <3>2
      <4> QED BY <2>2, <4>1
    <3> QED BY <3>1, <3>2
  <2> HIDE DEF g
  <2>7. Flats(g, seqs, S, m + 1)
    BY <2>4, <2>5, <2>6, Zenon DEF Flats
  <2> QED BY <2>7
<1> HIDE DEF T
<1>3. n \in T
  BY <1>1, <1>2, InductionBySet
<1> QED BY <1>3 DEF T

\* FlattenSeq is the last of them.
LEMMA FlattenIsLast ==
  ASSUME NEW S, NEW seqs \in Seq(Seq(S)), Len(seqs) # 0
  PROVE  \E f : Flats(f, seqs, S, Len(seqs)) /\ FlattenSeq(seqs) = f[Len(seqs)]
<1>0. Len(seqs) \in Nat /\ \A i \in 1..Len(seqs) : seqs[i] \in Seq(S)
  OBVIOUS
<1>1. PICK s : Flats(s, seqs, S, Len(seqs))
  BY <1>0, FlatsExist
<1>2. s = [i \in 1..Len(seqs) |-> IF i = 1 THEN seqs[i] ELSE s[i - 1] \o seqs[i]]
  <2>1. s \in [1..Len(seqs) -> Seq(S)] /\ s[1] = seqs[1]
    BY <1>0, <1>1 DEF Flats
  <2>2. ASSUME NEW i \in 1..Len(seqs), i # 1 PROVE s[i] = s[i - 1] \o seqs[i]
    <3>1. PICK j \in Nat \ {0} : j = i - 1 /\ j + 1 = i /\ j < Len(seqs)
      BY <1>0, <2>2
    <3>2. s[j + 1] = s[j] \o seqs[j + 1]
      BY <1>0, <1>1, <3>1 DEF Flats
    <3> QED BY <3>1, <3>2
  <2> QED BY <2>1, <2>2
<1> DEFINE w == CHOOSE w : w = [i \in 1..Len(seqs) |-> IF i = 1 THEN seqs[i] ELSE w[i - 1] \o seqs[i]]
<1>3. w = [i \in 1..Len(seqs) |-> IF i = 1 THEN seqs[i] ELSE w[i - 1] \o seqs[i]]
  BY <1>2
<1>4. FlattenSeq(seqs) = w[Len(seqs)]
  BY DEF FlattenSeq
<1> HIDE DEF w
<1>5. w[1] = seqs[1]
  BY <1>0, <1>3
<1>6. ASSUME NEW i \in Nat \ {0}, i < Len(seqs) PROVE w[i + 1] = w[i] \o seqs[i + 1]
  <2>1. PICK j \in 1..Len(seqs) : j = i + 1 /\ j # 1 /\ j - 1 = i
    BY <1>0, <1>6
  <2>2. w[j] = w[j - 1] \o seqs[j]
    BY <1>3, <2>1
  <2> QED BY <2>1, <2>2
<1> DEFINE T == {i \in Nat : i < Len(seqs) => w[i + 1] \in Seq(S)}
<1>7. 0 \in T
  BY <1>0, <1>5
<1>8. ASSUME NEW i \in Nat, i \in T PROVE i + 1 \in T
  <2> SUFFICES ASSUME i + 1 < Len(seqs) PROVE w[i + 2] \in Seq(S)
    OBVIOUS
  <2>1. PICK j \in Nat \ {0} : j = i + 1 /\ j + 1 = i + 2 /\ j < Len(seqs) /\ j + 1 \in 1..Len(seqs)
    BY <1>0
  <2>2. w[j] \in Seq(S)
    BY <1>8, <2>1
  <2>3. w[j + 1] = w[j] \o seqs[j + 1]
    BY <1>6, <2>1
  <2>4. seqs[j + 1] \in Seq(S)
    BY <1>0, <2>1
  <2>5. w[j] \o seqs[j + 1] \in Seq(S)
    BY <2>2, <2>4, ConcatProperties, Zenon
  <2> QED BY <2>1, <2>3, <2>5
<1> HIDE DEF T
<1>9. Nat \subseteq T
  BY <1>7, <1>8, InductionBySet
<1>10. ASSUME NEW i \in 1..Len(seqs) PROVE w[i] \in Seq(S)
  <2>1. PICK j \in Nat : j + 1 = i /\ j < Len(seqs)
    <3>1. i - 1 \in Nat /\ i - 1 + 1 = i /\ i - 1 < Len(seqs)
      BY <1>0
    <3> QED BY <3>1
  <2>2. j \in T
    BY <1>9, <2>1
  <2> QED BY <2>1, <2>2 DEF T
<1>11. w \in [1..Len(seqs) -> Seq(S)]
  BY <1>3, <1>10
<1>12. Flats(w, seqs, S, Len(seqs))
  BY <1>5, <1>6, <1>11, Zenon DEF Flats
<1> QED BY <1>4, <1>12

\* Flattenings of the same first parts agree.
LEMMA FlatsAgree ==
  ASSUME NEW S, NEW seqs, NEW more, NEW m \in Nat, NEW n \in Nat, m <= n,
         \A i \in 1..m : seqs[i] = more[i],
         NEW f, NEW g, Flats(f, seqs, S, m), Flats(g, more, S, n), NEW k \in 1..m
  PROVE  f[k] = g[k]
<1> DEFINE T == {i \in Nat : i < m => f[i + 1] = g[i + 1]}
<1>1. (m # 0 => f[1] = seqs[1]) /\ \A i \in Nat \ {0} : i < m => f[i + 1] = f[i] \o seqs[i + 1]
  BY DEF Flats
<1>2. (n # 0 => g[1] = more[1]) /\ \A i \in Nat \ {0} : i < n => g[i + 1] = g[i] \o more[i + 1]
  BY DEF Flats
<1>3. 0 \in T
  BY <1>1, <1>2
<1>4. ASSUME NEW i \in Nat, i \in T PROVE i + 1 \in T
  <2> SUFFICES ASSUME i + 1 < m PROVE f[i + 2] = g[i + 2]
    OBVIOUS
  <2>1. PICK j \in Nat \ {0} : j = i + 1 /\ j + 1 = i + 2 /\ j < m /\ j < n /\ j + 1 \in 1..m
    OBVIOUS
  <2>2. f[j] = g[j]
    BY <1>4, <2>1
  <2>3. f[j + 1] = f[j] \o seqs[j + 1] /\ g[j + 1] = g[j] \o more[j + 1]
    BY <1>1, <1>2, <2>1
  <2> QED BY <2>1, <2>2, <2>3
<1> HIDE DEF T
<1>5. PICK i \in Nat : i + 1 = k /\ i < m
  <2>1. k - 1 \in Nat /\ k - 1 + 1 = k /\ k - 1 < m
    OBVIOUS
  <2> QED BY <2>1
<1>6. i \in T
  BY <1>3, <1>4, InductionBySet
<1> QED BY <1>5, <1>6 DEF T

\* A sequence of sequences is flattened to one sequence, its last part at the end.
LEMMA Flattened ==
  ASSUME NEW S, NEW seqs \in Seq(Seq(S))
  PROVE  /\ FlattenSeq(seqs) \in Seq(S)
         /\ seqs = << >> => FlattenSeq(seqs) = << >>
         /\ \A t \in Seq(S) : FlattenSeq(Append(seqs, t)) = FlattenSeq(seqs) \o t
<1>1. Len(seqs) \in Nat
  OBVIOUS
<1>2. Len(seqs) = 0 => seqs = << >> /\ FlattenSeq(seqs) = << >>
  BY DEF FlattenSeq
<1>3. FlattenSeq(seqs) \in Seq(S)
  <2>1. CASE Len(seqs) = 0
    BY <1>2, <2>1, EmptySeq
  <2>2. CASE Len(seqs) # 0
    <3>1. PICK f : Flats(f, seqs, S, Len(seqs)) /\ FlattenSeq(seqs) = f[Len(seqs)]
      BY <2>2, FlattenIsLast
    <3>2. f \in [1..Len(seqs) -> Seq(S)] /\ Len(seqs) \in 1..Len(seqs)
      BY <1>1, <2>2, <3>1 DEF Flats
    <3>3. f[Len(seqs)] \in Seq(S)
      BY <3>2, Zenon
    <3> QED BY <3>1, <3>3
  <2> QED BY <2>1, <2>2
<1>4. ASSUME NEW t \in Seq(S) PROVE FlattenSeq(Append(seqs, t)) = FlattenSeq(seqs) \o t
  <2>1. PICK n \in Nat : n = Len(seqs)
    BY <1>1
  <2> DEFINE more == Append(seqs, t)
  <2>2. /\ more \in Seq(Seq(S)) /\ Len(more) = n + 1 /\ more[n + 1] = t
        /\ \A i \in 1..n : seqs[i] = more[i]
    BY <2>1
  <2> HIDE DEF more
  <2>3. PICK g : Flats(g, more, S, n + 1) /\ FlattenSeq(more) = g[n + 1]
    <3>1. Len(more) # 0
      BY <2>2
    <3>2. \E g : Flats(g, more, S, Len(more)) /\ FlattenSeq(more) = g[Len(more)]
      BY <2>2, <3>1, FlattenIsLast, Zenon
    <3> QED BY <2>2, <3>2
  <2>4. CASE n = 0
    <3>1. n + 1 \in Nat /\ n + 1 # 0 /\ n + 1 = 1
      BY <2>4
    <3>2. g[1] = more[1]
      BY <2>3, <3>1 DEF Flats
    <3>3. << >> \o t = t
      BY ConcatEmptySeq
    <3> QED BY <1>2, <2>1, <2>2, <2>3, <2>4, <3>1, <3>2, <3>3 DEF more
  <2>5. CASE n # 0
    <3>1. PICK f : Flats(f, seqs, S, n) /\ FlattenSeq(seqs) = f[n]
      BY <2>1, <2>5, FlattenIsLast
    <3>2. n \in 1..n /\ n + 1 \in Nat /\ n <= n + 1 /\ n < n + 1 /\ n \in Nat \ {0}
      BY <2>5
    <3>3. f[n] = g[n]
      <4>1. \A i \in 1..n : seqs[i] = more[i]
        BY <2>2
      <4>2. Flats(f, seqs, S, n) /\ Flats(g, more, S, n + 1)
        BY <2>3, <3>1
      <4> QED BY <4>1, <4>2, <3>2, FlatsAgree
    <3>4. g[n + 1] = g[n] \o more[n + 1]
      BY <2>3, <3>2 DEF Flats
    <3> QED BY <2>2, <2>3, <3>1, <3>3, <3>4 DEF more
  <2> QED BY <2>4, <2>5
<1> QED BY <1>2, <1>3, <1>4

\* The first k parts.
UpTo(parts, k) == FlattenSeq([i \in 1..k |-> parts[i]])

\* The first k + 1 parts flattened are the first k, flattened, and the next one.
LEMMA UpToUnfolds ==
  ASSUME NEW S, NEW n \in Nat, NEW parts \in [1..n -> Seq(S)]
  PROVE  /\ UpTo(parts, 0) = << >>
         /\ \A k \in Nat :
              /\ k <= n => UpTo(parts, k) \in Seq(S)
              /\ k < n => UpTo(parts, k + 1) = UpTo(parts, k) \o parts[k + 1]
<1>1. [i \in 1..0 |-> parts[i]] = << >> /\ << >> \in Seq(Seq(S))
  OBVIOUS
<1>2. \A k \in Nat : k <= n => [i \in 1..k |-> parts[i]] \in Seq(Seq(S))
  OBVIOUS
<1>3. UpTo(parts, 0) = << >> /\ \A k \in Nat : k <= n => UpTo(parts, k) \in Seq(S)
  BY <1>1, <1>2, Flattened DEF UpTo
<1>4. ASSUME NEW k \in Nat, k < n
      PROVE  UpTo(parts, k + 1) = UpTo(parts, k) \o parts[k + 1]
  <2>1. parts[k + 1] \in Seq(S)
    BY <1>4
  <2>2. [i \in 1..(k + 1) |-> parts[i]] = Append([i \in 1..k |-> parts[i]], parts[k + 1])
    OBVIOUS
  <2>3. [i \in 1..k |-> parts[i]] \in Seq(Seq(S))
    BY <1>2, <1>4
  <2> QED BY <2>1, <2>2, <2>3, Flattened DEF UpTo
<1> QED BY <1>3, <1>4

\* Members of a concatenation are those of its two sequences.
LEMMA RangeOfConcat ==
  ASSUME NEW S, NEW s \in Seq(S), NEW t \in Seq(S)
  PROVE  Range(s \o t) = Range(s) \union Range(t)
<1>1. PICK m \in Nat : m = Len(s)
  OBVIOUS
<1>2. PICK n \in Nat : n = Len(t)
  OBVIOUS
<1>3. PICK u \in Seq(S) :
        u = s \o t /\ Len(u) = m + n /\ \A i \in 1..(m + n) : u[i] = IF i <= m THEN s[i] ELSE t[i - m]
  <2>1. s \o t \in Seq(S)
    BY ConcatProperties
  <2>2. Len(s \o t) = m + n
    BY <1>1, <1>2, ConcatProperties
  <2>3. \A i \in 1..(m + n) : (s \o t)[i] = IF i <= m THEN s[i] ELSE t[i - m]
    BY <1>1, <1>2
  <2> QED BY <2>1, <2>2, <2>3
<1>4. Range(s) = {s[i] : i \in 1..m} /\ Range(t) = {t[i] : i \in 1..n} /\ Range(u) = {u[i] : i \in 1..(m + n)}
  <2>1. DOMAIN s = 1..m /\ DOMAIN t = 1..n /\ DOMAIN u = 1..(m + n)
    BY <1>1, <1>2, <1>3
  <2> QED BY <2>1, Zenon DEF Range
<1>5. \A i \in 1..m : i \in 1..(m + n) /\ u[i] = s[i]
  BY <1>3
<1>6. \A i \in 1..n : i + m \in 1..(m + n) /\ u[i + m] = t[i]
  <2> TAKE i \in 1..n
  <2>1. i + m \in 1..(m + n) /\ ~(i + m <= m) /\ i + m - m = i
    OBVIOUS
  <2> QED BY <1>3, <2>1
<1>7. Range(u) \subseteq Range(s) \union Range(t)
  <2> SUFFICES ASSUME NEW i \in 1..(m + n) PROVE u[i] \in Range(s) \union Range(t)
    BY <1>4
  <2>1. CASE i <= m
    BY <1>3, <1>4, <2>1
  <2>2. CASE ~(i <= m)
    <3>1. i - m \in 1..n
      BY <2>2
    <3> QED BY <1>3, <1>4, <2>2, <3>1
  <2> QED BY <2>1, <2>2
<1>8. Range(s) \subseteq Range(u) /\ Range(t) \subseteq Range(u)
  BY <1>4, <1>5, <1>6
<1> QED BY <1>3, <1>7, <1>8

\* What is in the parts is in their flattening, and nothing else.
LEMMA RangeOfFlattened ==
  ASSUME NEW S, NEW seqs \in Seq(Seq(S))
  PROVE  Range(FlattenSeq(seqs)) = UNION {Range(seqs[i]) : i \in 1..Len(seqs)}
<1>1. PICK n \in Nat : n = Len(seqs) /\ seqs \in [1..n -> Seq(S)]
  OBVIOUS
<1> DEFINE T == {k \in Nat : k <= n => Range(UpTo(seqs, k)) = UNION {Range(seqs[i]) : i \in 1..k}}
<1>2. UpTo(seqs, 0) = << >>
      /\ \A k \in Nat : /\ k <= n => UpTo(seqs, k) \in Seq(S)
                        /\ k < n => UpTo(seqs, k + 1) = UpTo(seqs, k) \o seqs[k + 1]
  BY <1>1, UpToUnfolds
<1>3. 0 \in T
  <2>1. Range(<< >>) = {} /\ 1..0 = {}
    BY DEF Range
  <2> QED BY <1>2, <2>1
<1>4. ASSUME NEW k \in Nat, k \in T PROVE k + 1 \in T
  <2> SUFFICES ASSUME k + 1 <= n
               PROVE  Range(UpTo(seqs, k + 1)) = UNION {Range(seqs[i]) : i \in 1..(k + 1)}
    OBVIOUS
  <2>1. k < n /\ k <= n /\ k + 1 \in 1..n
    OBVIOUS
  <2>2. UpTo(seqs, k) \in Seq(S) /\ seqs[k + 1] \in Seq(S) /\ UpTo(seqs, k + 1) = UpTo(seqs, k) \o seqs[k + 1]
    BY <1>1, <1>2, <2>1
  <2>3. Range(UpTo(seqs, k + 1)) = Range(UpTo(seqs, k)) \union Range(seqs[k + 1])
    BY <2>2, RangeOfConcat, Zenon
  <2>4. Range(UpTo(seqs, k)) = UNION {Range(seqs[i]) : i \in 1..k}
    BY <1>4, <2>1
  <2>5. 1..(k + 1) = (1..k) \union {k + 1}
    OBVIOUS
  <2> QED BY <2>3, <2>4, <2>5
<1> HIDE DEF T
<1>5. n \in T
  BY <1>3, <1>4, InductionBySet
<1>6. seqs = [i \in 1..n |-> seqs[i]]
  BY <1>1
<1> QED BY <1>1, <1>5, <1>6 DEF T, UpTo
-----------------------------------------------------------------------------
(* What a round shows of its victim, and the cases of the loops *)

Hammer  == {"Upper", "Lower", "Double"}
Pattern == {"FFFFFFFF", "00000000"}
Case    == [vic : VictimSet, pattern : Pattern, type : Hammer]

\* The lists of run.sh and of the scripts: hammers, patterns and counts.
LEMMA Assumed ==
  /\ {Types[k] : k \in 1..Len(Types)} = Hammer
  /\ Patterns[1] = "FFFFFFFF" /\ Patterns[2] = "00000000"
  /\ \A t \in Hammer :
       /\ Hammers[t] \in Seq(Count)
       /\ \A i, j \in 1..Len(Hammers[t]) : i < j => Hammers[t][i] < Hammers[t][j]
  /\ RpCount \in Count
  /\ \A n \in Count : n \in Nat /\ n > 0 /\ n <= MaxActivations
  /\ MaxActivations \in Nat
<1>1. {Types[k] : k \in 1..Len(Types)} = Hammer
  <2>1. Len(Types) = 3 /\ Types[1] = "Upper" /\ Types[2] = "Lower" /\ Types[3] = "Double"
    BY DEF Types
  <2>2. 1..3 = {1, 2, 3}
    OBVIOUS
  <2> QED BY <2>1, <2>2 DEF Hammer
<1>2. Patterns[1] = "FFFFFFFF" /\ Patterns[2] = "00000000"
  BY DEF Patterns
<1>3. \A n \in Count : n \in Nat /\ n > 0 /\ n <= MaxActivations
  BY HammerAssumption DEF Count
<1> QED BY <1>1, <1>2, <1>3, HammerAssumption

\* Every victim and both of its neighbours are rows.
LEMMA VictimFacts ==
  /\ Len(Victims) \in Nat
  /\ \A k \in 1..Len(Victims) : Victims[k] \in VictimSet
  /\ \A v \in VictimSet : v \in Row /\ v - 1 \in Row /\ v + 1 \in Row
<1>1. Victims \in Seq(Row) /\ \A v \in VictimSet : {v - 1, v + 1} \subseteq Row
  BY VictimAssumption
<1>2. Len(Victims) \in Nat /\ \A k \in 1..Len(Victims) : Victims[k] \in Row
  BY <1>1
<1> QED BY <1>1, <1>2 DEF VictimSet

\* What a chip shows are numbers of bits.
LEMMA ChipFacts ==
  ASSUME chip \in Chips, NEW v \in VictimSet, NEW p \in Pattern
  PROVE  /\ \A s \in Measuring, t \in Hammer, n \in Count : chip.flips[<<s, v, p, t, n>>] \in Nat
         /\ \A k \in 1..Len(Waits) : LostAt(v, p, Waits[k]) \in Nat
<1>1. p \in {Patterns[1], Patterns[2]}
  BY Assumed DEF Pattern
<1>2. \A s \in Measuring, t \in {Types[k] : k \in 1..Len(Types)}, n \in Count :
        chip.flips[<<s, v, p, t, n>>] \in Nat
  BY <1>1, ChipAssumption
<1>3. \A k \in 1..Len(Waits) : chip.lost[<<map_row(v, chip.mapping), p, Waits[k]>>] \in Nat
  BY <1>1, ChipAssumption
<1> QED BY <1>2, <1>3, Assumed DEF LostAt

\* A round shows what its own activations flip, whatever was in the rows before.
LEMMA RoundFlips ==
  ASSUME Mapped, mapping \in Known, NEW d, NEW v \in VictimSet, NEW p \in Pattern, NEW t \in Hammer,
         NEW n \in Count
  PROVE  Flips(Round(d, v, p, t, n), v, p) = chip.flips[<<script, v, p, t, n>>]
<1>1. v \in Nat /\ {v - 1, v, v + 1} \subseteq Row /\ {v - 1, v, v + 1} \subseteq Tracked
  <2>1. v \in Row /\ v - 1 \in Row /\ v + 1 \in Row
    BY VictimFacts
  <2> QED BY <2>1 DEF Tracked, Row
<1>2. Reached(v) = v /\ Reached(v - 1) = v - 1 /\ Reached(v + 1) = v + 1
  BY <1>1, MappingIsInvolution DEF Mapped, Reached
<1> DEFINE w == Round(d, v, p, t, n)
<1>3. p # Other(p)
  BY Assumed DEF Other, Pattern
<1>4. v + 1 # v /\ v - 1 # v /\ v + 1 # v - 1
  BY <1>1
<1>5. n \in Nat /\ n > 0 /\ Counted(0 + n) = n /\ Counted(0 + 0) = 0
  BY Assumed DEF Counted
<1>6. {Reached(a) : a \in Aggressors(v, t)} = Aggressors(v, t)
  BY <1>2 DEF Aggressors, Hammer
<1>7. w[v].data = p /\ w[v + 1].data = Other(p) /\ w[v - 1].data = Other(p)
  BY <1>1, <1>2, <1>4 DEF Round
<1>8. w[v].above = IF v + 1 \in Aggressors(v, t) THEN n ELSE 0
  BY <1>1, <1>2, <1>5, <1>6 DEF Round
<1>9. w[v].below = IF v - 1 \in Aggressors(v, t) THEN n ELSE 0
  BY <1>1, <1>2, <1>5, <1>6 DEF Round
<1> HIDE DEF w
<1>10. Opposes(w, v, v + 1, p) /\ Opposes(w, v, v - 1, p)
  BY <1>3, <1>7 DEF Opposes
<1>11. CASE t = "Upper"
  <2>1. w[v].above = n /\ w[v].below = 0
    BY <1>4, <1>8, <1>9, <1>11 DEF Aggressors
  <2> QED BY <1>5, <1>10, <1>11, <2>1 DEF Flips, w
<1>12. CASE t = "Lower"
  <2>1. w[v].above = 0 /\ w[v].below = n
    BY <1>4, <1>8, <1>9, <1>12 DEF Aggressors
  <2> QED BY <1>5, <1>10, <1>12, <2>1 DEF Flips, w
<1>13. CASE t = "Double"
  <2>1. w[v].above = n /\ w[v].below = n
    BY <1>8, <1>9, <1>13 DEF Aggressors
  <2> QED BY <1>5, <1>10, <1>13, <2>1 DEF Flips, w
<1> QED BY <1>11, <1>12, <1>13 DEF Hammer

\* The cases of a script are combinations of a victim, a pattern and a hammer.
LEMMA ProductsOfCases ==
  ASSUME NEW types \in Seq(Hammer)
  PROVE  Products(types) \in Seq(Case)
<1> DEFINE Of(v, p)  == [t \in 1..Len(types) |->
                          [vic |-> Victims[v], pattern |-> Patterns[p], type |-> types[t]]]
           OfVictim(v) == FlattenSeq([p \in 1..2 |-> Of(v, p)])
<1>1. Len(Victims) \in Nat /\ \A v \in 1..Len(Victims) : Victims[v] \in VictimSet
  BY VictimFacts
<1>2. ASSUME NEW v \in 1..Len(Victims), NEW p \in 1..2 PROVE Of(v, p) \in Seq(Case)
  <2>1. p = 1 \/ p = 2
    OBVIOUS
  <2>2. Patterns[p] \in Pattern
    BY <2>1, Assumed DEF Pattern
  <2> QED BY <1>1, <2>2 DEF Case
<1> HIDE DEF Of
<1>3. ASSUME NEW v \in 1..Len(Victims) PROVE OfVictim(v) \in Seq(Case)
  <2>1. [p \in 1..2 |-> Of(v, p)] \in Seq(Seq(Case))
    BY <1>2
  <2> QED BY <2>1, Flattened
<1> HIDE DEF OfVictim
<1>4. [v \in 1..Len(Victims) |-> OfVictim(v)] \in Seq(Seq(Case))
  BY <1>1, <1>3
<1> QED BY <1>4, Flattened DEF Products, OfVictim, Of

\* What the loops of each script range over.
LEMMA CasesTyped ==
  /\ \A s \in {"hcf", "rp"} :
       /\ Cases(s) \in Seq(Case) /\ Len(Cases(s)) \in Nat
       /\ \A k \in 1..Len(Cases(s)) : Cases(s)[k] \in Case
  /\ Len(Cases("sweep")) = Len(Victims) /\ Len(Victims) \in Nat
  /\ \A k \in 1..Len(Victims) : Victims[k] \in VictimSet /\ Cases("sweep")[k].vic = Victims[k]
<1>1. Types \in Seq(Hammer) /\ <<"Upper", "Lower">> \in Seq(Hammer)
  BY DEF Types, Hammer
<1>2. Cases("hcf") = AllHammers /\ Cases("rp") = SingleSided /\ Cases("sweep") = EachVictim
  BY DEF Cases
<1>3. AllHammers \in Seq(Case) /\ SingleSided \in Seq(Case)
  BY <1>1, ProductsOfCases DEF AllHammers, SingleSided
<1>4. \A s \in {"hcf", "rp"} : Cases(s) \in Seq(Case)
  BY <1>2, <1>3
<1>5. /\ Len(EachVictim) = Len(Victims) /\ Len(Victims) \in Nat
      /\ \A k \in 1..Len(Victims) : Victims[k] \in VictimSet /\ EachVictim[k].vic = Victims[k]
  BY VictimFacts DEF EachVictim
<1> QED BY <1>2, <1>4, <1>5

-----------------------------------------------------------------------------
(* The steps of a campaign, seen from one script *)

\* A script begins with nothing in its memory; ds_hcf is what was there at first.
Base ==
  /\ Progress
  /\ phase \in {"start", "connected"} =>
       /\ at = 1 /\ count = 1 /\ found = FALSE /\ bers = <<0, 0>>
       /\ anti_rows = {} /\ results = <<>>
  /\ chip \in Chips
  /\ \E d \in Data : files["ds_hcf"] = d["ds_hcf"]

\* The steps of the loops of s.
Rounds(s) ==
  \/ s = "hcf" /\ (HcfRound \/ HcfNext)
  \/ s = "rp" /\ RpRound
  \/ s = "sweep" /\ (SweepRound \/ SweepNext)
  \/ s = "retention" /\ RetentionRound

\* A step that is not of the loops of s: either s is not in them, or is left alone.
Elsewhere(s) ==
  /\ files'[s] = files[s] /\ files'["ds_hcf"] = files["ds_hcf"]
  /\ script' = s /\ phase' = "loop" => UNCHANGED <<script, phase, position>>

\* The steps of s are those of its loops, the reading of its inputs, the writing of its
\* results, or elsewhere.
Steps(s) == \/ Rounds(s)
            \/ script = s /\ (ReadInputs \/ WriteCsv \/ WriteTorn)
            \/ Elsewhere(s)

\* A step that writes no results.
LEMMA WritesNoResults ==
  ASSUME Base, NEW s \in ScriptSet, UNCHANGED <<chip, mapping, files>>,
         phase' # "loop" \/ (script' = script /\ script # s) \/ UNCHANGED <<script, phase, position>>
  PROVE  UNCHANGED <<chip, mapping>> /\ files'["ds_hcf"] = files["ds_hcf"] /\ Elsewhere(s)
BY Zenon DEF Elsewhere

\* A script writes no file but its own.
LEMMA WritesItsOwn ==
  ASSUME Base, NEW s \in ScriptSet, script # Over, NEW f, files' = [files EXCEPT ![script] = f],
         UNCHANGED <<chip, mapping>>, phase' # "loop"
  PROVE  /\ files'["ds_hcf"] = files["ds_hcf"]
         /\ IF script = s THEN files'[s] = f ELSE Elsewhere(s)
<1>1. script \in FileNames /\ script # "ds_hcf" /\ DOMAIN files = FileNames
  BY Running DEF Base, Progress
<1>2. files'["ds_hcf"] = files["ds_hcf"] /\ (script # s => files'[s] = files[s]) /\ files'[script] = f
  BY <1>1
<1> QED BY <1>2, Zenon DEF Elsewhere

\* Every step is one of these; none changes the chip, its mapping or ds_hcf.
LEMMA StepOf ==
  ASSUME Base, [Next]_vars, NEW s \in ScriptSet
  PROVE  UNCHANGED <<chip, mapping>> /\ files'["ds_hcf"] = files["ds_hcf"] /\ Steps(s)
<1>1. CASE UNCHANGED vars
  BY <1>1, WritesNoResults DEF vars, Steps
<1>2. CASE \/ ArgumentsMissing \/ ConnectFails \/ ImportsMissing \/ InputMissing \/ RowUnmapped
           \/ VictimMissing \/ Fails \/ Close \/ DumpTorn
  <2>1. UNCHANGED <<chip, mapping, files>> /\ phase' = "start"
    BY <1>2 DEF ArgumentsMissing, ConnectFails, ImportsMissing, InputMissing, RowUnmapped,
                VictimMissing, Fails, Close, DumpTorn, Exit
  <2> QED BY <2>1, WritesNoResults DEF Steps
<1>3. CASE Connect \/ DumpFlips
  <2>1. UNCHANGED <<chip, mapping, files>> /\ phase' # "loop"
    BY <1>3 DEF Connect, DumpFlips
  <2> QED BY <2>1, WritesNoResults DEF Steps
<1>4. CASE ReadInputs
  <2>1. UNCHANGED <<chip, mapping, files, script>>
    BY <1>4 DEF ReadInputs
  <2> QED BY <1>4, <2>1, WritesNoResults DEF Steps
<1>5. CASE HcfRound \/ HcfNext
  <2>1. UNCHANGED <<chip, mapping, files, script>> /\ script = "hcf"
    BY <1>5 DEF HcfRound, HcfNext, InLoop
  <2> QED BY <1>5, <2>1, WritesNoResults DEF Steps, Rounds
<1>6. CASE RpRound
  <2>1. UNCHANGED <<chip, mapping, files, script>> /\ script = "rp"
    BY <1>6 DEF RpRound, InLoop
  <2> QED BY <1>6, <2>1, WritesNoResults DEF Steps, Rounds
<1>7. CASE SweepRound \/ SweepNext
  <2>1. UNCHANGED <<chip, mapping, files, script>> /\ script = "sweep"
    BY <1>7 DEF SweepRound, SweepNext, InLoop
  <2> QED BY <1>7, <2>1, WritesNoResults DEF Steps, Rounds
<1>8. CASE RetentionRound
  <2>1. UNCHANGED <<chip, mapping, files, script>> /\ script = "retention"
    BY <1>8 DEF RetentionRound, InLoop
  <2> QED BY <1>8, <2>1, WritesNoResults DEF Steps, Rounds
<1>9. CASE WriteCsv
  <2>1. /\ UNCHANGED <<chip, mapping>> /\ phase' # "loop" /\ script # Over
        /\ files' = [files EXCEPT ![script] = File("whole", results)]
    BY <1>9 DEF WriteCsv, LoopsDone
  <2> QED BY <1>9, <2>1, WritesItsOwn DEF Steps
<1>10. CASE WriteTorn
  <2>1. /\ UNCHANGED <<chip, mapping>> /\ phase' # "loop" /\ script # Over
        /\ \E f : files' = [files EXCEPT ![script] = f]
    BY <1>10 DEF WriteTorn, LoopsDone, Exit
  <2> QED BY <1>10, <2>1, WritesItsOwn DEF Steps
<1> QED BY <1>1, <1>2, <1>3, <1>4, <1>5, <1>6, <1>7, <1>8, <1>9, <1>10 DEF Next, Runs

\* What the end of its loops leaves of a script's results.
LEMMA WrittenWhole ==
  ASSUME Base, NEW s \in ScriptSet, script = s, WriteCsv
  PROVE  /\ phase = "loop" /\ at > Len(Cases(s)) /\ phase' = "written"
         /\ files'[s].kind = "whole" /\ files'[s].rows = results
<1>1. /\ phase = "loop" /\ at > Len(Cases(s)) /\ phase' = "written" /\ script # Over
      /\ files' = [files EXCEPT ![script] = File("whole", results)] /\ UNCHANGED <<chip, mapping>>
  BY DEF WriteCsv, LoopsDone
<1>2. files'[s] = File("whole", results)
  BY <1>1, WritesItsOwn
<1> QED BY <1>1, <1>2 DEF File

LEMMA WrittenTorn ==
  ASSUME Base, NEW s \in ScriptSet, script = s, WriteTorn
  PROVE  /\ phase = "loop" /\ at > Len(Cases(s)) /\ phase' = "start"
         /\ files'[s] \in TornFiles(s, results) /\ files'[s].kind # "whole"
<1>1. PICK f \in TornFiles(s, results) :
        /\ phase = "loop" /\ at > Len(Cases(s)) /\ phase' = "start" /\ script # Over
        /\ files' = [files EXCEPT ![script] = f] /\ UNCHANGED <<chip, mapping>>
  BY DEF WriteTorn, LoopsDone, Exit
<1>2. files'[s] = f
  BY <1>1, WritesItsOwn
<1>3. f = File("unreadable", << >>) \/ \E r : f = File("torn", r)
  <2>1. \/ f = File("torn", << >>) \/ f = File("unreadable", << >>)
        \/ \E k \in 1..Len(results), cut \in {0, 1, 10} : f = File("torn", CutAt(results, k, cut))
    <3>1. CASE s = "retention"
      BY <3>1 DEF TornFiles
    <3>2. CASE s # "retention"
      BY <3>2 DEF TornFiles
    <3> QED BY <3>1, <3>2
  <2> QED BY <2>1
<1>4. f.kind # "whole"
  BY <1>3 DEF File
<1> QED BY <1>1, <1>2, <1>4

LEMMA BaseInit == Init => Base
BY ProgressInit DEF Init, Base

LEMMA BaseStep == Base /\ [Next]_vars => Base'
<1> SUFFICES ASSUME Base, [Next]_vars PROVE Base'
  OBVIOUS
<1>1. Progress'
  BY ProgressStep DEF Base
<1>2. chip' = chip /\ files'["ds_hcf"] = files["ds_hcf"]
  BY StepOf, ScriptFacts
<1>3. phase' \in {"start", "connected"} =>
        /\ at' = 1 /\ count' = 1 /\ found' = FALSE /\ bers' = <<0, 0>>
        /\ anti_rows' = {} /\ results' = <<>>
  <2>1. CASE UNCHANGED vars
    BY <2>1 DEF vars, position, Base
  <2>2. CASE \E status \in 0..2 : Exit(status)
    BY <2>2 DEF Exit
  <2>3. CASE Connect
    BY <2>3 DEF Connect, Starts, position, Base
  <2>4. CASE phase' \in {"loop", "written", "dumped"}
    BY <2>4
  <2>5. \/ Connect \/ phase' \in {"loop", "written", "dumped"}
        \/ (\E status \in 0..2 : Exit(status)) \/ UNCHANGED vars
    <3>1. ASSUME \/ ArgumentsMissing \/ ConnectFails \/ ImportsMissing \/ InputMissing \/ RowUnmapped
                 \/ VictimMissing \/ Fails \/ Close \/ DumpTorn \/ WriteTorn
          PROVE  \E status \in 0..2 : Exit(status)
      BY <3>1 DEF ArgumentsMissing, ConnectFails, ImportsMissing, InputMissing, RowUnmapped,
                  VictimMissing, Fails, Close, DumpTorn, WriteTorn
    <3>2. ReadInputs \/ RetentionRound => phase' = "loop"
      BY DEF ReadInputs, RetentionRound, InLoop
    <3>3. HcfRound \/ HcfNext \/ RpRound => phase' = "loop"
      BY DEF HcfRound, HcfNext, RpRound, InLoop
    <3>4. SweepRound \/ SweepNext => phase' = "loop"
      BY DEF SweepRound, SweepNext, InLoop
    <3>5. WriteCsv \/ DumpFlips => phase' \in {"written", "dumped"}
      BY DEF WriteCsv, DumpFlips
    <3> QED BY <3>1, <3>2, <3>3, <3>4, <3>5 DEF Next, Runs
  <2> QED BY <2>1, <2>2, <2>3, <2>4, <2>5
<1> QED BY <1>1, <1>2, <1>3 DEF Base

-----------------------------------------------------------------------------
(* di_rd_rp: one round for each case *)

\* The line that di_rd_rp writes for one case, and for the first n.
RowOf(c)  == [case |-> c, flips |-> FlipsAt("rp", c, RpCount)]
RowsOf(n) == [k \in 1..n |-> RowOf(Cases("rp")[k])]

\* There is a row for each case that the loops have passed.
RpInv ==
  Mapped =>
    /\ script = "rp" /\ phase = "loop" => at \in 1..(Len(Cases("rp")) + 1) /\ results = RowsOf(at - 1)
    /\ files["rp"].kind = "whole" => files["rp"].rows = RowsOf(Len(Cases("rp")))

\* Each round appends the line of its case, and to_csv writes them all.
LEMMA RpStep ==
  ASSUME Base, RpInv, [Next]_vars
  PROVE  RpInv'
<1> DEFINE s == "rp"
<1>0. s \in ScriptSet
  BY ScriptFacts
<1>1. UNCHANGED <<chip, mapping>> /\ Steps(s)
  BY <1>0, StepOf
<1>2. (Mapped' <=> Mapped) /\ \A n : RowsOf(n)' = RowsOf(n)
  BY <1>1 DEF Mapped, RowsOf, RowOf, FlipsAt
<1>a. RowsOf(at - 1)' = RowsOf(at' - 1)
  BY <1>1 DEF RowsOf, RowOf, FlipsAt
<1> SUFFICES ASSUME Mapped
             PROVE  /\ script' = s /\ phase' = "loop" =>
                         at' \in 1..(Len(Cases(s)) + 1) /\ results' = RowsOf(at' - 1)
                    /\ files'[s].kind = "whole" => files'[s].rows = RowsOf(Len(Cases(s)))
  BY <1>2, <1>a DEF RpInv
<1>3. /\ script = s /\ phase = "loop" => at \in 1..(Len(Cases(s)) + 1) /\ results = RowsOf(at - 1)
      /\ files[s].kind = "whole" => files[s].rows = RowsOf(Len(Cases(s)))
  BY <1>2 DEF RpInv
<1>4. Len(Cases(s)) \in Nat /\ \A k \in 1..Len(Cases(s)) : Cases(s)[k] \in Case
  BY CasesTyped
<1>5. CASE RpRound
  <2>1. /\ script = s /\ phase = "loop" /\ at <= Len(Cases(s)) /\ mapping \in Known
        /\ script' = s /\ files' = files /\ at' = at + 1
    BY <1>5 DEF RpRound, InLoop
  <2>2. PICK k \in 1..Len(Cases(s)) : k = at
    BY <1>3, <1>4, <2>1
  <2>3. PICK c \in Case : c = Cases(s)[k]
    BY <1>4
  <2> DEFINE d == Round(dram, c.vic, c.pattern, c.type, RpCount)
  <2>4. c.vic \in VictimSet /\ c.pattern \in Pattern /\ c.type \in Hammer /\ RpCount \in Count
    BY Assumed DEF Case
  <2>5. results' = Append(results, [case |-> c, flips |-> Flips(d, c.vic, c.pattern)])
    BY <1>5, <2>2, <2>3 DEF RpRound
  <2>6. Flips(d, c.vic, c.pattern) = FlipsAt(s, c, RpCount)
    BY <1>2, <2>1, <2>4, RoundFlips DEF FlipsAt
  <2> HIDE DEF d
  <2>7. results' = Append(RowsOf(k - 1), RowOf(c))
    <3>1. results = RowsOf(k - 1)
      BY <1>3, <2>1, <2>2
    <3> QED BY <2>5, <2>6, <3>1 DEF RowOf
  <2>8. Append(RowsOf(k - 1), RowOf(c)) = RowsOf(k)
    BY <1>4, <2>3 DEF RowsOf
  <2>9. at' - 1 = k /\ at' \in 1..(Len(Cases(s)) + 1) /\ k \in Nat
    BY <1>4, <2>1, <2>2
  <2> QED BY <1>2, <1>3, <1>4, <2>1, <2>7, <2>8, <2>9
<1>6. CASE script = s /\ ReadInputs
  <2>1. at' = 1 /\ results' = <<>> /\ files' = files
    BY <1>6 DEF ReadInputs, Base
  <2>2. RowsOf(0) = <<>>
    BY DEF RowsOf
  <2> QED BY <1>2, <1>3, <1>4, <2>1, <2>2
<1>7. CASE script = s /\ WriteCsv
  <2>1. /\ phase = "loop" /\ at > Len(Cases(s)) /\ phase' = "written"
        /\ files'[s].kind = "whole" /\ files'[s].rows = results
    BY <1>0, <1>7, WrittenWhole
  <2>2. at - 1 = Len(Cases(s)) /\ results = RowsOf(Len(Cases(s)))
    BY <1>3, <1>4, <1>7, <2>1
  <2> QED BY <2>1, <2>2
<1>8. CASE script = s /\ WriteTorn
  <2>1. phase' = "start" /\ files'[s].kind # "whole"
    BY <1>0, <1>8, WrittenTorn
  <2> QED BY <2>1
<1>9. CASE Elsewhere(s)
  BY <1>2, <1>3, <1>4, <1>9 DEF Elsewhere, position
<1> QED BY <1>1, <1>5, <1>6, <1>7, <1>8, <1>9 DEF Steps, Rounds

-----------------------------------------------------------------------------
(* di_rd_hc: for each case the first count that flips *)

\* What a chip shows of a case.
LEMMA FlipsAreCounted ==
  ASSUME chip \in Chips, NEW c \in Case, NEW n \in Count
  PROVE  FlipsAt("hcf", c, n) \in Nat
<1>1. c.vic \in VictimSet /\ c.pattern \in Pattern /\ c.type \in Hammer /\ "hcf" \in Measuring
  BY DEF Case, Measuring
<1> QED BY <1>1, ChipFacts DEF FlipsAt

\* The counts of a hammer go up.
LEMMA HammersInOrder ==
  ASSUME NEW t \in Hammer
  PROVE  /\ Len(Hammers[t]) \in Nat /\ DOMAIN Hammers[t] = 1..Len(Hammers[t])
         /\ \A i \in 1..Len(Hammers[t]) : Hammers[t][i] \in Count /\ Hammers[t][i] \in Nat
         /\ \A i, j \in 1..Len(Hammers[t]) : Hammers[t][i] < Hammers[t][j] => i < j
         /\ \A i, j \in 1..Len(Hammers[t]) : i <= j => Hammers[t][i] <= Hammers[t][j]
<1>1. /\ Hammers[t] \in Seq(Count)
      /\ \A i, j \in 1..Len(Hammers[t]) : i < j => Hammers[t][i] < Hammers[t][j]
  BY Assumed
<1>2. /\ Len(Hammers[t]) \in Nat /\ DOMAIN Hammers[t] = 1..Len(Hammers[t])
      /\ \A i \in 1..Len(Hammers[t]) : Hammers[t][i] \in Count
  BY <1>1
<1>3. \A i \in 1..Len(Hammers[t]) : Hammers[t][i] \in Nat
  BY <1>2, Assumed
<1>4. \A i, j \in 1..Len(Hammers[t]) : i <= j => Hammers[t][i] <= Hammers[t][j]
  <2> TAKE i, j \in 1..Len(Hammers[t])
  <2>1. CASE i < j
    BY <1>1, <1>3, <2>1
  <2>2. CASE i = j
    BY <1>3, <2>2
  <2> QED BY <1>2, <2>1, <2>2
<1>5. \A i, j \in 1..Len(Hammers[t]) : Hammers[t][i] < Hammers[t][j] => i < j
  BY <1>2, <1>3, <1>4
<1> QED BY <1>2, <1>3, <1>4, <1>5

\* The first flip is at the k-th count if none is before; there is none if no count flips.
LEMMA FirstFlipIs ==
  ASSUME chip \in Chips, NEW c \in Case
  PROVE  /\ \A k \in 1..Len(Hammers[c.type]) :
              /\ FlipsAt("hcf", c, Hammers[c.type][k]) > 0
              /\ \A i \in 1..(k - 1) : FlipsAt("hcf", c, Hammers[c.type][i]) = 0
              => FirstFlip(c) = {Hammers[c.type][k]}
         /\ (\A i \in 1..Len(Hammers[c.type]) : FlipsAt("hcf", c, Hammers[c.type][i]) = 0) => FirstFlip(c) = {}
<1> DEFINE H == Hammers[c.type]
<1>1. /\ Len(H) \in Nat /\ DOMAIN H = 1..Len(H)
      /\ \A i \in 1..Len(H) : H[i] \in Nat
      /\ \A i, j \in 1..Len(H) : H[i] < H[j] => i < j
      /\ \A i, j \in 1..Len(H) : i <= j => H[i] <= H[j]
  <2>1. c.type \in Hammer
    BY DEF Case
  <2> QED BY <2>1, HammersInOrder
<1>2. FirstFlip(c) = {n \in Range(H) : FlipsAt("hcf", c, n) > 0 /\ \A m \in Range(H) : m < n => FlipsAt("hcf", c, m) = 0}
  BY Zenon DEF FirstFlip
<1>3. Range(H) = {H[i] : i \in 1..Len(H)}
  BY <1>1 DEF Range
<1> HIDE DEF H
<1>4. ASSUME NEW k \in 1..Len(H), FlipsAt("hcf", c, H[k]) > 0, \A i \in 1..(k - 1) : FlipsAt("hcf", c, H[i]) = 0
      PROVE  FirstFlip(c) = {H[k]}
  <2>1. \A m \in Range(H) : m < H[k] => FlipsAt("hcf", c, m) = 0
    <3> SUFFICES ASSUME NEW i \in 1..Len(H), H[i] < H[k] PROVE FlipsAt("hcf", c, H[i]) = 0
      BY <1>3
    <3>1. i \in 1..(k - 1)
      BY <1>1
    <3> QED BY <1>4, <3>1
  <2>2. H[k] \in FirstFlip(c)
    BY <1>2, <1>3, <1>4, <2>1
  <2>3. ASSUME NEW n \in FirstFlip(c) PROVE n = H[k]
    <3>1. PICK j \in 1..Len(H) : n = H[j]
      BY <1>2, <1>3
    <3>2. FlipsAt("hcf", c, n) > 0 /\ (H[k] < n => FlipsAt("hcf", c, H[k]) = 0)
      BY <1>2, <1>3, <2>3
    <3>3. ~(n < H[k])
      <4> SUFFICES ASSUME n < H[k] PROVE FALSE
        OBVIOUS
      <4>1. FlipsAt("hcf", c, n) = 0
        BY <1>3, <2>1, <3>1
      <4> QED BY <3>2, <4>1
    <3>4. ~(H[k] < n)
      BY <1>4, <3>2
    <3>5. n \in Nat /\ H[k] \in Nat
      BY <1>1, <3>1
    <3> QED BY <3>3, <3>4, <3>5
  <2> QED BY <2>2, <2>3
<1>5. ASSUME \A i \in 1..Len(H) : FlipsAt("hcf", c, H[i]) = 0 PROVE FirstFlip(c) = {}
  <2> SUFFICES ASSUME NEW n \in FirstFlip(c) PROVE FALSE
    OBVIOUS
  <2>1. PICK j \in 1..Len(H) : n = H[j]
    BY <1>2, <1>3
  <2>2. FlipsAt("hcf", c, n) > 0
    BY <1>2
  <2> QED BY <1>5, <2>1, <2>2
<1> QED BY <1>4, <1>5 DEF H

\* What di_rd_hc writes of a case: its first count that flips, or no line.
Found(c) == IF FirstFlip(c) = {} THEN <<>> ELSE <<[case |-> c, hc |-> CHOOSE n \in FirstFlip(c) : TRUE]>>

\* One case more adds what is found in it.
LEMMA HcfUnfolds ==
  ASSUME NEW k \in Nat
  PROVE  /\ HcfOfCases(0) = << >>
         /\ k < Len(Cases("hcf")) => HcfOfCases(k + 1) = HcfOfCases(k) \o Found(Cases("hcf")[k + 1])
         /\ k <= Len(Cases("hcf")) => HcfOfCases(k) \in Seq([case : Case, hc : Nat])
<1> DEFINE C == Cases("hcf")
           n == Len(C)
           parts == [i \in 1..n |-> Found(C[i])]
<1>1. n \in Nat /\ \A i \in 1..n : C[i] \in Case
  BY CasesTyped
<1>2. ASSUME NEW c \in Case PROVE Found(c) \in Seq([case : Case, hc : Nat])
  <2>1. CASE FirstFlip(c) = {}
    <3>1. Found(c) = << >>
      BY <2>1 DEF Found
    <3> QED BY <3>1
  <2>2. CASE FirstFlip(c) # {}
    <3>1. PICK m \in FirstFlip(c) : m = CHOOSE x \in FirstFlip(c) : TRUE
      BY <2>2
    <3>2. m \in Nat
      <4>1. m \in Range(Hammers[c.type]) /\ c.type \in Hammer
        BY DEF FirstFlip, Case
      <4> QED BY <4>1, HammersInOrder DEF Range
    <3>3. Found(c) = <<[case |-> c, hc |-> m]>>
      BY <2>2, <3>1 DEF Found
    <3> QED BY <3>2, <3>3
  <2> QED BY <2>1, <2>2
<1>3. PICK R : R = [case : Case, hc : Nat] /\ parts \in [1..n -> Seq(R)]
  BY <1>1, <1>2
<1>4. ASSUME NEW m \in Nat, m <= n PROVE HcfOfCases(m) = UpTo(parts, m)
  <2>1. [i \in 1..m |-> parts[i]] = [i \in 1..m |-> Found(C[i])]
    BY <1>1, <1>4
  <2> QED BY <2>1, Zenon DEF HcfOfCases, Found, UpTo
<1> HIDE DEF n, parts
<1>a. n \in Nat /\ parts \in [1..n -> Seq(R)]
  BY <1>1, <1>3
<1>b. /\ UpTo(parts, 0) = << >>
      /\ \A i \in Nat : /\ i <= n => UpTo(parts, i) \in Seq(R)
                        /\ i < n => UpTo(parts, i + 1) = UpTo(parts, i) \o parts[i + 1]
  BY <1>a, UpToUnfolds
<1>5. HcfOfCases(0) = << >>
  <2>1. UpTo(parts, 0) = << >>
    BY <1>b
  <2> QED BY <1>1, <1>4, <2>1
<1>6. ASSUME k < n PROVE HcfOfCases(k + 1) = HcfOfCases(k) \o Found(C[k + 1])
  <2>1. k <= n /\ k + 1 <= n /\ k + 1 \in Nat /\ k + 1 \in 1..n
    BY <1>1, <1>6
  <2>2. parts[k + 1] = Found(C[k + 1])
    BY <2>1 DEF parts
  <2>3. UpTo(parts, k + 1) = UpTo(parts, k) \o parts[k + 1]
    BY <1>6, <1>b
  <2> QED BY <1>4, <2>1, <2>2, <2>3
<1>7. ASSUME k <= n PROVE HcfOfCases(k) \in Seq([case : Case, hc : Nat])
  <2>1. UpTo(parts, k) \in Seq(R)
    BY <1>7, <1>b
  <2> QED BY <1>3, <1>4, <1>7, <2>1
<1> QED BY <1>5, <1>6, <1>7 DEF n

\* The counts before the present one flip nothing in c, except the last when it was found.
Searched(c) ==
  LET before == IF found THEN count - 2 ELSE count - 1
  IN  /\ count \in 1..(Len(Hammers[c.type]) + 1)
      /\ \A i \in 1..before : FlipsAt("hcf", c, Hammers[c.type][i]) = 0
      /\ found => count > 1 /\ FlipsAt("hcf", c, Hammers[c.type][count - 1]) > 0

\* The lines are the ones of the cases that the search has passed.
HcfInv ==
  Mapped =>
    /\ script = "hcf" /\ phase = "loop" =>
         /\ at \in 1..(Len(Cases("hcf")) + 1)
         /\ IF at > Len(Cases("hcf")) THEN ~found ELSE Searched(Cases("hcf")[at])
         /\ results = HcfOfCases(IF found THEN at ELSE at - 1)
    /\ files["hcf"].kind = "whole" => files["hcf"].rows = HcfOfCases(Len(Cases("hcf")))

\* A round without flips goes on with the next count, the first with flips ends the search.
LEMMA HcfStep ==
  ASSUME Base, HcfInv, [Next]_vars
  PROVE  HcfInv'
<1> DEFINE C == Cases("hcf")
<1>0. "hcf" \in ScriptSet
  BY ScriptFacts
<1>1. UNCHANGED <<chip, mapping>> /\ chip \in Chips /\ Steps("hcf")
  BY <1>0, StepOf DEF Base
<1>2. (Mapped' <=> Mapped) /\ \A c, n : FlipsAt("hcf", c, n)' = FlipsAt("hcf", c, n)
  BY <1>1 DEF Mapped, FlipsAt
<1>3. \A n : HcfOfCases(n)' = HcfOfCases(n)
  BY <1>1 DEF HcfOfCases, FirstFlip, FlipsAt
<1>4. HcfOfCases(IF found THEN at ELSE at - 1)' = HcfOfCases(IF found' THEN at' ELSE at' - 1)
  BY <1>1 DEF HcfOfCases, FirstFlip, FlipsAt
<1>5. Len(C) \in Nat /\ \A k \in 1..Len(C) : C[k] \in Case
  BY CasesTyped
<1> SUFFICES ASSUME Mapped
             PROVE  /\ script' = "hcf" /\ phase' = "loop" =>
                         /\ at' \in 1..(Len(C) + 1)
                         /\ IF at' > Len(C) THEN ~found' ELSE Searched(C[at])'
                         /\ results' = HcfOfCases(IF found' THEN at' ELSE at' - 1)
                    /\ files'["hcf"].kind = "whole" => files'["hcf"].rows = HcfOfCases(Len(C))
  BY <1>2, <1>3, <1>4 DEF HcfInv
<1>6. /\ script = "hcf" /\ phase = "loop" =>
           /\ at \in 1..(Len(C) + 1)
           /\ IF at > Len(C) THEN ~found ELSE Searched(C[at])
           /\ results = HcfOfCases(IF found THEN at ELSE at - 1)
      /\ files["hcf"].kind = "whole" => files["hcf"].rows = HcfOfCases(Len(C))
  BY DEF HcfInv
<1> HIDE DEF C
<1>7. CASE HcfRound
  <2>1. /\ script = "hcf" /\ phase = "loop" /\ at <= Len(C) /\ mapping \in Known /\ ~found
        /\ at' = at /\ count' = count + 1 /\ files' = files
        /\ count <= Len(Hammers[C[at].type])
    BY <1>7 DEF HcfRound, InLoop, C
  <2>2. PICK k \in 1..Len(C) : k = at
    BY <1>5, <1>6, <2>1
  <2>3. PICK c \in Case : c = C[k]
    BY <1>5
  <2>4. Len(Hammers[c.type]) \in Nat /\ count \in 1..Len(Hammers[c.type])
    <3>1. c.type \in Hammer /\ Searched(c)
      BY <1>5, <1>6, <2>1, <2>2, <2>3 DEF Case
    <3>2. Len(Hammers[c.type]) \in Nat /\ count \in 1..(Len(Hammers[c.type]) + 1)
      BY <3>1, HammersInOrder DEF Searched
    <3> QED BY <2>1, <2>2, <2>3, <3>2
  <2>5. PICK n \in Count : n = Hammers[c.type][count]
    <3>1. c.type \in Hammer
      BY DEF Case
    <3> QED BY <2>4, <3>1, HammersInOrder
  <2> DEFINE d == Round(dram, c.vic, c.pattern, c.type, n)
  <2>6. IF Flips(d, c.vic, c.pattern) > 0
        THEN found' = TRUE /\ results' = Append(results, [case |-> c, hc |-> n])
        ELSE UNCHANGED <<found, results>>
    BY <1>7, <2>2, <2>3, <2>5 DEF HcfRound, C
  <2>7. Flips(d, c.vic, c.pattern) = FlipsAt("hcf", c, n)
    <3>1. c.vic \in VictimSet /\ c.pattern \in Pattern /\ c.type \in Hammer
      BY DEF Case
    <3> QED BY <2>1, <3>1, RoundFlips DEF FlipsAt
  <2> HIDE DEF d
  <2>8. \A i \in 1..(count - 1) : FlipsAt("hcf", c, Hammers[c.type][i]) = 0
    BY <1>5, <1>6, <2>1, <2>2, <2>3 DEF Searched
  <2>9. FlipsAt("hcf", c, n) \in Nat
    BY <1>1, <2>5, Assumed, FlipsAreCounted
  <2>10. CASE FlipsAt("hcf", c, n) > 0
    <3>1. found' = TRUE /\ results' = Append(results, [case |-> c, hc |-> n])
      BY <2>6, <2>7, <2>10
    <3>2. FirstFlip(c) = {n}
      BY <1>1, <2>4, <2>5, <2>8, <2>10, FirstFlipIs
    <3>3. Found(c) = <<[case |-> c, hc |-> n]>>
      BY <3>2 DEF Found
    <3>4. HcfOfCases(k) = HcfOfCases(k - 1) \o Found(c) /\ HcfOfCases(k - 1) \in Seq([case : Case, hc : Nat])
      <4>1. PICK j \in Nat : j = k - 1 /\ j + 1 = k /\ j < Len(C) /\ j <= Len(C)
        BY <1>5
      <4> QED BY <2>3, <4>1, HcfUnfolds DEF C
    <3>5. results' = HcfOfCases(k)
      <4>1. results = HcfOfCases(k - 1)
        BY <1>6, <2>1, <2>2
      <4> QED BY <3>1, <3>3, <3>4, <4>1
    <3>6. Searched(c)'
      <4>1. count' \in 1..(Len(Hammers[c.type]) + 1) /\ count' > 1 /\ count' - 1 = count /\ count' - 2 = count - 1
        BY <2>1, <2>4
      <4> QED BY <1>2, <2>5, <2>8, <2>10, <3>1, <4>1 DEF Searched
    <3>7. Searched(C[at])'
      <4>1. C[at]' = c
        BY <2>1, <2>2, <2>3
      <4> QED BY <3>6, <4>1 DEF Searched
    <3> QED BY <1>5, <1>6, <2>1, <2>2, <3>1, <3>5, <3>7
  <2>11. CASE ~(FlipsAt("hcf", c, n) > 0)
    <3>1. UNCHANGED <<found, results>>
      BY <2>6, <2>7, <2>11
    <3>2. FlipsAt("hcf", c, n) = 0
      BY <2>9, <2>11
    <3>3. Searched(C[at])'
      <4>1. count' \in 1..(Len(Hammers[c.type]) + 1) /\ count' - 1 = count
        BY <2>1, <2>4
      <4>2. \A i \in 1..count : FlipsAt("hcf", c, Hammers[c.type][i]) = 0
        BY <2>4, <2>5, <2>8, <3>2
      <4>3. at' = at /\ C[at] = c /\ ~found'
        BY <2>1, <2>2, <2>3, <3>1
      <4> QED BY <1>2, <4>1, <4>2, <4>3 DEF Searched
    <3> QED BY <1>5, <1>6, <2>1, <2>2, <3>1, <3>3
  <2> QED BY <2>10, <2>11
<1>8. CASE HcfNext
  <2>1. /\ script = "hcf" /\ phase = "loop" /\ at <= Len(C)
        /\ found \/ count > Len(Hammers[C[at].type])
        /\ at' = at + 1 /\ count' = 1 /\ found' = FALSE /\ results' = results /\ files' = files
    BY <1>8 DEF HcfNext, InLoop, C
  <2>2. PICK k \in 1..Len(C) : k = at
    BY <1>5, <1>6, <2>1
  <2>3. PICK c \in Case : c = C[k]
    BY <1>5
  <2>4. results = HcfOfCases(k)
    <3>1. CASE found
      BY <1>6, <2>1, <2>2, <3>1
    <3>2. CASE ~found
      <4>1. results = HcfOfCases(k - 1)
        BY <1>6, <2>1, <2>2, <3>2
      <4>2. Searched(c) /\ c.type \in Hammer /\ count > Len(Hammers[c.type])
        BY <1>5, <1>6, <2>1, <2>2, <2>3, <3>2 DEF Case
      <4>3. \A i \in 1..Len(Hammers[c.type]) : FlipsAt("hcf", c, Hammers[c.type][i]) = 0
        <5>1. Len(Hammers[c.type]) \in Nat
          BY <4>2, HammersInOrder
        <5>2. count - 1 = Len(Hammers[c.type])
          BY <4>2, <5>1 DEF Searched
        <5> QED BY <3>2, <4>2, <5>2 DEF Searched
      <4>4. Found(c) = << >>
        BY <1>1, <4>3, FirstFlipIs DEF Found
      <4>5. HcfOfCases(k) = HcfOfCases(k - 1) \o Found(c) /\ HcfOfCases(k - 1) \in Seq([case : Case, hc : Nat])
        <5>1. PICK j \in Nat : j = k - 1 /\ j + 1 = k /\ j < Len(C) /\ j <= Len(C)
          BY <1>5
        <5> QED BY <2>3, <5>1, HcfUnfolds DEF C
      <4> QED BY <4>1, <4>4, <4>5, ConcatEmptySeq
    <3> QED BY <3>1, <3>2
  <2>5. at' - 1 = k /\ at' \in 1..(Len(C) + 1)
    BY <1>5, <2>1, <2>2
  <2>6. at' <= Len(C) => Searched(C[at])'
    <3> SUFFICES ASSUME at' <= Len(C) PROVE Searched(C[at])'
      OBVIOUS
    <3>1. C[at'] \in Case /\ C[at'].type \in Hammer
      BY <1>5, <2>5 DEF Case
    <3>2. Len(Hammers[C[at'].type]) \in Nat
      BY <3>1, HammersInOrder
    <3> QED BY <2>1, <3>2 DEF Searched
  <2> QED BY <1>5, <1>6, <2>1, <2>2, <2>4, <2>5, <2>6
<1>9. CASE script = "hcf" /\ ReadInputs
  <2>1. at' = 1 /\ results' = <<>> /\ files' = files /\ found' = FALSE /\ count' = 1
    BY <1>9 DEF ReadInputs, Base
  <2>2. HcfOfCases(0) = <<>>
    BY HcfUnfolds
  <2>3. at' <= Len(C) => Searched(C[at])'
    <3> SUFFICES ASSUME at' <= Len(C) PROVE Searched(C[at])'
      OBVIOUS
    <3>1. C[at'] \in Case /\ C[at'].type \in Hammer
      BY <1>5, <2>1 DEF Case
    <3>2. Len(Hammers[C[at'].type]) \in Nat
      BY <3>1, HammersInOrder
    <3> QED BY <2>1, <3>2 DEF Searched
  <2> QED BY <1>5, <1>6, <2>1, <2>2, <2>3
<1>10. CASE script = "hcf" /\ WriteCsv
  <2>1. /\ phase = "loop" /\ at > Len(C) /\ phase' = "written"
        /\ files'["hcf"].kind = "whole" /\ files'["hcf"].rows = results
    BY <1>0, <1>10, WrittenWhole DEF C
  <2>2. at - 1 = Len(C) /\ results = HcfOfCases(Len(C))
    BY <1>5, <1>6, <1>10, <2>1
  <2> QED BY <2>1, <2>2
<1>11. CASE script = "hcf" /\ WriteTorn
  <2>1. phase' = "start" /\ files'["hcf"].kind # "whole"
    BY <1>0, <1>11, WrittenTorn
  <2> QED BY <2>1
<1>12. CASE Elsewhere("hcf")
  <2>1. ASSUME script' = "hcf", phase' = "loop"
        PROVE  /\ at' \in 1..(Len(C) + 1)
               /\ IF at' > Len(C) THEN ~found' ELSE Searched(C[at])'
               /\ results' = HcfOfCases(IF found' THEN at' ELSE at' - 1)
    <3>1. UNCHANGED <<script, phase, at, count, found, results>>
      BY <1>12, <2>1 DEF Elsewhere, position
    <3>2. Searched(C[at])' <=> Searched(C[at])
      BY <1>2, <3>1 DEF Searched
    <3> QED BY <1>6, <2>1, <3>1, <3>2
  <2> QED BY <1>6, <1>12, <2>1 DEF Elsewhere
<1> QED BY <1>7, <1>8, <1>9, <1>10, <1>11, <1>12, <1>1 DEF Steps, Rounds

-----------------------------------------------------------------------------
(* di_ds_sweep: for each victim the first count by which both patterns flip in order *)

DoubleSided == Hammers["Double"]

\* The counts that di_ds_sweep comes by go up.
LEMMA DoubleInOrder ==
  /\ Len(DoubleSided) \in Nat /\ DOMAIN DoubleSided = 1..Len(DoubleSided)
  /\ \A i \in 1..Len(DoubleSided) : DoubleSided[i] \in Count /\ DoubleSided[i] \in Nat
  /\ \A i, j \in 1..Len(DoubleSided) : DoubleSided[i] < DoubleSided[j] => i < j
  /\ \A i, j \in 1..Len(DoubleSided) : i <= j => DoubleSided[i] <= DoubleSided[j]
  /\ \A i, j \in 1..Len(DoubleSided) : i < j => DoubleSided[i] < DoubleSided[j]
  /\ Range(DoubleSided) = {DoubleSided[i] : i \in 1..Len(DoubleSided)}
<1>1. "Double" \in Hammer
  BY DEF Hammer
<1>2. DOMAIN DoubleSided = 1..Len(DoubleSided)
  BY <1>1, HammersInOrder DEF DoubleSided
<1>3. Range(DoubleSided) = {DoubleSided[i] : i \in 1..Len(DoubleSided)}
  BY <1>2 DEF Range
<1> QED BY <1>1, <1>3, HammersInOrder, Assumed DEF DoubleSided

\* A member below all the others is the least.
LEMMA LeastIs ==
  ASSUME NEW T \in SUBSET Nat, NEW x \in T, \A y \in T : x <= y
  PROVE  Least(T) = x
<1>1. Least(T) \in T /\ \A y \in T : Least(T) <= y
  BY DEF Least
<1>2. Least(T) <= x /\ x <= Least(T) /\ x \in Nat /\ Least(T) \in Nat
  BY <1>1
<1> QED BY <1>2

\* The counts of a victim begin with the least of its counts in ds_hcf, if it has one.
LEMMA StartFacts ==
  ASSUME Base, NEW k \in 1..Len(Victims)
  PROVE  \/ HcfOf(Victims[k]) = {} /\ StartOf(k) = 0
         \/ /\ StartOf(k) \in 1..Len(DoubleSided)
            /\ DoubleSided[StartOf(k)] = Least(HcfOf(Victims[k]))
<1> DEFINE v == Victims[k]
           rows == files["ds_hcf"].rows
<1>1. PICK R : R = [vic : Nat, hc : Range(DoubleSided)] /\ rows \in Seq(R)
  BY DataAssumption DEF Base, DoubleSided
<1>2. k <= Len(Victims)
  BY VictimFacts
<1>3. CASE HcfOf(v) = {}
  BY <1>2, <1>3 DEF StartOf
<1>4. CASE HcfOf(v) # {}
  <2>1. ASSUME NEW h \in HcfOf(v) PROVE h \in Nat /\ \E n \in 1..Len(DoubleSided) : DoubleSided[n] = h
    <3>1. PICK j \in 1..Len(rows) : h = rows[j].hc
      BY DEF HcfOf
    <3>2. rows[j] \in R
      BY <1>1, ElementOfSeq, Zenon
    <3>3. h \in Range(DoubleSided)
      BY <1>1, <3>1, <3>2
    <3> QED BY <3>3, DoubleInOrder
  <2>2. PICK h \in HcfOf(v) : \A m \in HcfOf(v) : h <= m
    BY <1>4, <2>1, LeastNumber
  <2>3. Least(HcfOf(v)) = h
    BY <2>1, <2>2, LeastIs
  <2>4. StartOf(k) = CHOOSE n \in 1..Len(DoubleSided) : DoubleSided[n] = h
    BY <1>2, <1>4, <2>3 DEF StartOf, DoubleSided
  <2>5. \E n \in 1..Len(DoubleSided) : DoubleSided[n] = h
    BY <2>1
  <2> QED BY <2>3, <2>4, <2>5
<1> QED BY <1>3, <1>4

\* What bers has after the round at a count: its flips, or else what it had before, and nothing
\* at the start.
LEMMA BersFollow ==
  ASSUME NEW v, NEW p, NEW start \in 1..Len(DoubleSided), DoubleSided[start] = Least(HcfOf(v)),
         NEW k \in start..Len(DoubleSided)
  PROVE  Latest(v, p, DoubleSided[k]) =
           IF FlipsAt("sweep", Double(v, p), DoubleSided[k]) > 0
           THEN FlipsAt("sweep", Double(v, p), DoubleSided[k])
           ELSE IF k = start THEN 0 ELSE Latest(v, p, DoubleSided[k - 1])
<1> DEFINE H == DoubleSided
           shows(i) == FlipsAt("sweep", Double(v, p), H[i]) > 0
<1>1. /\ Len(H) \in Nat /\ \A i \in 1..Len(H) : H[i] \in Nat
      /\ \A i, j \in 1..Len(H) : H[i] < H[j] => i < j
      /\ \A i, j \in 1..Len(H) : i <= j => H[i] <= H[j]
      /\ \A i, j \in 1..Len(H) : i < j => H[i] < H[j]
      /\ Range(H) = {H[i] : i \in 1..Len(H)}
  BY DoubleInOrder
<1>2. ASSUME NEW m \in start..Len(H)
      PROVE  Flipped(v, p, H[m]) = {H[i] : i \in {j \in start..m : shows(j)}}
  <2>1. From(v, H[m]) = {n \in Range(H) : H[start] <= n /\ n <= H[m]}
    BY DEF From, DoubleSided
  <2> HIDE DEF H
  <2>2. From(v, H[m]) = {H[i] : i \in start..m}
    <3>1. ASSUME NEW i \in 1..Len(H), H[start] <= H[i], H[i] <= H[m] PROVE i \in start..m
      <4>1. ~(i < start) /\ ~(m < i)
        BY <1>1, <3>1 DEF H
      <4> QED BY <1>1, <4>1
    <3>2. ASSUME NEW i \in start..m PROVE i \in 1..Len(H) /\ H[start] <= H[i] /\ H[i] <= H[m]
      BY <1>1 DEF H
    <3> QED BY <1>1, <2>1, <3>1, <3>2
  <2> QED BY <2>2 DEF Flipped
<1>3. Flipped(v, p, H[k]) = {H[i] : i \in {j \in start..k : shows(j)}}
  BY <1>2
<1> HIDE DEF H
<1>a. DoubleSided = H
  BY DEF H
<1>4. CASE shows(k)
  <2> DEFINE T == Flipped(v, p, H[k])
             latest == CHOOSE m \in T : \A n \in T : n <= m
  <2>1. H[k] \in T /\ \A n \in T : n <= H[k]
    <3> HIDE DEF shows
    <3>1. k \in start..k /\ k \in 1..Len(H)
      BY <1>1, <1>a
    <3>2. ASSUME NEW i \in start..k PROVE H[i] <= H[k]
      BY <1>1, <1>a
    <3> QED BY <1>3, <1>4, <3>1, <3>2
  <2>2. T \subseteq Nat
    <3>1. ASSUME NEW i \in start..k PROVE H[i] \in Nat
      BY <1>1, <1>a
    <3> QED BY <1>3, <3>1
  <2>3. latest = H[k]
    <3> HIDE DEF T
    <3>1. latest \in T /\ \A n \in T : n <= latest
      BY <2>1
    <3>2. latest <= H[k] /\ H[k] <= latest /\ latest \in Nat /\ H[k] \in Nat
      BY <2>1, <2>2, <3>1
    <3> QED BY <3>2
  <2>4. Latest(v, p, H[k]) = FlipsAt("sweep", Double(v, p), latest)
    BY <2>1 DEF Latest
  <2> QED BY <1>4, <1>a, <2>3, <2>4
<1>5. CASE ~shows(k) /\ k = start
  <2>1. Flipped(v, p, H[k]) = {}
    <3>1. \A j \in start..k : j = k
      BY <1>5
    <3> HIDE DEF shows
    <3> QED BY <1>3, <1>5, <3>1
  <2> QED BY <1>5, <1>a, <2>1 DEF Latest
<1>6. CASE ~shows(k) /\ k # start
  <2>1. k - 1 \in start..Len(H)
    BY <1>1, <1>6, <1>a
  <2>2. Flipped(v, p, H[k - 1]) = {H[i] : i \in {j \in start..(k - 1) : shows(j)}}
    BY <1>2, <2>1 DEF H
  <2>3. {j \in start..k : shows(j)} = {j \in start..(k - 1) : shows(j)}
    <3>1. start..k = (start..(k - 1)) \union {k}
      BY <1>1, <1>a, <2>1
    <3> HIDE DEF shows
    <3> QED BY <1>6, <3>1
  <2>4. Flipped(v, p, H[k]) = Flipped(v, p, H[k - 1])
    BY <1>3, <2>2, <2>3
  <2>5. Latest(v, p, H[k]) = Latest(v, p, H[k - 1])
    BY <2>4 DEF Latest
  <2> QED BY <1>6, <1>a, <2>5
<1> QED BY <1>4, <1>5, <1>6

\* At n the flips of v that bers has by then are in order.
Ordered(v, n) == Matches(v, <<Latest(v, Patterns[1], n), Latest(v, Patterns[2], n)>>)

\* The k-th count is recorded if it is the first in order from the start; none is if none is.
LEMMA SweepCountsAre ==
  ASSUME NEW v, NEW start \in 1..Len(DoubleSided), DoubleSided[start] = Least(HcfOf(v))
  PROVE  /\ \A k \in start..Len(DoubleSided) :
              Ordered(v, DoubleSided[k]) /\ (\A i \in start..(k - 1) : ~Ordered(v, DoubleSided[i]))
              => SweepCounts(v) # {} /\ Least(SweepCounts(v)) = DoubleSided[k]
         /\ (\A i \in start..Len(DoubleSided) : ~Ordered(v, DoubleSided[i])) => SweepCounts(v) = {}
<1> DEFINE H == DoubleSided
<1>1. /\ Len(H) \in Nat /\ \A i \in 1..Len(H) : H[i] \in Nat
      /\ \A i, j \in 1..Len(H) : H[i] < H[j] => i < j
      /\ \A i, j \in 1..Len(H) : i <= j => H[i] <= H[j]
      /\ Range(H) = {H[i] : i \in 1..Len(H)}
  BY DoubleInOrder
<1>2. SweepCounts(v) = {n \in Range(H) : H[start] <= n /\ Ordered(v, n)}
  BY DEF SweepCounts, DoubleSided, Ordered
<1> HIDE DEF H
<1>a. DoubleSided = H
  BY DEF H
<1>3. ASSUME NEW n \in SweepCounts(v)
      PROVE  \E j \in start..Len(H) : n = H[j] /\ Ordered(v, H[j])
  <2>1. PICK j \in 1..Len(H) : n = H[j]
    BY <1>1, <1>2
  <2>2. H[start] <= n /\ Ordered(v, n)
    BY <1>2
  <2>3. CASE j < start
    <3>1. H[j] = H[start]
      BY <1>1, <1>a, <2>1, <2>2, <2>3
    <3>2. Ordered(v, H[start]) /\ start \in start..Len(H)
      BY <1>1, <1>a, <2>1, <2>2, <3>1
    <3> QED BY <2>1, <3>1, <3>2
  <2>4. CASE ~(j < start)
    BY <1>1, <1>a, <2>1, <2>2, <2>4
  <2> QED BY <2>3, <2>4
<1>4. ASSUME NEW k \in start..Len(H), Ordered(v, H[k]), \A i \in start..(k - 1) : ~Ordered(v, H[i])
      PROVE  SweepCounts(v) # {} /\ Least(SweepCounts(v)) = H[k]
  <2>1. k \in 1..Len(H) /\ H[start] <= H[k]
    BY <1>1, <1>a
  <2>2. H[k] \in SweepCounts(v)
    BY <1>1, <1>2, <1>4, <2>1
  <2>3. \A n \in SweepCounts(v) : H[k] <= n
    <3> SUFFICES ASSUME NEW n \in SweepCounts(v) PROVE H[k] <= n
      OBVIOUS
    <3>1. PICK j \in start..Len(H) : n = H[j] /\ Ordered(v, H[j])
      BY <1>3
    <3>2. k <= j
      BY <1>1, <1>a, <1>4, <3>1
    <3> QED BY <1>1, <1>a, <3>1, <3>2
  <2>4. SweepCounts(v) \subseteq Nat
    BY <1>1, <1>2
  <2> QED BY <2>2, <2>3, <2>4, LeastIs
<1>5. ASSUME \A i \in start..Len(H) : ~Ordered(v, H[i]) PROVE SweepCounts(v) = {}
  BY <1>3, <1>5
<1> QED BY <1>4, <1>5 DEF H

\* What di_ds_sweep writes of a victim, and of the first n.
Swept(v) == IF SweepCounts(v) = {} THEN <<>> ELSE <<[vic |-> v, hc |-> Least(SweepCounts(v))]>>
SweptTo(n) == FlattenSeq([k \in 1..n |-> Swept(Victims[k])])

\* One victim more adds its line, if it has one.
LEMMA SweptUnfolds ==
  ASSUME NEW k \in Nat
  PROVE  /\ SweptTo(0) = << >>
         /\ k < Len(Victims) => SweptTo(k + 1) = SweptTo(k) \o Swept(Victims[k + 1])
         /\ k <= Len(Victims) => SweptTo(k) \in Seq([vic : VictimSet, hc : Nat])
<1> DEFINE n == Len(Victims)
           parts == [i \in 1..n |-> Swept(Victims[i])]
<1>1. n \in Nat /\ \A i \in 1..n : Victims[i] \in VictimSet
  BY VictimFacts
<1>2. ASSUME NEW v \in VictimSet PROVE Swept(v) \in Seq([vic : VictimSet, hc : Nat])
  <2>1. CASE SweepCounts(v) = {}
    <3>1. Swept(v) = << >>
      BY <2>1 DEF Swept
    <3> QED BY <3>1
  <2>2. CASE SweepCounts(v) # {}
    <3>1. SweepCounts(v) \subseteq Nat
      BY DoubleInOrder DEF SweepCounts, DoubleSided
    <3>2. PICK m \in SweepCounts(v) : \A y \in SweepCounts(v) : m <= y
      BY <2>2, <3>1, LeastNumber
    <3>3. Least(SweepCounts(v)) = m /\ m \in Nat
      BY <3>1, <3>2, LeastIs
    <3>4. Swept(v) = <<[vic |-> v, hc |-> m]>>
      BY <2>2, <3>3 DEF Swept
    <3> QED BY <3>3, <3>4
  <2> QED BY <2>1, <2>2
<1>3. PICK R : R = [vic : VictimSet, hc : Nat] /\ parts \in [1..n -> Seq(R)]
  BY <1>1, <1>2
<1>4. ASSUME NEW m \in Nat, m <= n PROVE SweptTo(m) = UpTo(parts, m)
  <2>1. [i \in 1..m |-> parts[i]] = [i \in 1..m |-> Swept(Victims[i])]
    BY <1>1, <1>4
  <2> QED BY <2>1, Zenon DEF SweptTo, UpTo
<1> HIDE DEF n, parts
<1>a. n \in Nat /\ parts \in [1..n -> Seq(R)]
  BY <1>1, <1>3
<1>b. /\ UpTo(parts, 0) = << >>
      /\ \A i \in Nat : /\ i <= n => UpTo(parts, i) \in Seq(R)
                        /\ i < n => UpTo(parts, i + 1) = UpTo(parts, i) \o parts[i + 1]
  BY <1>a, UpToUnfolds
<1>5. SweptTo(0) = << >>
  <2>1. UpTo(parts, 0) = << >>
    BY <1>b
  <2> QED BY <1>1, <1>4, <2>1
<1>6. ASSUME k < n PROVE SweptTo(k + 1) = SweptTo(k) \o Swept(Victims[k + 1])
  <2>1. k <= n /\ k + 1 <= n /\ k + 1 \in Nat /\ k + 1 \in 1..n
    BY <1>1, <1>6
  <2>2. parts[k + 1] = Swept(Victims[k + 1])
    BY <2>1 DEF parts
  <2>3. UpTo(parts, k + 1) = UpTo(parts, k) \o parts[k + 1]
    BY <1>6, <1>b
  <2> QED BY <1>4, <2>1, <2>2, <2>3
<1>7. ASSUME k <= n PROVE SweptTo(k) \in Seq([vic : VictimSet, hc : Nat])
  <2>1. UpTo(parts, k) \in Seq(R)
    BY <1>7, <1>b
  <2> QED BY <1>3, <1>4, <1>7, <2>1
<1> QED BY <1>5, <1>6, <1>7 DEF n

\* The counts from the start on are not in order so far, and bers has the latest flips.
Sweeping(v, start) ==
  /\ count \in start..(Len(DoubleSided) + 1)
  /\ start = 0 => count = 0
  /\ start # 0 => \A i \in start..(count - 1) : ~Ordered(v, DoubleSided[i])
  /\ \A p \in 1..2 :
       bers[p] = IF count = start THEN 0 ELSE Latest(v, Patterns[p], DoubleSided[count - 1])

\* The lines are the ones of the victims passed, and the present one is swept in order.
SweepInv ==
  Mapped /\ script = "sweep" /\ phase = "loop" =>
    /\ at \in 1..(Len(Victims) + 1)
    /\ results = SweptTo(at - 1)
    /\ at <= Len(Victims) => Sweeping(Victims[at], StartOf(at))

\* The next victim begins with its own start and nothing in bers.
LEMMA NextVictim ==
  ASSUME Base, UNCHANGED <<chip, files, anti_rows>>,
         at' \in 1..(Len(Victims) + 1), count' = StartOf(at'), bers' = <<0, 0>>
  PROVE  at' <= Len(Victims) => Sweeping(Victims[at], StartOf(at))'
<1> SUFFICES ASSUME at' <= Len(Victims) PROVE Sweeping(Victims[at], StartOf(at))'
  OBVIOUS
<1>1. at' \in 1..Len(Victims)
  BY VictimFacts
<1>2. StartOf(at') \in 0..Len(DoubleSided) /\ Len(DoubleSided) \in Nat
  BY <1>1, StartFacts, DoubleInOrder
<1>3. StartOf(at)' = StartOf(at')
  BY DEF StartOf, HcfOf
<1>4. count' = StartOf(at)' /\ count' \in Nat /\ count' <= Len(DoubleSided)
  BY <1>2, <1>3
<1>5. \A i \in count'..(count' - 1) : FALSE
  BY <1>4
<1>6. \A p \in 1..2 : bers'[p] = 0
  OBVIOUS
<1> QED BY <1>2, <1>4, <1>5, <1>6 DEF Sweeping

\* Each round sets bers for its count; a count in order, or the last, ends the victim.
LEMMA SweepStep ==
  ASSUME Base, SweepInv, [Next]_vars
  PROVE  SweepInv'
<1>1. /\ UNCHANGED <<chip, mapping>> /\ chip \in Chips
      /\ files'["ds_hcf"] = files["ds_hcf"] /\ Steps("sweep")
  BY StepOf, ScriptFacts DEF Base
<1>2. Mapped' <=> Mapped
  BY <1>1 DEF Mapped
<1> SUFFICES ASSUME Mapped, script' = "sweep", phase' = "loop"
             PROVE  /\ at' \in 1..(Len(Victims) + 1)
                    /\ results' = SweptTo(at - 1)'
                    /\ at' <= Len(Victims) => Sweeping(Victims[at], StartOf(at))'
  BY <1>2 DEF SweepInv
<1>3. script = "sweep" /\ phase = "loop" =>
        /\ at \in 1..(Len(Victims) + 1)
        /\ results = SweptTo(at - 1)
        /\ at <= Len(Victims) => Sweeping(Victims[at], StartOf(at))
  BY DEF SweepInv
<1>4. anti_rows' = anti_rows => SweptTo(at - 1)' = SweptTo(at' - 1)
  BY <1>1 DEF SweptTo, Swept, SweepCounts, HcfOf, Matches, Latest, Flipped, From, FlipsAt
<1>5. Len(Victims) \in Nat /\ Len(DoubleSided) \in Nat
  BY VictimFacts, DoubleInOrder
<1>6. CASE SweepRound
  <2>1. /\ script = "sweep" /\ phase = "loop" /\ at <= Len(Victims) /\ mapping \in Known
        /\ count \in 1..Len(DoubleSided) /\ UNCHANGED <<anti_rows, files>>
    BY <1>6, CasesTyped DEF SweepRound, InLoop, DoubleSided
  <2>2. PICK k \in 1..Len(Victims) : k = at
    BY <1>3, <1>5, <2>1
  <2>3. PICK v \in VictimSet : v = Victims[k] /\ v = Cases("sweep")[k].vic
    BY CasesTyped
  <2>4. PICK n \in Count : n = DoubleSided[count] /\ n \in Nat
    BY <2>1, DoubleInOrder
  <2>5. PICK start : start = StartOf(k)
    OBVIOUS
  <2>6. Sweeping(v, start)
    BY <1>3, <2>1, <2>2, <2>3, <2>5
  <2>7. /\ start \in 1..Len(DoubleSided) /\ DoubleSided[start] = Least(HcfOf(v))
        /\ start <= count
    <3>1. start # 0
      BY <2>1, <2>6 DEF Sweeping
    <3>2. start \in 1..Len(DoubleSided) /\ DoubleSided[start] = Least(HcfOf(v))
      BY <1>3, <2>1, <2>3, <2>5, <3>1, StartFacts
    <3> QED BY <1>5, <2>6, <3>2 DEF Sweeping
  <2> DEFINE d1 == Round(dram, v, Patterns[1], "Double", n)
             d2 == Round(d1, v, Patterns[2], "Double", n)
             f1 == Flips(d1, v, Patterns[1])
             f2 == Flips(d2, v, Patterns[2])
             b  == <<IF f1 > 0 THEN f1 ELSE bers[1], IF f2 > 0 THEN f2 ELSE bers[2]>>
  <2>8. IF Matches(v, b)
        THEN /\ results' = Append(results, [vic |-> v, hc |-> n])
             /\ at' = at + 1 /\ count' = StartOf(at + 1) /\ bers' = <<0, 0>>
        ELSE /\ count' = count + 1 /\ bers' = b
             /\ UNCHANGED <<results, at>>
    BY <1>6, <2>2, <2>3, <2>4 DEF SweepRound, DoubleSided
  <2>9. /\ f1 = FlipsAt("sweep", Double(v, Patterns[1]), n)
        /\ f2 = FlipsAt("sweep", Double(v, Patterns[2]), n)
    <3>1. Patterns[1] \in Pattern /\ Patterns[2] \in Pattern /\ "Double" \in Hammer
      BY Assumed DEF Pattern, Hammer
    <3> QED BY <2>1, <3>1, RoundFlips DEF FlipsAt, Double
  <2> HIDE DEF f1, f2
  <2>10. b = <<Latest(v, Patterns[1], n), Latest(v, Patterns[2], n)>>
    <3>1. count \in start..Len(DoubleSided)
      BY <1>5, <2>1, <2>7
    <3>2. ASSUME NEW p \in 1..2, NEW f, f = FlipsAt("sweep", Double(v, Patterns[p]), n)
          PROVE  Latest(v, Patterns[p], n) = IF f > 0 THEN f ELSE bers[p]
      <4>1. Latest(v, Patterns[p], n) =
              IF f > 0 THEN f ELSE IF count = start THEN 0 ELSE Latest(v, Patterns[p], DoubleSided[count - 1])
        BY <2>4, <2>7, <3>1, <3>2, BersFollow
      <4>2. bers[p] = IF count = start THEN 0 ELSE Latest(v, Patterns[p], DoubleSided[count - 1])
        BY <2>6 DEF Sweeping
      <4> QED BY <4>1, <4>2
    <3>3. 1 \in 1..2 /\ 2 \in 1..2
      OBVIOUS
    <3> QED BY <2>9, <3>2, <3>3
  <2> HIDE DEF b
  <2>11. Ordered(v, n) <=> Matches(v, b)
    BY <2>10 DEF Ordered
  <2>12. \A i \in start..(count - 1) : ~Ordered(v, DoubleSided[i])
    BY <2>6, <2>7 DEF Sweeping
  <2>13. CASE Matches(v, b)
    <3>1. /\ results' = Append(results, [vic |-> v, hc |-> n])
          /\ at' = k + 1 /\ count' = StartOf(k + 1) /\ bers' = <<0, 0>>
      BY <2>2, <2>8, <2>13
    <3>2. SweepCounts(v) # {} /\ Least(SweepCounts(v)) = n
      <4>1. count \in start..Len(DoubleSided)
        BY <1>5, <2>1, <2>7
      <4> QED BY <2>4, <2>7, <2>11, <2>12, <2>13, <4>1, SweepCountsAre
    <3>3. Swept(v) = <<[vic |-> v, hc |-> n]>>
      BY <3>2 DEF Swept
    <3>4. SweptTo(k) = SweptTo(k - 1) \o Swept(v) /\ SweptTo(k - 1) \in Seq([vic : VictimSet, hc : Nat])
      <4>1. PICK j \in Nat : j = k - 1 /\ j + 1 = k /\ j < Len(Victims) /\ j <= Len(Victims)
        BY <1>5
      <4> QED BY <2>3, <4>1, SweptUnfolds
    <3>5. results' = SweptTo(k)
      <4>1. results = SweptTo(k - 1)
        BY <1>3, <2>1, <2>2
      <4> QED BY <3>1, <3>3, <3>4, <4>1
    <3>6. at' - 1 = k /\ at' \in 1..(Len(Victims) + 1)
      BY <1>5, <3>1
    <3>7. at' <= Len(Victims) => Sweeping(Victims[at], StartOf(at))'
      BY <1>1, <1>3, <2>1, <3>1, <3>6, NextVictim
    <3> QED BY <1>3, <1>4, <2>1, <3>5, <3>6, <3>7
  <2>14. CASE ~Matches(v, b)
    <3>1. count' = count + 1 /\ bers' = b /\ UNCHANGED <<results, at>>
      BY <2>8, <2>14
    <3>2. StartOf(at)' = start /\ Victims[at]' = v
      <4>1. StartOf(at)' = StartOf(at)
        BY <2>1, <3>1 DEF StartOf, HcfOf
      <4>2. Victims[at]' = Victims[at]
        BY <3>1
      <4> QED BY <2>2, <2>3, <2>5, <4>1, <4>2
    <3>3. \A m : Ordered(v, m)' <=> Ordered(v, m)
      BY <1>1, <2>1 DEF Ordered, Matches, Latest, Flipped, From, HcfOf, FlipsAt
    <3>4. \A i \in start..count : ~Ordered(v, DoubleSided[i])
      BY <1>5, <2>1, <2>4, <2>7, <2>11, <2>12, <2>14
    <3>5. /\ count' \in start..(Len(DoubleSided) + 1) /\ count' - 1 = count /\ count' # start
          /\ start # 0
      BY <1>5, <2>1, <2>7, <3>1
    <3>6. \A p \in 1..2 : bers'[p] = Latest(v, Patterns[p], n)'
      <4>1. \A p : Latest(v, Patterns[p], n)' = Latest(v, Patterns[p], n)
        BY <1>1, <2>1 DEF Latest, Flipped, From, HcfOf, FlipsAt
      <4>2. 1..2 = {1, 2}
        OBVIOUS
      <4> QED BY <2>10, <3>1, <4>1, <4>2
    <3>7. Sweeping(Victims[at], StartOf(at))'
      BY <2>4, <3>2, <3>3, <3>4, <3>5, <3>6 DEF Sweeping
    <3> QED BY <1>3, <1>4, <2>1, <3>1, <3>7
  <2> QED BY <2>13, <2>14
<1>7. CASE SweepNext
  <2>1. /\ script = "sweep" /\ phase = "loop" /\ at <= Len(Victims) /\ count > Len(DoubleSided)
        /\ UNCHANGED <<anti_rows, files, results>>
        /\ at' = at + 1 /\ count' = StartOf(at + 1) /\ bers' = <<0, 0>>
    BY <1>7, CasesTyped DEF SweepNext, InLoop, DoubleSided
  <2>2. PICK k \in 1..Len(Victims) : k = at
    BY <1>3, <1>5, <2>1
  <2>3. PICK v \in VictimSet : v = Victims[k]
    BY CasesTyped
  <2>4. PICK start : start = StartOf(k)
    OBVIOUS
  <2>5. Sweeping(v, start)
    BY <1>3, <2>1, <2>2, <2>3, <2>4
  <2>6. start # 0
    BY <1>5, <2>1, <2>5 DEF Sweeping
  <2>7. start \in 1..Len(DoubleSided) /\ DoubleSided[start] = Least(HcfOf(v))
    BY <1>3, <2>1, <2>3, <2>4, <2>6, StartFacts
  <2>8. count - 1 = Len(DoubleSided)
    BY <1>5, <2>1, <2>5, <2>7 DEF Sweeping
  <2>9. Swept(v) = << >>
    <3>1. \A i \in start..Len(DoubleSided) : ~Ordered(v, DoubleSided[i])
      BY <2>5, <2>6, <2>8 DEF Sweeping
    <3> QED BY <2>7, <3>1, SweepCountsAre DEF Swept
  <2>10. SweptTo(k) = SweptTo(k - 1) \o Swept(v) /\ SweptTo(k - 1) \in Seq([vic : VictimSet, hc : Nat])
    <3>1. PICK j \in Nat : j = k - 1 /\ j + 1 = k /\ j < Len(Victims) /\ j <= Len(Victims)
      BY <1>5
    <3> QED BY <2>3, <3>1, SweptUnfolds
  <2>11. results' = SweptTo(k)
    <3>1. results = SweptTo(k - 1)
      BY <1>3, <2>1, <2>2
    <3> QED BY <2>1, <2>9, <2>10, <3>1, ConcatEmptySeq
  <2>12. at' - 1 = k /\ at' \in 1..(Len(Victims) + 1)
    BY <1>5, <2>1, <2>2
  <2>13. at' <= Len(Victims) => Sweeping(Victims[at], StartOf(at))'
    BY <1>1, <1>3, <2>1, <2>12, NextVictim
  <2> QED BY <1>3, <1>4, <2>1, <2>11, <2>12, <2>13
<1>8. CASE script = "sweep" /\ ReadInputs
  <2>1. /\ at = 1 /\ at' = 1 /\ results' = <<>> /\ files' = files /\ bers' = <<0, 0>>
        /\ count' = StartOf(1)
    BY <1>8 DEF ReadInputs, Base
  <2>2. SweptTo(at - 1)' = <<>>
    <3>1. SweptTo(at - 1)' = FlattenSeq([i \in 1..(at' - 1) |-> Swept(Victims[i])'])
      BY DEF SweptTo
    <3>2. [i \in 1..(at' - 1) |-> Swept(Victims[i])'] = << >> /\ << >> \in Seq(Seq(Nat))
      BY <2>1
    <3> QED BY <3>1, <3>2, Flattened
  <2>3. ASSUME at' <= Len(Victims)
        PROVE  Sweeping(Victims[at], StartOf(at))'
    <3>1. at' \in 1..Len(Victims)
      BY <1>5, <2>1, <2>3
    <3>2. StartOf(at') \in 0..Len(DoubleSided)
      BY <1>5, <2>1, <3>1, StartFacts
    <3>3. StartOf(at)' = StartOf(at')
      BY <2>1 DEF StartOf, HcfOf
    <3>4. count' = StartOf(at)' /\ count' \in Nat /\ count' <= Len(DoubleSided)
      BY <1>5, <2>1, <3>2, <3>3
    <3>5. \A i \in count'..(count' - 1) : FALSE
      BY <3>4
    <3>6. \A p \in 1..2 : bers'[p] = 0
      BY <2>1
    <3> QED BY <1>5, <3>4, <3>5, <3>6 DEF Sweeping
  <2> QED BY <1>5, <2>1, <2>2, <2>3
<1>9. CASE script = "sweep" /\ (WriteCsv \/ WriteTorn)
  BY <1>9 DEF WriteCsv, WriteTorn, Exit
<1>10. CASE Elsewhere("sweep")
  <2>1. UNCHANGED <<script, phase, at, count, bers, anti_rows, results>>
    BY <1>10 DEF Elsewhere, position
  <2>2. at <= Len(Victims) => Sweeping(Victims[at], StartOf(at))'
    <3>1. StartOf(at)' = StartOf(at)
      BY <1>1, <2>1 DEF StartOf, HcfOf
    <3>2. \A v, m : Ordered(v, m)' <=> Ordered(v, m)
      BY <1>1, <2>1 DEF Ordered, Matches, Latest, Flipped, From, HcfOf, FlipsAt
    <3>3. \A v, p, m : Latest(v, p, m)' = Latest(v, p, m)
      BY <1>1 DEF Latest, Flipped, From, HcfOf, FlipsAt
    <3> QED BY <1>3, <2>1, <3>1, <3>2, <3>3 DEF Sweeping
  <2> QED BY <1>1, <1>3, <1>4, <2>1, <2>2
<1> QED BY <1>1, <1>6, <1>7, <1>8, <1>9, <1>10 DEF Steps, Rounds

-----------------------------------------------------------------------------
(* di_retention, and what di_ds_sweep takes from its file *)

\* The wait that the anti-cell rows are taken from.
Longest == Waits[Len(Waits)]

LEMMA WaitFacts ==
  /\ Len(Waits) \in Nat /\ Longest \in Nat /\ Len(Waits) \in 1..Len(Waits)
  /\ \A w \in 1..Len(Waits) : Waits[w] \in Nat
<1>1. Waits \in Seq(Nat) /\ Waits # << >>
  BY WaitAssumption
<1>2. Len(Waits) \in Nat /\ Len(Waits) # 0 /\ \A w \in 1..Len(Waits) : Waits[w] \in Nat
  BY <1>1
<1> QED BY <1>2 DEF Longest

\* di_retention takes each pattern and each wait, zeros before ones.
LEMMA WaitsCovered ==
  /\ Cases("retention") = EachWait
  /\ EachWait \in Seq([pattern : Pattern, wait : Nat])
  /\ Range(EachWait) = {[pattern |-> p, wait |-> Waits[w]] : p \in Pattern, w \in 1..Len(Waits)}
  /\ \A k \in 1..Len(EachWait) : EachWait[k].pattern = IF k <= Len(Waits) THEN "00000000" ELSE "FFFFFFFF"
<1> DEFINE Of(p) == [w \in 1..Len(Waits) |-> [pattern |-> Patterns[3 - p], wait |-> Waits[w]]]
           seqs  == [p \in 1..2 |-> Of(p)]
<1>1. Cases("retention") = EachWait /\ EachWait = FlattenSeq(seqs)
  BY DEF Cases, EachWait
<1>2. ASSUME NEW p \in 1..2
      PROVE  /\ Of(p) \in Seq([pattern : Pattern, wait : Nat])
             /\ Range(Of(p)) = {[pattern |-> Patterns[3 - p], wait |-> Waits[w]] : w \in 1..Len(Waits)}
  <2>1. p = 1 \/ p = 2
    OBVIOUS
  <2>2. Patterns[3 - p] \in Pattern
    BY <2>1, Assumed DEF Pattern
  <2>3. Of(p) \in [1..Len(Waits) -> [pattern : Pattern, wait : Nat]]
    BY <2>2, WaitFacts
  <2>4. Of(p) \in Seq([pattern : Pattern, wait : Nat])
    BY <2>3, WaitFacts
  <2> QED BY <2>4 DEF Range
<1> HIDE DEF Of
<1>3. seqs \in Seq(Seq([pattern : Pattern, wait : Nat])) /\ Len(seqs) = 2
  BY <1>2
<1>4. EachWait \in Seq([pattern : Pattern, wait : Nat])
  BY <1>1, <1>3, Flattened
<1>5. Range(EachWait) = UNION {Range(seqs[p]) : p \in 1..2}
  <2>1. PICK R : R = [pattern : Pattern, wait : Nat] /\ seqs \in Seq(Seq(R))
    BY <1>3
  <2> HIDE DEF seqs
  <2> QED BY <1>1, <1>3, <2>1, RangeOfFlattened
<1>6. Range(EachWait) = Range(Of(1)) \union Range(Of(2))
  <2>1. 1..2 = {1, 2} /\ seqs[1] = Of(1) /\ seqs[2] = Of(2)
    OBVIOUS
  <2> HIDE DEF seqs
  <2> QED BY <1>5, <2>1
<1>7. /\ Range(Of(1)) = {[pattern |-> "00000000", wait |-> Waits[w]] : w \in 1..Len(Waits)}
      /\ Range(Of(2)) = {[pattern |-> "FFFFFFFF", wait |-> Waits[w]] : w \in 1..Len(Waits)}
  <2>1. 1 \in 1..2 /\ 2 \in 1..2 /\ Patterns[3 - 1] = "00000000" /\ Patterns[3 - 2] = "FFFFFFFF"
    BY Assumed
  <2> QED BY <1>2, <2>1
<1>8. \A k \in 1..Len(EachWait) : EachWait[k].pattern = IF k <= Len(Waits) THEN "00000000" ELSE "FFFFFFFF"
  <2>1. PICK R : R = [pattern : Pattern, wait : Nat] /\ seqs \in [1..2 -> Seq(R)]
    BY <1>2
  <2>2. /\ seqs[1] = Of(1) /\ seqs[2] = Of(2) /\ Of(1) \in Seq(R) /\ Of(2) \in Seq(R)
        /\ seqs = [i \in 1..2 |-> seqs[i]]
    BY <2>1
  <2> HIDE DEF seqs
  <2>3. EachWait = UpTo(seqs, 2)
    BY <1>1, <2>2 DEF UpTo
  <2>4. /\ UpTo(seqs, 0) = << >>
        /\ \A k \in Nat : k < 2 => UpTo(seqs, k + 1) = UpTo(seqs, k) \o seqs[k + 1]
    <3>1. PICK n \in Nat : n = 2
      OBVIOUS
    <3>2. seqs \in [1..n -> Seq(R)]
      BY <2>1, <3>1
    <3>3. UpTo(seqs, 0) = << >> /\ \A k \in Nat : k < n => UpTo(seqs, k + 1) = UpTo(seqs, k) \o seqs[k + 1]
      BY <3>2, UpToUnfolds
    <3> QED BY <3>1, <3>3
  <2>5. UpTo(seqs, 1) = << >> \o Of(1) /\ UpTo(seqs, 2) = UpTo(seqs, 1) \o Of(2)
    <3>1. 0 \in Nat /\ 1 \in Nat /\ 0 < 2 /\ 1 < 2 /\ 0 + 1 = 1 /\ 1 + 1 = 2
      OBVIOUS
    <3> QED BY <2>2, <2>4, <3>1
  <2>6. << >> \o Of(1) = Of(1)
    BY <2>2, ConcatEmptySeq
  <2>7. EachWait = Of(1) \o Of(2)
    BY <2>3, <2>5, <2>6
  <2>8. /\ Len(Of(1)) = Len(Waits) /\ Len(Of(2)) = Len(Waits)
        /\ \A w \in 1..Len(Waits) : Of(1)[w].pattern = "00000000" /\ Of(2)[w].pattern = "FFFFFFFF"
    <3>1. Patterns[3 - 1] = "00000000" /\ Patterns[3 - 2] = "FFFFFFFF"
      BY Assumed
    <3> QED BY <3>1, WaitFacts DEF Of
  <2> SUFFICES ASSUME NEW k \in 1..Len(EachWait)
               PROVE  EachWait[k].pattern = IF k <= Len(Waits) THEN "00000000" ELSE "FFFFFFFF"
    OBVIOUS
  <2>9. Len(EachWait) = Len(Waits) + Len(Waits) /\ Len(Waits) \in Nat
    <3>1. Len(Of(1) \o Of(2)) = Len(Of(1)) + Len(Of(2))
      BY <2>2, ConcatProperties
    <3> QED BY <2>7, <2>8, <3>1, WaitFacts
  <2>10. CASE k <= Len(Waits)
    <3>1. EachWait[k] = Of(1)[k] /\ k \in 1..Len(Waits)
      BY <2>2, <2>7, <2>8, <2>9, <2>10
    <3> QED BY <2>8, <2>10, <3>1
  <2>11. CASE ~(k <= Len(Waits))
    <3>1. EachWait[k] = Of(2)[k - Len(Waits)] /\ k - Len(Waits) \in 1..Len(Waits)
      BY <2>2, <2>7, <2>8, <2>9, <2>11
    <3> QED BY <2>8, <2>11, <3>1
  <2> QED BY <2>10, <2>11
<1> QED BY <1>1, <1>4, <1>6, <1>7, <1>8 DEF Pattern

\* The lines of di_retention.
Lost == [row : VictimSet, pattern : Pattern, wait : Nat, flips : Nat]

\* The rows that lose bits in one case, and in the first n.
RecordOf(v, c) == [row |-> v, pattern |-> c.pattern, wait |-> c.wait, flips |-> LostAt(v, c.pattern, c.wait)]
LostIn(c)   == {RecordOf(v, c) : v \in {x \in VictimSet : LostAt(x, c.pattern, c.wait) > 0}}
LostUpTo(n) == UNION {LostIn(EachWait[i]) : i \in 1..n}

\* The lines of the zeros come before those of the ones.
OnesLast(rows) ==
  \A i, j \in 1..Len(rows) : i <= j /\ rows[i].pattern = "FFFFFFFF" => rows[j].pattern = "FFFFFFFF"

\* The anti-cell rows of the chip, as di_ds_sweep takes them.
AntiCells ==
  IF \E v \in VictimSet, k \in 1..Len(Waits) : LostAt(v, "FFFFFFFF", Waits[k]) > 0
  THEN {v \in VictimSet : LostAt(v, "00000000", Longest) >= 10} ELSE {}

\* Each case passed has left a line for every row that lost bits in it, and nothing else.
RetentionInv ==
  /\ script = "retention" /\ phase = "loop" =>
       /\ at \in 1..(Len(EachWait) + 1)
       /\ results \in Seq(Lost) /\ Range(results) = LostUpTo(at - 1) /\ OnesLast(results)
  /\ files["retention"].kind = "whole" =>
       /\ files["retention"].rows \in Seq(Lost)
       /\ Range(files["retention"].rows) = LostUpTo(Len(EachWait))
  /\ files["retention"].kind = "torn" => AntiRows(files["retention"].rows) \in {AntiCells, {}}

\* What one round adds.
LEMMA RoundLoses ==
  ASSUME NEW i \in 1..Len(EachWait), NEW c, c = EachWait[i], chip \in Chips,
         NEW added, added = FlattenSeq([k \in 1..Len(Victims) |->
                       IF LostAt(Victims[k], c.pattern, c.wait) > 0 THEN <<RecordOf(Victims[k], c)>> ELSE <<>>])
  PROVE  added \in Seq(Lost) /\ Range(added) = LostIn(c)
<1> DEFINE row(k) == RecordOf(Victims[k], c)
           leaks(k) == LostAt(Victims[k], c.pattern, c.wait) > 0
           part(k) == IF leaks(k) THEN <<row(k)>> ELSE <<>>
           seqs == [k \in 1..Len(Victims) |-> part(k)]
<1>0. c.pattern \in Pattern /\ \E w \in 1..Len(Waits) : c.wait = Waits[w]
  <2>1. c \in Range(EachWait)
    BY WaitsCovered DEF Range
  <2> QED BY <2>1, WaitsCovered
<1>1. Len(Victims) \in Nat /\ \A k \in 1..Len(Victims) : Victims[k] \in VictimSet
  BY VictimFacts
<1>2. ASSUME NEW k \in 1..Len(Victims)
      PROVE  part(k) \in Seq(Lost) /\ Range(part(k)) = IF leaks(k) THEN {row(k)} ELSE {}
  <2>1. row(k) \in Lost
    <3>1. LostAt(Victims[k], c.pattern, c.wait) \in Nat /\ c.wait \in Nat
      BY <1>0, <1>1, ChipFacts, WaitFacts
    <3> QED BY <1>0, <1>1, <3>1 DEF Lost, RecordOf
  <2> HIDE DEF row, leaks
  <2>2. CASE leaks(k)
    <3>1. part(k) = <<row(k)>>
      BY <2>2
    <3>2. <<row(k)>> \in Seq(Lost) /\ DOMAIN <<row(k)>> = {1} /\ <<row(k)>>[1] = row(k)
      BY <2>1
    <3> QED BY <2>2, <3>1, <3>2 DEF Range
  <2>3. CASE ~leaks(k)
    <3>1. part(k) = << >>
      BY <2>3
    <3>2. << >> \in Seq(Lost) /\ Range(<< >>) = {}
      BY DEF Range
    <3> QED BY <2>3, <3>1, <3>2
  <2> QED BY <2>2, <2>3
<1>3. added = FlattenSeq(seqs)
  OBVIOUS
<1> HIDE DEF part
<1>4. seqs \in Seq(Seq(Lost)) /\ Len(seqs) = Len(Victims) /\ \A k \in 1..Len(Victims) : seqs[k] = part(k)
  <2>1. \A k \in 1..Len(Victims) : part(k) \in Seq(Lost)
    BY <1>2
  <2> QED BY <1>1, <2>1
<1> HIDE DEF seqs
<1>5. added \in Seq(Lost)
  BY <1>3, <1>4, Flattened
<1>6. Range(added) = UNION {Range(seqs[k]) : k \in 1..Len(Victims)}
  BY <1>3, <1>4, RangeOfFlattened
<1>7. Range(added) = {row(k) : k \in {j \in 1..Len(Victims) : leaks(j)}}
  <2> HIDE DEF row, leaks
  <2>1. ASSUME NEW x \in Range(added) PROVE x \in {row(k) : k \in {j \in 1..Len(Victims) : leaks(j)}}
    <3>1. PICK k \in 1..Len(Victims) : x \in Range(seqs[k])
      BY <1>6
    <3>2. x \in IF leaks(k) THEN {row(k)} ELSE {}
      BY <1>2, <1>4, <3>1
    <3> QED BY <3>2
  <2>2. ASSUME NEW k \in 1..Len(Victims), leaks(k) PROVE row(k) \in Range(added)
    <3>1. row(k) \in Range(seqs[k])
      BY <1>2, <1>4, <2>2
    <3> QED BY <1>6, <3>1
  <2> QED BY <2>1, <2>2
<1>8. VictimSet = {Victims[k] : k \in 1..Len(Victims)}
  BY DEF VictimSet
<1>9. LostIn(c) = {row(k) : k \in {j \in 1..Len(Victims) : leaks(j)}}
  BY <1>8 DEF LostIn
<1> QED BY <1>5, <1>7, <1>9

\* The zeros come before the ones also when a round adds its lines.
LEMMA OnesStayLast ==
  ASSUME NEW k \in 1..Len(EachWait), NEW rows \in Seq(Lost), Range(rows) = LostUpTo(k - 1), OnesLast(rows),
         NEW added \in Seq(Lost), Range(added) = LostIn(EachWait[k])
  PROVE  OnesLast(rows \o added)
<1> DEFINE all == rows \o added
           m   == Len(rows)
           n   == Len(added)
<1>1. m \in Nat /\ n \in Nat /\ Len(all) = m + n /\ k \in Nat /\ Len(Waits) \in Nat /\ Len(EachWait) \in Nat
  BY WaitFacts, WaitsCovered
<1>2. \A i \in 1..m : all[i] = rows[i] /\ rows[i] \in LostUpTo(k - 1)
  BY DEF Range
<1>3. \A i \in 1..(m + n) : i > m => all[i] \in LostIn(EachWait[k])
  <2> SUFFICES ASSUME NEW i \in 1..(m + n), i > m PROVE all[i] \in LostIn(EachWait[k])
    OBVIOUS
  <2>1. all[i] = added[i - m] /\ i - m \in 1..n
    BY <1>1
  <2> QED BY <2>1 DEF Range
<1>4. \A r \in LostIn(EachWait[k]) : r.pattern = EachWait[k].pattern
  BY DEF LostIn, RecordOf
<1>5. ASSUME k <= Len(Waits), NEW r \in LostUpTo(k - 1) PROVE r.pattern # "FFFFFFFF"
  <2>1. PICK i \in 1..(k - 1) : r \in LostIn(EachWait[i])
    BY DEF LostUpTo
  <2>2. i \in 1..Len(EachWait) /\ i <= Len(Waits)
    BY <1>1, <1>5
  <2>3. r.pattern = EachWait[i].pattern
    BY <2>1 DEF LostIn, RecordOf
  <2> QED BY <2>2, <2>3, WaitsCovered
<1> SUFFICES ASSUME NEW i \in 1..Len(all), NEW j \in 1..Len(all), i <= j, all[i].pattern = "FFFFFFFF"
             PROVE  all[j].pattern = "FFFFFFFF"
  BY DEF OnesLast
<1> HIDE DEF all, m, n
<1>6. CASE j > m
  <2>1. all[j].pattern = EachWait[k].pattern
    BY <1>1, <1>3, <1>4, <1>6
  <2>2. CASE i > m
    BY <1>1, <1>3, <1>4, <2>1, <2>2
  <2>3. CASE ~(i > m)
    <3>1. i \in 1..m
      BY <1>1, <2>3
    <3>2. ~(k <= Len(Waits))
      BY <1>2, <1>5, <3>1
    <3> QED BY <2>1, <3>2, WaitsCovered
  <2> QED BY <2>2, <2>3
<1>7. CASE ~(j > m)
  <2>1. i \in 1..m /\ j \in 1..m
    BY <1>1, <1>7
  <2> QED BY <1>2, <2>1 DEF OnesLast, m
<1> QED BY <1>6, <1>7

\* What di_ds_sweep takes from a complete file: the rows that lose 10 zeros or more in the longest
\* wait, but none if the file has no FFFFFFFF, since the pattern is then read as the number 0.
LEMMA AntiRowsAre ==
  ASSUME chip \in Chips, NEW rows \in Seq(Lost), Range(rows) = LostUpTo(Len(EachWait))
  PROVE  AntiRows(rows) = AntiCells
<1>1. Range(rows) = {rows[k] : k \in 1..Len(rows)}
  <2>1. DOMAIN rows = 1..Len(rows)
    OBVIOUS
  <2> QED BY <2>1 DEF Range
<1>2. ASSUME NEW r \in Range(rows)
      PROVE  \E v \in VictimSet, p \in Pattern, w \in 1..Len(Waits) :
               /\ LostAt(v, p, Waits[w]) > 0
               /\ r = [row |-> v, pattern |-> p, wait |-> Waits[w], flips |-> LostAt(v, p, Waits[w])]
  <2>1. PICK i \in 1..Len(EachWait) : r \in LostIn(EachWait[i])
    BY <1>2 DEF LostUpTo
  <2>2. PICK p \in Pattern, w \in 1..Len(Waits) : EachWait[i] = [pattern |-> p, wait |-> Waits[w]]
    <3>1. EachWait[i] \in Range(EachWait)
      BY WaitsCovered DEF Range
    <3> QED BY <3>1, WaitsCovered
  <2>3. PICK c : c = EachWait[i] /\ c.pattern = p /\ c.wait = Waits[w]
    BY <2>2
  <2>4. r \in LostIn(c)
    BY <2>1, <2>3
  <2> QED BY <2>3, <2>4 DEF LostIn, RecordOf
<1>3. ASSUME NEW v \in VictimSet, NEW p \in Pattern, NEW w \in 1..Len(Waits), LostAt(v, p, Waits[w]) > 0
      PROVE  [row |-> v, pattern |-> p, wait |-> Waits[w], flips |-> LostAt(v, p, Waits[w])] \in Range(rows)
  <2>1. [pattern |-> p, wait |-> Waits[w]] \in Range(EachWait)
    BY WaitsCovered
  <2>2. PICK i \in 1..Len(EachWait) : EachWait[i] = [pattern |-> p, wait |-> Waits[w]]
    <3>1. DOMAIN EachWait = 1..Len(EachWait)
      BY WaitsCovered
    <3> QED BY <2>1, <3>1 DEF Range
  <2>3. PICK c : c = EachWait[i] /\ c.pattern = p /\ c.wait = Waits[w]
    BY <2>2
  <2>4. RecordOf(v, c) \in LostIn(c)
    BY <1>3, <2>3 DEF LostIn
  <2> QED BY <2>3, <2>4 DEF LostUpTo, RecordOf
<1> DEFINE SomeOnes == \E v \in VictimSet, k \in 1..Len(Waits) : LostAt(v, "FFFFFFFF", Waits[k]) > 0
<1>0. "FFFFFFFF" \in Pattern /\ "00000000" \in Pattern
  BY DEF Pattern
<1>4. (\E k \in 1..Len(rows) : rows[k].pattern = "FFFFFFFF") <=> SomeOnes
  <2>1. ASSUME NEW k \in 1..Len(rows), rows[k].pattern = "FFFFFFFF" PROVE SomeOnes
    <3>1. rows[k] \in Range(rows)
      BY <1>1
    <3>2. PICK v \in VictimSet, p \in Pattern, w \in 1..Len(Waits) :
            /\ LostAt(v, p, Waits[w]) > 0
            /\ rows[k] = [row |-> v, pattern |-> p, wait |-> Waits[w], flips |-> LostAt(v, p, Waits[w])]
      BY <1>2, <3>1
    <3>3. p = "FFFFFFFF"
      BY <2>1, <3>2
    <3> QED BY <3>2, <3>3
  <2>2. ASSUME NEW v \in VictimSet, NEW w \in 1..Len(Waits), LostAt(v, "FFFFFFFF", Waits[w]) > 0
        PROVE  \E k \in 1..Len(rows) : rows[k].pattern = "FFFFFFFF"
    <3>1. PICK r \in Range(rows) : r.pattern = "FFFFFFFF"
      BY <1>0, <1>3, <2>2
    <3> QED BY <1>1, <3>1
  <2> QED BY <2>1, <2>2
<1> HIDE DEF SomeOnes
<1>5. AntiRows(rows) = {r.row : r \in {x \in Range(rows) : /\ ReadPattern(rows, x.pattern) = "00000000"
                                                          /\ x.wait = Longest /\ x.flips >= 10}}
  BY <1>1 DEF AntiRows, Longest
<1>a. AntiCells = IF SomeOnes THEN {v \in VictimSet : LostAt(v, "00000000", Longest) >= 10} ELSE {}
  BY DEF AntiCells, SomeOnes
<1>6. CASE SomeOnes
  <2>1. \A p : ReadPattern(rows, p) = p
    BY <1>4, <1>6 DEF ReadPattern
  <2>2. ASSUME NEW v \in AntiRows(rows) PROVE v \in VictimSet /\ LostAt(v, "00000000", Longest) >= 10
    <3>1. PICK r \in Range(rows) : r.row = v /\ r.pattern = "00000000" /\ r.wait = Longest /\ r.flips >= 10
      BY <1>5, <2>1
    <3> QED BY <1>2, <3>1
  <2>3. ASSUME NEW v \in VictimSet, LostAt(v, "00000000", Longest) >= 10 PROVE v \in AntiRows(rows)
    <3>1. PICK w \in 1..Len(Waits) : Longest = Waits[w]
      BY WaitFacts DEF Longest
    <3>2. LostAt(v, "00000000", Longest) \in Nat
      BY <1>0, <3>1, ChipFacts
    <3>3. LostAt(v, "00000000", Waits[w]) > 0
      BY <2>3, <3>1, <3>2
    <3>4. PICK r \in Range(rows) : r = [row |-> v, pattern |-> "00000000", wait |-> Waits[w],
                                        flips |-> LostAt(v, "00000000", Waits[w])]
      BY <1>0, <1>3, <3>3
    <3>5. ReadPattern(rows, r.pattern) = "00000000" /\ r.wait = Longest /\ r.flips >= 10 /\ r.row = v
      BY <2>1, <2>3, <3>1, <3>4
    <3> QED BY <1>5, <3>5
  <2> QED BY <1>6, <1>a, <2>2, <2>3
<1>7. CASE ~SomeOnes
  <2>1. \A p : ReadPattern(rows, p) = "0"
    BY <1>4, <1>7 DEF ReadPattern
  <2> QED BY <1>5, <1>7, <1>a, <2>1
<1> QED BY <1>6, <1>7

\* From some of its first lines di_ds_sweep takes all anti-cell rows, if a line of the ones is
\* among them, or none.
LEMMA AntiRowsCut ==
  ASSUME NEW rows \in Seq(Lost), OnesLast(rows), NEW k \in 1..Len(rows), NEW cut \in {0, 1, 10}
  PROVE  AntiRows(CutAt(rows, k, cut)) \in {AntiRows(rows), {}}
<1> DEFINE t == CutAt(rows, k, cut)
<1>1. Len(rows) \in Nat /\ k \in Nat /\ k > 0 /\ rows[k] \in Lost
  BY ElementOfSeq
<1>2. /\ Len(t) = k
      /\ \A i \in 1..(k - 1) : t[i] = rows[i]
      /\ t[k].pattern = rows[k].pattern
  <2> DEFINE x == IF cut = 0 THEN 0 ELSE rows[k].flips \div cut
             last == [rows[k] EXCEPT !.flips = x]
             s == SubSeq(rows, 1, k - 1)
  <2>1. last.pattern = rows[k].pattern
    <3> HIDE DEF x
    <3> QED BY <1>1 DEF Lost
  <2>2. s \in Seq(Lost) /\ Len(s) = k - 1 /\ \A i \in 1..(k - 1) : s[i] = rows[i]
    BY <1>1
  <2>3. t = Append(s, last)
    BY DEF CutAt
  <2> HIDE DEF s, last
  <2>4. Len(t) = k /\ t[k] = last /\ \A i \in 1..(k - 1) : t[i] = s[i]
    <3> HIDE DEF t
    <3> QED BY <1>1, <2>2, <2>3
  <2> QED BY <2>1, <2>2, <2>4
<1> HIDE DEF t
<1>3. CASE ~ \E j \in 1..Len(t) : t[j].pattern = "FFFFFFFF"
  <2>1. \A p : ReadPattern(t, p) = "0"
    BY <1>3 DEF ReadPattern
  <2>2. AntiRows(t) = {}
    BY <2>1 DEF AntiRows
  <2> QED BY <2>2 DEF t
<1>4. ASSUME NEW j \in 1..k, t[j].pattern = "FFFFFFFF" PROVE AntiRows(t) = AntiRows(rows)
  <2>1. j \in 1..Len(rows) /\ rows[j].pattern = "FFFFFFFF"
    BY <1>1, <1>2, <1>4
  <2>2. (\A p : ReadPattern(t, p) = p) /\ (\A p : ReadPattern(rows, p) = p)
    BY <1>2, <1>4, <2>1 DEF ReadPattern
  <2>3. \A i \in 1..Len(rows) : j <= i => rows[i].pattern = "FFFFFFFF"
    BY <2>1 DEF OnesLast
  <2>4. t[k].pattern = "FFFFFFFF"
    BY <1>1, <1>2, <2>3
  <2> DEFINE takes(s, i) == s[i].pattern = "00000000" /\ s[i].wait = Longest /\ s[i].flips >= 10
  <2>5. /\ AntiRows(t) = {t[i].row : i \in {n \in 1..k : takes(t, n)}}
        /\ AntiRows(rows) = {rows[i].row : i \in {n \in 1..Len(rows) : takes(rows, n)}}
    BY <1>2, <2>2 DEF AntiRows, Longest
  <2>6. ASSUME NEW i \in 1..k, takes(t, i)
        PROVE  i \in 1..Len(rows) /\ takes(rows, i) /\ t[i] = rows[i]
    <3>1. i # k
      BY <2>4, <2>6
    <3>2. i \in 1..(k - 1) /\ i \in 1..Len(rows)
      BY <1>1, <3>1
    <3> QED BY <1>2, <2>6, <3>2
  <2>7. ASSUME NEW i \in 1..Len(rows), takes(rows, i)
        PROVE  i \in 1..k /\ takes(t, i) /\ t[i] = rows[i]
    <3>1. ~(j <= i)
      BY <2>3, <2>7
    <3>2. i \in 1..(k - 1) /\ i \in 1..k
      BY <1>1, <3>1
    <3> QED BY <1>2, <2>7, <3>2
  <2> HIDE DEF takes
  <2> QED BY <2>5, <2>6, <2>7
<1> QED BY <1>2, <1>3, <1>4 DEF t

\* Each round adds what its wait loses, and to_csv writes all of it, or some.
LEMMA RetentionStep ==
  ASSUME Base, RetentionInv, [Next]_vars
  PROVE  RetentionInv'
<1>0. "retention" \in ScriptSet
  BY ScriptFacts
<1>1. UNCHANGED <<chip, mapping>> /\ chip \in Chips /\ Steps("retention")
  BY <1>0, StepOf DEF Base
<1>2. /\ LostUpTo(at - 1)' = LostUpTo(at' - 1) /\ LostUpTo(Len(EachWait))' = LostUpTo(Len(EachWait))
      /\ AntiCells' = AntiCells
  BY <1>1 DEF LostUpTo, LostIn, RecordOf, LostAt, AntiCells
<1> SUFFICES /\ script' = "retention" /\ phase' = "loop" =>
                  /\ at' \in 1..(Len(EachWait) + 1)
                  /\ results' \in Seq(Lost) /\ Range(results') = LostUpTo(at' - 1) /\ OnesLast(results')
             /\ files'["retention"].kind = "whole" =>
                  /\ files'["retention"].rows \in Seq(Lost)
                  /\ Range(files'["retention"].rows) = LostUpTo(Len(EachWait))
             /\ files'["retention"].kind = "torn" => AntiRows(files'["retention"].rows) \in {AntiCells, {}}
  BY <1>2 DEF RetentionInv, OnesLast, AntiRows, ReadPattern
<1>3. PICK W : W = [pattern : Pattern, wait : Nat] /\ EachWait \in Seq(W)
  BY WaitsCovered
<1>4. Len(EachWait) \in Nat /\ \A i \in 1..Len(EachWait) : EachWait[i] \in W
  BY <1>3, ElementOfSeq, LenProperties, Zenon
<1>5. CASE RetentionRound
  <2>1. /\ script = "retention" /\ phase = "loop" /\ at <= Len(EachWait)
        /\ at' = at + 1 /\ UNCHANGED <<script, files>>
    BY <1>5, WaitsCovered DEF RetentionRound, InLoop
  <2>2. PICK k \in 1..Len(EachWait) : k = at
    BY <1>4, <2>1 DEF RetentionInv
  <2>3. PICK c \in W : c = EachWait[k]
    BY <1>4
  <2> DEFINE added == FlattenSeq([j \in 1..Len(Victims) |->
                        IF LostAt(Victims[j], c.pattern, c.wait) > 0 THEN <<RecordOf(Victims[j], c)>> ELSE <<>>])
  <2>4. results' = results \o added
    BY <1>5, <2>2, <2>3, WaitsCovered DEF RetentionRound, RecordOf, LostAt
  <2>5. added \in Seq(Lost) /\ Range(added) = LostIn(c)
    BY <1>1, <2>3, RoundLoses
  <2> HIDE DEF added
  <2>6. results \in Seq(Lost) /\ Range(results) = LostUpTo(k - 1) /\ OnesLast(results)
    BY <2>1, <2>2 DEF RetentionInv
  <2>7. results' \in Seq(Lost) /\ Range(results') = LostUpTo(k - 1) \union LostIn(c)
    <3>1. results \o added \in Seq(Lost)
      BY <2>5, <2>6, ConcatProperties
    <3>2. Range(results \o added) = Range(results) \union Range(added)
      BY <2>5, <2>6, RangeOfConcat
    <3> QED BY <2>4, <2>5, <2>6, <3>1, <3>2
  <2>8. LostUpTo(k) = LostUpTo(k - 1) \union LostIn(c)
    <3>1. 1..k = (1..(k - 1)) \union {k}
      BY <1>4
    <3> QED BY <2>3, <3>1 DEF LostUpTo
  <2>9. at' - 1 = k /\ at' \in 1..(Len(EachWait) + 1)
    BY <1>4, <2>1, <2>2
  <2>10. OnesLast(results')
    BY <2>3, <2>4, <2>5, <2>6, OnesStayLast
  <2> QED BY <2>1, <2>7, <2>8, <2>9, <2>10 DEF RetentionInv
<1>6. CASE script = "retention" /\ ReadInputs
  <2>1. at' = 1 /\ results' = <<>> /\ files' = files
    BY <1>6 DEF ReadInputs, Base
  <2>2. LostUpTo(0) = {} /\ Range(<<>>) = {} /\ <<>> \in Seq(Lost) /\ OnesLast(<<>>)
    BY DEF LostUpTo, Range, OnesLast
  <2>3. at' - 1 = 0 /\ at' \in 1..(Len(EachWait) + 1)
    BY <1>4, <2>1
  <2> QED BY <2>1, <2>2, <2>3 DEF RetentionInv
<1>a. ASSUME script = "retention", phase = "loop", at > Len(EachWait)
      PROVE  results \in Seq(Lost) /\ Range(results) = LostUpTo(Len(EachWait)) /\ OnesLast(results)
  <2>1. at - 1 = Len(EachWait)
    BY <1>4, <1>a DEF RetentionInv
  <2> QED BY <1>a, <2>1 DEF RetentionInv
<1>7. CASE script = "retention" /\ WriteCsv
  <2>1. /\ phase = "loop" /\ at > Len(EachWait) /\ phase' = "written"
        /\ files'["retention"].kind = "whole" /\ files'["retention"].rows = results
    BY <1>0, <1>7, WrittenWhole, WaitsCovered
  <2> QED BY <1>7, <1>a, <2>1
<1>8. CASE script = "retention" /\ WriteTorn
  <2>1. /\ phase = "loop" /\ at > Len(EachWait) /\ phase' = "start"
        /\ files'["retention"] \in TornFiles("retention", results) /\ files'["retention"].kind # "whole"
    BY <1>0, <1>8, WrittenTorn, WaitsCovered
  <2>2. results \in Seq(Lost) /\ AntiRows(results) = AntiCells /\ OnesLast(results)
    BY <1>1, <1>8, <1>a, <2>1, AntiRowsAre
  <2>3. PICK f : f = files'["retention"]
    OBVIOUS
  <2>4. CASE f = File("unreadable", << >>)
    BY <2>1, <2>3, <2>4 DEF File
  <2>5. CASE f = File("torn", << >>)
    <3>1. f.rows = << >> /\ AntiRows(<< >>) = {}
      BY <2>5 DEF File, AntiRows
    <3> QED BY <2>1, <2>3, <3>1
  <2>6. CASE \E k \in 1..Len(results), cut \in {0, 1, 10} : f = File("torn", CutAt(results, k, cut))
    <3>1. PICK k \in 1..Len(results), cut \in {0, 1, 10} : f.rows = CutAt(results, k, cut)
      BY <2>6 DEF File
    <3>2. AntiRows(CutAt(results, k, cut)) \in {AntiRows(results), {}}
      BY <2>2, AntiRowsCut
    <3>3. AntiRows(f.rows) \in {AntiCells, {}}
      BY <2>2, <3>1, <3>2
    <3> QED BY <2>1, <2>3, <3>3
  <2> QED BY <2>1, <2>3, <2>4, <2>5, <2>6 DEF TornFiles
<1>9. CASE Elsewhere("retention")
  BY <1>9 DEF Elsewhere, position, RetentionInv
<1> QED BY <1>1, <1>5, <1>6, <1>7, <1>8, <1>9 DEF Steps, Rounds

\* In its loop di_ds_sweep has what it read from the file of di_retention.
AntiInv ==
  script = "sweep" /\ phase = "loop" /\ Anti => anti_rows = AntiRows(files["retention"].rows)

\* The file of di_retention stays as it was read while di_ds_sweep runs.
LEMMA AntiStep ==
  ASSUME Base, AntiInv, [Next]_vars
  PROVE  AntiInv'
<1> SUFFICES ASSUME script' = "sweep", phase' = "loop", Anti
             PROVE  anti_rows' = AntiRows(files'["retention"].rows)
  BY DEF AntiInv, AntiRows, ReadPattern
<1>0. Steps("sweep") /\ Steps("retention")
  BY StepOf, ScriptFacts
<1>1. CASE SweepRound \/ SweepNext
  <2>1. script = "sweep" /\ phase = "loop" /\ UNCHANGED <<anti_rows, files>>
    BY <1>1 DEF SweepRound, SweepNext, InLoop
  <2> QED BY <2>1 DEF AntiInv
<1>2. CASE script = "sweep" /\ ReadInputs
  BY <1>2 DEF ReadInputs
<1>3. CASE script = "sweep" /\ (WriteCsv \/ WriteTorn)
  BY <1>3 DEF WriteCsv, WriteTorn, Exit
<1>4. CASE Elsewhere("sweep")
  <2>1. UNCHANGED <<script, phase, anti_rows>> /\ script = "sweep"
    BY <1>4 DEF Elsewhere, position
  <2>2. ~RetentionRound
    BY <2>1 DEF RetentionRound, InLoop
  <2>3. files'["retention"] = files["retention"]
    BY <1>0, <2>1, <2>2 DEF Steps, Rounds, Elsewhere
  <2> QED BY <2>1, <2>3 DEF AntiInv
<1> QED BY <1>0, <1>1, <1>2, <1>3, <1>4 DEF Steps, Rounds

-----------------------------------------------------------------------------
(* The results *)

\* What every script has in its memory and what it has left in its file.
ResultsInv == Base /\ HcfInv /\ RpInv /\ SweepInv /\ RetentionInv /\ AntiInv

LEMMA ResultsInit == Init => ResultsInv
<1> SUFFICES ASSUME Init PROVE ResultsInv
  OBVIOUS
<1>1. Base
  BY BaseInit
<1>2. \A s \in FileNames : files[s].kind \in {"none", "before"}
  BY DataAssumption DEF Init
<1>3. \A s \in {"retention", "hcf", "rp"} : files[s].kind \notin {"whole", "torn"}
  BY <1>2, ScriptFacts
<1>4. phase = "start"
  BY DEF Init
<1> QED BY <1>1, <1>3, <1>4 DEF ResultsInv, HcfInv, RpInv, SweepInv, RetentionInv, AntiInv

LEMMA ResultsStep == ResultsInv /\ [Next]_vars => ResultsInv'
BY BaseStep, HcfStep, RpStep, SweepStep, RetentionStep, AntiStep DEF ResultsInv

LEMMA ResultsHold == Spec => []ResultsInv
BY ResultsInit, ResultsStep, PTL DEF Spec

\* The results that di_rd_hc writes whole have for each victim, pattern and hammer the first of
\* its counts at which that hammer flips a bit, and no line where none does, whatever it would
\* flip at the counts above, which the script never tries (di_rd_hc.py:74-139).
THEOREM HcfFound == Spec => []HcfExact
<1>1. ResultsInv => HcfExact
  BY DEF ResultsInv, HcfInv, HcfExact, InLoop
<1> QED BY <1>1, ResultsHold, PTL

\* The results that di_rd_rp writes whole have one line for each case, in the order of the
\* loops, with the flips that the case's own activations cause: what earlier rounds left in the
\* rows has no part in it (di_rd_rp.py:65-108).
THEOREM RpComplete == Spec => []RpExact
<1>1. ResultsInv => RpExact
  BY DEF ResultsInv, RpInv, RpExact, RowsOf, RowOf
<1> QED BY <1>1, ResultsHold, PTL

\* di_ds_sweep has for each victim it has passed the first count, from its entry in ds_hcf on, by
\* which both patterns have flipped bits, as many or more in the one its cells are charged in, and
\* no line where there is none.  What is compared are the flips of each pattern at the last
\* count that flipped any, not at the same one: the chip may flip fewer bits, or none, at a
\* higher count (di_ds_sweep.py:80-122).
THEOREM SweepFound == Spec => []SweepExact
<1>1. ResultsInv => SweepExact
  BY DEF ResultsInv, SweepInv, SweepExact, SweptTo, Swept
<1> QED BY <1>1, ResultsHold, PTL

\* di_ds_sweep's anti-cell rows are the addresses whose rows lose 10 zeros or more in the longest
\* wait, if di_retention left its whole file; without a line of FFFFFFFF in that file, or in the
\* half of it that a failure left, there are none (di_ds_sweep.py:65-72, which has the pattern
\* column as numbers then).
THEOREM AntiRowsTaken == Spec => []AntiRowsExact
<1>1. ResultsInv => AntiRowsExact
  <2> SUFFICES ASSUME ResultsInv, script = "sweep", phase = "loop", Anti
               PROVE  /\ files["retention"].kind = "whole" => anti_rows = AntiCells
                      /\ files["retention"].kind = "torn" => anti_rows \in {AntiCells, {}}
    BY DEF AntiRowsExact, AntiCells, Longest
  <2>1. anti_rows = AntiRows(files["retention"].rows) /\ chip \in Chips
    BY DEF ResultsInv, AntiInv, Base
  <2>2. CASE files["retention"].kind = "whole"
    <3>1. /\ files["retention"].rows \in Seq(Lost)
          /\ Range(files["retention"].rows) = LostUpTo(Len(EachWait))
      BY <2>2 DEF ResultsInv, RetentionInv
    <3> QED BY <2>1, <2>2, <3>1, AntiRowsAre
  <2>3. CASE files["retention"].kind = "torn"
    BY <2>1, <2>3 DEF ResultsInv, RetentionInv
  <2> QED BY <2>2, <2>3
<1> QED BY <1>1, ResultsHold, PTL
=============================================================================
