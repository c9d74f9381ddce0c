------------------------------ MODULE Campaign ------------------------------
(***************************************************************************)
(* A characterization campaign: python/run.sh runs the five scripts of     *)
(* src/python one after the other.  Each opens the platform, loops over    *)
(* victim rows, data patterns and hammer counts, executes a program that   *)
(* writes, disturbs and reads a victim in each round, collects its results *)
(* in memory and writes them to two files at its end.  A later script may  *)
(* read what an earlier one, or an earlier campaign, wrote.                *)
(*                                                                         *)
(* The chip is external: activations of the rows on both sides of a victim *)
(* since it was written may flip its bits, at each count as they like.     *)
(***************************************************************************)
EXTENDS RowMapping, FiniteSets, Sequences, SequencesExt

CONSTANTS
  Chips,        \* [mapping, flips, lost]: the chips under test
  Victims,      \* physical rows, as a sequence in the order of the loops
  Hammers,      \* per type of hammer: the sequence of its counts
  RpCount,      \* the one count of di_rd_rp
  Arguments,    \* mappings the user may have put into run.sh; NotGiven as it is
  Waits,        \* t_wait_list of di_retention; the last is the 4096 s of di_ds_sweep
  Data,         \* what ../data may hold at first: the repository has the files of a campaign
  Anti,         \* whether the module is axmicr02, which has anti-cells
  MayFail,      \* whether the platform, or a write, may fail
  MaxActivations \* bound: activations of a row that is never written are counted up to here

VARIABLES
  chip,      \* the chip
  mapping,   \* second argument of the scripts, or NotGiven
  script,    \* the script that run.sh runs, or Over
  phase,     \* of its process: start, connected, loop, written, or dumped
  at,        \* number of the case of the loops
  count,     \* number of the hammer count in the innermost loop
  found,     \* found
  bers,      \* bers of di_ds_sweep
  anti_rows, \* anti_rows of di_ds_sweep
  results,   \* results
  files,     \* the .csv files of ../data
  dumps,     \* its .gz files: "none", "torn" or "whole"
  exits,     \* how each script exited
  dram       \* per row: its data and the activations of its neighbours since written

position == <<at, count, found, bers, anti_rows, results>>
vars == <<chip, mapping, script, phase, position, files, dumps, exits, dram>>

Scripts == <<"retention", "hcf", "ber", "rp", "sweep">>
Over    == "over"
Types   == <<"Upper", "Lower", "Double">>
NotGiven == "not given"

\* hcf of all patterns and hammers; ds_hcf is what di_ds_sweep reads.  A file is "whole"
\* or "torn" when this campaign wrote it, "unreadable" when not even its header is whole.
ScriptSet  == {Scripts[k] : k \in 1..Len(Scripts)}
FileNames  == ScriptSet \cup {"ds_hcf"}
File(k, r) == [kind |-> k, rows |-> r]
NoFile     == File("none", <<>>)
Measuring  == {"hcf", "rp", "sweep"}
Readable   == {"before", "torn", "whole"}

\* vic_data_patterns: the victim is all ones, then all zeros.
Patterns == <<"FFFFFFFF", "00000000">>

VictimSet == {Victims[k] : k \in 1..Len(Victims)}

ASSUME VictimAssumption ==
  /\ Victims \in Seq(Row) /\ \A v \in VictimSet : {v - 1, v + 1} \subseteq Row
  /\ Cardinality(VictimSet) = Len(Victims)

\* The counts of run.sh's scripts are below the bound on activations.
Count == 1..MaxActivations

\* They go up: range(1000, 500000, 1000) and its likes.
ASSUME HammerAssumption ==
  /\ MaxActivations \in Nat
  /\ \A t \in {Types[k] : k \in 1..Len(Types)} :
       /\ Hammers[t] \in Seq(Count)
       /\ \A i, j \in 1..Len(Hammers[t]) : i < j => Hammers[t][i] < Hammers[t][j]
  /\ RpCount \in Count

ASSUME WaitAssumption == Waits \in Seq(Nat) /\ Waits # <<>>

\* flips: of a victim with a pattern, in a script (di_rd_rp keeps rows open longer), after so
\* many activations by a hammer; none when nothing disturbs it.  lost: of a row after a wait.
ASSUME ChipAssumption ==
  \A c \in Chips, v \in VictimSet, p \in {Patterns[1], Patterns[2]} :
    /\ \A s \in Measuring, t \in {Types[k] : k \in 1..Len(Types)} :
         /\ c.flips[<<s, v, p, t, 0>>] = 0
         /\ \A n \in Count : c.flips[<<s, v, p, t, n>>] \in Nat
    /\ \A k \in 1..Len(Waits) : c.lost[<<map_row(v, c.mapping), p, Waits[k]>>] \in Nat

RetentionRow == [row : Nat, pattern : {Patterns[1], Patterns[2]}, wait : Nat, flips : Nat]

\* ds_hcf has counts that di_rd_hc's double-sided hammer comes by (di_rd_hc.py:120).
ASSUME DataAssumption ==
  \A d \in Data :
    /\ DOMAIN d = FileNames
    /\ \A f \in FileNames : d[f].kind \in {"none", "before"}
    /\ d["retention"].rows \in Seq(RetentionRow)
    /\ d["ds_hcf"].rows \in Seq([vic : Nat, hc : Range(Hammers["Double"])])

-----------------------------------------------------------------------------
(* The chip *)

Tracked == UNION {{v - 1, v, v + 1} : v \in VictimSet}

\* The flipped bits of a victim; a neighbour disturbs it that holds the opposite data.
Opposes(d, v, r, p) == d[v].data = p /\ d[r].data # p
Flips(d, v, p) ==
  LET above == IF Opposes(d, v, v + 1, p) THEN d[v].above ELSE 0
      below == IF Opposes(d, v, v - 1, p) THEN d[v].below ELSE 0
      hits  == IF above > 0 /\ below > 0 THEN "Double" ELSE IF above > 0 THEN "Upper" ELSE "Lower"
  IN  chip.flips[<<script, v, p, hits, IF above > below THEN above ELSE below>>]

\* The row of the chip that a script means when it computes the logical row of r.
Reached(r) == map_row(map_row(r, mapping), chip.mapping)

Other(p) == IF p = Patterns[1] THEN Patterns[2] ELSE Patterns[1]

Aggressors(v, type) ==
  CASE type = "Upper"  -> {v + 1}
    [] type = "Lower"  -> {v - 1}
    [] type = "Double" -> {v + 1, v - 1}

Counted(n) == IF n > MaxActivations THEN MaxActivations ELSE n

\* Mutant: a victim that holds its pattern already is not written again.
RoundUnwritten(d, v, p, type, n) ==
  LET active == {Reached(a) : a \in Aggressors(v, type)}
      Old(r) == IF d[v].data = p THEN d[r] ELSE [data |-> IF r = v THEN p ELSE Other(p), above |-> 0, below |-> 0]
  IN  [r \in Tracked |->
         [data  |-> Old(r).data,
          above |-> Counted(Old(r).above + (IF r + 1 \in active THEN n ELSE 0)),
          below |-> Counted(Old(r).below + (IF r - 1 \in active THEN n ELSE 0))]]

\* One round: init_rows writes the victim and its neighbours, and their activations
\* count from there on; the hammer activates each aggressor n times; read_rows
\* and get_bitflips leave the rows alone.
Round(d, v, p, type, n) ==
  LET written == {Reached(v), Reached(v + 1), Reached(v - 1)}
      active  == {Reached(a) : a \in Aggressors(v, type)}
  IN  [r \in Tracked |->
         [data  |-> IF r = Reached(v) THEN p ELSE IF r \in written THEN Other(p) ELSE d[r].data,
          above |-> Counted((IF r \in written THEN 0 ELSE d[r].above) + (IF r + 1 \in active THEN n ELSE 0)),
          below |-> Counted((IF r \in written THEN 0 ELSE d[r].below) + (IF r - 1 \in active THEN n ELSE 0))]]

-----------------------------------------------------------------------------
(* The loops *)

\* The cases of a script's outer loops, in order.
Products(types) ==
  FlattenSeq([v \in 1..Len(Victims) |-> FlattenSeq([p \in 1..2 |-> [t \in 1..Len(types) |->
    [vic |-> Victims[v], pattern |-> Patterns[p], type |-> types[t]]]])])

AllHammers  == Products(Types)
SingleSided == Products(<<"Upper", "Lower">>)
EachVictim  == [v \in 1..Len(Victims) |-> [vic |-> Victims[v]]]
EachWait    == FlattenSeq([p \in 1..2 |-> [w \in 1..Len(Waits) |->
                 [pattern |-> Patterns[3 - p], wait |-> Waits[w]]]])

Cases(s) ==
  CASE s = "hcf"       -> AllHammers
    [] s = "rp"        -> SingleSided
    [] s = "sweep"     -> EachVictim
    [] s = "retention" -> EachWait

NeedsMapping(s) == s # "retention"

Init ==
  /\ chip \in Chips
  /\ mapping \in Arguments
  /\ script = Scripts[1]
  /\ phase = "start"
  /\ at = 1 /\ count = 1 /\ found = FALSE
  /\ bers = <<0, 0>>
  /\ anti_rows = {}
  /\ results = <<>>
  /\ files \in Data
  /\ dumps = [s \in ScriptSet |-> "none"]
  /\ exits = <<>>
  /\ dram = [r \in Tracked |-> [data |-> Patterns[1], above |-> 0, below |-> 0]]

NextScript(s) ==
  LET k == CHOOSE k \in 1..Len(Scripts) : Scripts[k] = s
  IN  IF k = Len(Scripts) THEN Over ELSE Scripts[k + 1]

\* The process of the script ends and what it has in memory is lost.  run.sh
\* looks at no exit status.
Exit(status) ==
  /\ exits' = Append(exits, status)
  /\ script' = NextScript(script)
  /\ phase' = "start"
  /\ at' = 1 /\ count' = 1 /\ found' = FALSE
  /\ bers' = <<0, 0>>
  /\ anti_rows' = {}
  /\ results' = <<>>
  /\ UNCHANGED <<chip, mapping>>

\* di_rd_ber.py imports smc_scripts, which is not there, and has pyDRAMBender commented out.
ImportsMissing ==
  /\ script = "ber" /\ phase = "start"
  /\ Exit(1)
  /\ UNCHANGED <<files, dumps, dram>>

Starts == script \in ScriptSet \ {"ber"} /\ phase = "start"

\* The user has to give a mapping that map_row knows: argparse ends the script
\* without one, and init_rows gets None for the rows with another.
ArgumentsMissing ==
  /\ Starts /\ NeedsMapping(script) /\ mapping = NotGiven
  /\ Exit(2)
  /\ UNCHANGED <<files, dumps, dram>>

\* DDR4(0, "XDMA"): the constructor throws when the board cannot be opened.
Connect ==
  /\ Starts /\ (NeedsMapping(script) => mapping # NotGiven)
  /\ phase' = "connected"
  /\ UNCHANGED <<chip, mapping, script, position, files, dumps, exits, dram>>

ConnectFails ==
  /\ MayFail
  /\ Starts /\ (NeedsMapping(script) => mapping # NotGiven)
  /\ Exit(1)
  /\ UNCHANGED <<files, dumps, dram>>

\* Mutant: what the file says is a string.
ReadPatternAsIs(rows, p) == p

\* pd.read_csv makes numbers of a column that holds nothing but numbers: 00000000
\* is then 0, and equal to no string.
ReadPattern(rows, p) == IF \E k \in 1..Len(rows) : rows[k].pattern = "FFFFFFFF" THEN p ELSE "0"

\* Rows as di_retention counts them, by their addresses; di_ds_sweep looks for its victims,
\* numbered as they lie in the chip, among them.
AntiRows(rows) ==
  {rows[k].row : k \in {n \in 1..Len(rows) : /\ ReadPattern(rows, rows[n].pattern) = "00000000"
                                           /\ rows[n].wait = Waits[Len(Waits)]
                                           /\ rows[n].flips >= 10}}

\* Row of victim v in min_hcf_df; at the start of its loop the counts begin there.
HcfOf(v)    == {files["ds_hcf"].rows[k].hc : k \in {n \in 1..Len(files["ds_hcf"].rows) : files["ds_hcf"].rows[n].vic = v}}
Least(S)    == CHOOSE n \in S : \A m \in S : n <= m
StartOf(k)  == IF k > Len(Victims) THEN 1
               ELSE IF HcfOf(Victims[k]) = {} THEN 0
               ELSE CHOOSE n \in 1..Len(Hammers["Double"]) : Hammers["Double"][n] = Least(HcfOf(Victims[k]))

InputsThere ==
  script = "sweep" => /\ files["ds_hcf"].kind \in Readable
                      /\ Anti => files["retention"].kind \in Readable

ReadInputs ==
  /\ phase = "connected" /\ InputsThere
  /\ phase' = "loop"
  /\ anti_rows' = IF script = "sweep" /\ Anti THEN AntiRows(files["retention"].rows) ELSE {}
  /\ count' = IF script = "sweep" THEN StartOf(1) ELSE 1
  /\ UNCHANGED <<chip, mapping, script, at, found, bers, results, files, dumps, exits, dram>>

\* FileNotFoundError, EmptyDataError, or a KeyError for a column of a cut header.
InputMissing ==
  /\ phase = "connected" /\ ~InputsThere
  /\ Exit(1)
  /\ UNCHANGED <<files, dumps, dram>>

InLoop(s) == script = s /\ phase = "loop" /\ at <= Len(Cases(s))

\* One round of di_rd_hc: a hammer count, if no earlier one has flipped bits.
HcfRound ==
  /\ InLoop("hcf") /\ mapping \in Known
  /\ LET c == Cases("hcf")[at]
         n == Hammers[c.type][count]
     IN  /\ ~found /\ count <= Len(Hammers[c.type])
         /\ \E d \in {Round(dram, c.vic, c.pattern, c.type, n)} :
              /\ dram' = d
              /\ IF Flips(d, c.vic, c.pattern) > 0
                 THEN found' = TRUE /\ results' = Append(results, [case |-> c, hc |-> n])
                 ELSE UNCHANGED <<found, results>>
         /\ count' = count + 1
  /\ UNCHANGED <<chip, mapping, script, phase, at, bers, anti_rows, files, dumps, exits>>

\* Mutant: found is set to False for each pattern only, not for each hammer.
HcfNextKeepsFound ==
  /\ InLoop("hcf")
  /\ found \/ count > Len(Hammers[Cases("hcf")[at].type])
  /\ at' = at + 1 /\ count' = 1
  /\ found' = (found /\ Cases("hcf")[at].type # "Double")
  /\ UNCHANGED <<chip, mapping, script, phase, bers, anti_rows, results, files, dumps, exits, dram>>

HcfNext ==
  /\ InLoop("hcf")
  /\ found \/ count > Len(Hammers[Cases("hcf")[at].type])
  /\ at' = at + 1 /\ count' = 1 /\ found' = FALSE
  /\ UNCHANGED <<chip, mapping, script, phase, bers, anti_rows, results, files, dumps, exits, dram>>

\* One round of di_rd_rp.
RpRound ==
  /\ InLoop("rp") /\ mapping \in Known
  /\ LET c == Cases("rp")[at]
     IN  \E d \in {Round(dram, c.vic, c.pattern, c.type, RpCount)} :
           /\ dram' = d
           /\ results' = Append(results, [case |-> c, flips |-> Flips(d, c.vic, c.pattern)])
  /\ at' = at + 1
  /\ UNCHANGED <<chip, mapping, script, phase, count, found, bers, anti_rows, files, dumps, exits>>

\* map_row returned None: a TypeError in the first init_rows.
RowUnmapped ==
  /\ phase = "loop" /\ script # "retention" /\ mapping \notin Known
  /\ Exit(1)
  /\ UNCHANGED <<files, dumps, dram>>

\* The comparison of di_ds_sweep: 0 stands for None.
Matches(v, b) ==
  /\ b[1] > 0 /\ b[2] > 0
  /\ IF v \in anti_rows THEN b[2] >= b[1] ELSE b[1] >= b[2]

\* Mutant: the loop goes on with the bers of the victim before.
SweepRoundKeepsBers ==
  /\ InLoop("sweep") /\ mapping \in Known
  /\ count \in 1..Len(Hammers["Double"])
  /\ LET v == Cases("sweep")[at].vic
         n == Hammers["Double"][count]
     IN  \E d1 \in {Round(dram, v, Patterns[1], "Double", n)} : \E d2 \in {Round(d1, v, Patterns[2], "Double", n)} :
         \E b \in {<<IF Flips(d1, v, Patterns[1]) > 0 THEN Flips(d1, v, Patterns[1]) ELSE bers[1],
                     IF Flips(d2, v, Patterns[2]) > 0 THEN Flips(d2, v, Patterns[2]) ELSE bers[2]>>} :
           /\ dram' = d2
           /\ bers' = b
           /\ IF Matches(v, b)
              THEN /\ results' = Append(results, [vic |-> v, hc |-> n])
                   /\ at' = at + 1 /\ count' = StartOf(at + 1)
              ELSE /\ count' = count + 1
                   /\ UNCHANGED <<results, at>>
  /\ UNCHANGED <<chip, mapping, script, phase, found, anti_rows, files, dumps, exits>>

\* One round of di_ds_sweep: both patterns at one count.  A pattern without flips
\* leaves its entry of bers as an earlier count made it.
SweepRound ==
  /\ InLoop("sweep") /\ mapping \in Known
  /\ count \in 1..Len(Hammers["Double"])
  /\ LET v == Cases("sweep")[at].vic
         n == Hammers["Double"][count]
     IN  \E d1 \in {Round(dram, v, Patterns[1], "Double", n)} : \E d2 \in {Round(d1, v, Patterns[2], "Double", n)} :
         \E b \in {<<IF Flips(d1, v, Patterns[1]) > 0 THEN Flips(d1, v, Patterns[1]) ELSE bers[1],
                     IF Flips(d2, v, Patterns[2]) > 0 THEN Flips(d2, v, Patterns[2]) ELSE bers[2]>>} :
           /\ dram' = d2
           /\ IF Matches(v, b)
              THEN /\ results' = Append(results, [vic |-> v, hc |-> n])
                   /\ at' = at + 1 /\ count' = StartOf(at + 1) /\ bers' = <<0, 0>>
              ELSE /\ count' = count + 1 /\ bers' = b
                   /\ UNCHANGED <<results, at>>
  /\ UNCHANGED <<chip, mapping, script, phase, found, anti_rows, files, dumps, exits>>

\* Mutant: the counts begin again for the same victim.
SweepNextSameVictim ==
  /\ InLoop("sweep")
  /\ count > Len(Hammers["Double"])
  /\ count' = StartOf(at) /\ bers' = <<0, 0>>
  /\ UNCHANGED <<chip, mapping, script, phase, at, found, anti_rows, results, files, dumps, exits, dram>>

SweepNext ==
  /\ InLoop("sweep")
  /\ count > Len(Hammers["Double"])
  /\ at' = at + 1 /\ count' = StartOf(at + 1) /\ bers' = <<0, 0>>
  /\ UNCHANGED <<chip, mapping, script, phase, found, anti_rows, results, files, dumps, exits, dram>>

\* The victim is not in ds_hcf: values[0] is an IndexError.
VictimMissing ==
  /\ InLoop("sweep") /\ mapping \in Known /\ count = 0
  /\ Exit(1)
  /\ UNCHANGED <<files, dumps, dram>>

\* One round of di_retention: all rows are written, all rows of the chip refreshed, and
\* all rows read after a while.  It takes the victims' numbers for addresses.
RetentionRound ==
  /\ InLoop("retention")
  /\ LET c == Cases("retention")[at]
         Lost(v)   == chip.lost[<<map_row(v, chip.mapping), c.pattern, c.wait>>]
         Record(v) == [row |-> v, pattern |-> c.pattern, wait |-> c.wait, flips |-> Lost(v)]
     IN  /\ results' = results \o FlattenSeq([k \in 1..Len(Victims) |->
                          IF Lost(Victims[k]) > 0 THEN <<Record(Victims[k])>> ELSE <<>>])
         /\ dram' = [r \in Tracked |->
                       IF r \in {map_row(v, chip.mapping) : v \in VictimSet}
                       THEN [data |-> c.pattern, above |-> 0, below |-> 0] ELSE dram[r]]
  /\ at' = at + 1
  /\ UNCHANGED <<chip, mapping, script, phase, count, found, bers, anti_rows, files, dumps, exits>>

-----------------------------------------------------------------------------
(* The end of a script *)

LoopsDone == script # Over /\ phase = "loop" /\ at > Len(Cases(script))

\* to_csv writes the results,
WriteCsv ==
  /\ LoopsDone
  /\ files' = [files EXCEPT ![script] = File("whole", results)]
  /\ phase' = "written"
  /\ UNCHANGED <<chip, mapping, script, position, dumps, exits, dram>>

\* Mutant: the masks are dumped before the results are written.
DumpFlipsFirst ==
  /\ LoopsDone \/ phase = "written"
  /\ dumps' = [dumps EXCEPT ![script] = "whole"]
  /\ phase' = IF phase = "written" THEN "dumped" ELSE phase
  /\ UNCHANGED <<chip, mapping, script, position, files, exits, dram>>

\* pickle.dump the masks of the flips,
DumpFlips ==
  /\ phase = "written"
  /\ dumps' = [dumps EXCEPT ![script] = "whole"]
  /\ phase' = "dumped"
  /\ UNCHANGED <<chip, mapping, script, position, files, exits, dram>>

\* and p.close() is the last.
Close ==
  /\ phase = "dumped"
  /\ Exit(0)
  /\ UNCHANGED <<files, dumps, dram>>

\* The first rows of r, the last of them with its number of flips whole, cut by a digit, or
\* missing.
CutAt(r, k, cut) ==
  Append(SubSeq(r, 1, k - 1), [r[k] EXCEPT !.flips = IF cut = 0 THEN 0 ELSE @ \div cut])

\* to_csv has opened the file, which empties it, and does not come to its end: what is left
\* is not even a header, or some rows.  Nobody reads the files of the other scripts.
TornFiles(s, r) ==
  {File("torn", <<>>)} \cup
  (IF s # "retention" THEN {}
   ELSE {File("unreadable", <<>>)} \cup
        {File("torn", CutAt(r, k, cut)) : k \in 1..Len(r), cut \in {0, 1, 10}})

WriteTorn ==
  /\ MayFail
  /\ LoopsDone
  /\ \E f \in TornFiles(script, results) : files' = [files EXCEPT ![script] = f]
  /\ Exit(1)
  /\ UNCHANGED <<dumps, dram>>

DumpTorn ==
  /\ MayFail
  /\ phase = "written"
  /\ dumps' = [dumps EXCEPT ![script] = "torn"]
  /\ Exit(1)
  /\ UNCHANGED <<files, dram>>

\* An assertion of the board, an exception: the process is gone.
Fails ==
  /\ MayFail
  /\ phase # "start"
  /\ Exit(1)
  /\ UNCHANGED <<files, dumps, dram>>

Runs == \/ ImportsMissing \/ ArgumentsMissing \/ Connect \/ ReadInputs \/ InputMissing
        \/ HcfRound \/ HcfNext \/ RpRound \/ RowUnmapped
        \/ SweepRound \/ SweepNext \/ VictimMissing \/ RetentionRound
        \/ WriteCsv \/ DumpFlips \/ Close

Next == Runs \/ ConnectFails \/ WriteTorn \/ DumpTorn \/ Fails

Spec == Init /\ [][Next]_vars /\ WF_vars(Runs)

-----------------------------------------------------------------------------
(* Properties *)

\* What a chip shows by itself: the flips of a case at a count of activations.
FlipsAt(s, c, n) == chip.flips[<<s, c.vic, c.pattern, c.type, n>>]

\* The first of the counts at which a case flips bits.
FirstFlip(c) == {n \in Range(Hammers[c.type]) :
                   /\ FlipsAt("hcf", c, n) > 0
                   /\ \A m \in Range(Hammers[c.type]) : m < n => FlipsAt("hcf", c, m) = 0}
HcfOfCases(k) ==
  FlattenSeq([i \in 1..k |-> LET c == Cases("hcf")[i]
                             IN  IF FirstFlip(c) = {} THEN <<>>
                                 ELSE <<[case |-> c, hc |-> CHOOSE n \in FirstFlip(c) : TRUE]>>])

Mapped == mapping = chip.mapping

\* Given the mapping of the chip, the scripts write, hammer and read the physical rows
\* they mean, the neighbours in another block of 8 rows included.
RowsReached == Mapped /\ mapping \in Known => \A r \in Tracked : Reached(r) = r

\* di_rd_hc finds, for each victim, pattern and hammer, the first of its counts at which
\* that hammer flips a bit, and records it once: no round profits from the activations
\* of an earlier one, of another hammer, or of a neighbouring victim's turn, and no search
\* is cut short by the one before.  It takes the right rows through their mapping.
HcfExact ==
  Mapped =>
    /\ InLoop("hcf") => results = HcfOfCases(IF found THEN at ELSE at - 1)
    /\ files["hcf"].kind = "whole" => files["hcf"].rows = HcfOfCases(Len(Cases("hcf")))

\* di_rd_rp has one row for each case, flips or none, and its number of flips is that of
\* its own hammer.
RpExact ==
  Mapped /\ files["rp"].kind = "whole" =>
    files["rp"].rows = [k \in 1..Len(Cases("rp")) |->
      [case |-> Cases("rp")[k], flips |-> FlipsAt("rp", Cases("rp")[k], RpCount)]]

\* What bers holds for a pattern after the round at count n: the flips at the last count, from
\* that of ds_hcf on, at which the pattern flipped any.
Double(v, p)     == [vic |-> v, pattern |-> p, type |-> "Double"]
From(v, n)       == {m \in Range(Hammers["Double"]) : Least(HcfOf(v)) <= m /\ m <= n}
Flipped(v, p, n) == {m \in From(v, n) : FlipsAt("sweep", Double(v, p), m) > 0}
Latest(v, p, n)  ==
  IF Flipped(v, p, n) = {} THEN 0
  ELSE FlipsAt("sweep", Double(v, p), CHOOSE m \in Flipped(v, p, n) : \A k \in Flipped(v, p, n) : k <= m)

SweepCounts(v) == {n \in Range(Hammers["Double"]) :
                     /\ Least(HcfOf(v)) <= n
                     /\ Matches(v, <<Latest(v, Patterns[1], n), Latest(v, Patterns[2], n)>>)}

\* di_ds_sweep records for each victim the first count, from that of ds_hcf on, by which it
\* has flipped with both patterns and the flips are in the expected order; nothing if there is
\* none.  A pattern that does not flip at a count is compared with its flips at an earlier
\* one (di_ds_sweep.py:108), so the two numbers may be of different counts; but never of
\* another victim.
SweepExact ==
  Mapped /\ script = "sweep" /\ phase = "loop" =>
    results = FlattenSeq([k \in 1..(at - 1) |->
                IF SweepCounts(Victims[k]) = {} THEN <<>>
                ELSE <<[vic |-> Victims[k], hc |-> Least(SweepCounts(Victims[k]))]>>])

LostAt(v, p, w) == chip.lost[<<map_row(v, chip.mapping), p, w>>]

\* The anti-cell rows of axmicr02 are the addresses whose rows lost 10 zeros or more in the
\* longest wait; but without a single row that lost ones in any wait the file's patterns
\* are read as numbers, and no row is taken for an anti-cell row.  Half a file of this
\* campaign gives all of them or none, never some.  (Of an earlier campaign's file this
\* says nothing.)
AntiRowsExact ==
  script = "sweep" /\ phase = "loop" /\ Anti =>
    LET rows == IF \E v \in VictimSet, k \in 1..Len(Waits) : LostAt(v, "FFFFFFFF", Waits[k]) > 0
                THEN {v \in VictimSet : LostAt(v, "00000000", Waits[Len(Waits)]) >= 10} ELSE {}
    IN  /\ files["retention"].kind = "whole" => anti_rows = rows
        /\ files["retention"].kind = "torn"  => anti_rows \in {rows, {}}

\* run.sh goes on whatever fails: at the end each of the five scripts has exited.  One that
\* exited with 0 has left both its files whole; masks are never there, torn or whole,
\* without the whole results they belong to; and a file of an earlier campaign stays as
\* it is until its script has come through all of its loops.
Accounted ==
  /\ \A k \in 1..Len(exits) :
       exits[k] = 0 => files[Scripts[k]].kind = "whole" /\ dumps[Scripts[k]] = "whole"
  /\ \A s \in ScriptSet : dumps[s] # "none" => files[s].kind = "whole"
  /\ \A k \in 1..Len(Scripts) :
       (k > Len(exits) /\ phase \in {"start", "connected", "loop"}) \/ k > Len(exits) + 1
         => files[Scripts[k]].kind \in {"none", "before"}
  /\ script = Over <=> Len(exits) = Len(Scripts)

\* The campaign ends.
CampaignEnds == <>(script = Over)

\* "Run `run_.sh` to perform all characterization experiments. Characterization data
\* will be produced in the `data/` directory" (README.md:74).
AllExperimentsRun == script = Over => \A k \in 1..Len(Scripts) : files[Scripts[k]].kind = "whole"
=============================================================================
