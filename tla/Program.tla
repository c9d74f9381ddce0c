------------------------------ MODULE Program ------------------------------
(***************************************************************************)
(* The program builder of DRAM Bender: class Program of                    *)
(* src/api/program/program.cpp.  A client adds instruction words, DDR      *)
(* commands, labels and branches, in any order, and concludes the program: *)
(* the three passes announce every run of DDR words that reads with an     *)
(* INFO word before it and give every branch its target.                   *)
(*                                                                         *)
(* Builder has the object and what each method makes of it.                *)
(***************************************************************************)
EXTENDS Builder

CONSTANTS
  Labels,       \* names of labels
  Others,       \* programs a client may append, as Program records
  Parsed,       \* programs that smc_parser may have left on disk
  Insts,        \* words for add_inst, besides numbered LIs
  Slots,        \* 4-tuples of DDR commands for add_inst(m1, m2, m3, m4)
  Waits,        \* idle cycles asked for after a command, or alone
  CanDump,      \* whether the client calls dump_registers
  MaxCalls      \* bound: calls a client makes on one program

\* No branch has this target.
NoTarget == "noTarget"

IsInfo(i) == Operation(i) = "INFO"

\* The field of a branch that holds the pc it goes to, which is 0 until the passes run.
TargetOf(i) == IF is_conditional(i) THEN Field(i, BR_TGT, 19) ELSE Field(i, 0, 27)
IsOpen(i)   == is_branch(i) /\ TargetOf(i) = {}

\* A program that was built and not concluded: what a client appends.  INFO words are not
\* for a client to add.
Built(p) ==
  /\ p.program \in Seq(SUBSET (0..63))
  /\ \A k \in 1..Len(p.program) : ~IsInfo(p.program[k])
  /\ \A b \in DOMAIN p.branches : IsOpen(At(p, b))
  /\ p.spc = Len(p.program)
  /\ p.branches \in UNION {[D -> Labels] : D \in SUBSET (0..(p.spc - 1))}
  /\ p.labels \in UNION {[D -> 0..p.spc] : D \in SUBSET Labels}

ASSUME LabelsAssumption == NoTarget \notin Labels

ASSUME OthersAssumption == \A p \in Others \cup Parsed : Built(p)

\* The codes of all DDR commands have their uppermost bit set.
ASSUME WordsAssumption ==
  /\ Insts \subseteq {i \in SUBSET (0..63) : ~IsInfo(i)}
  /\ Slots \subseteq [1..4 -> {m \in SUBSET (0..15) : 15 \in m}]
  /\ Waits \subseteq Nat

VARIABLES
  this,     \* the Program object
  ended,    \* how the process ended: an assertion failed, exit was called
  saved,    \* the instructions save_bin wrote last
  calls     \* calls made so far

\* History: what the client asked for, in its own order.
VARIABLES
  source,   \* [word, tgt, unit]: the words, with the label a branch names
  marks,    \* [label, at, unit]: label is set before source word number at
  stage     \* building, then processed by the passes; reworked if used again

history == <<source, marks, stage>>
vars    == <<this, ended, saved, calls, source, marks, stage>>

-----------------------------------------------------------------------------
(* The client's calls *)

Called == ended = "no" /\ calls < MaxCalls /\ calls' = calls + 1

\* A call that adds to the program.
Adds == Called /\ stage' = IF stage = "building" THEN stage ELSE "reworked"

Words(words, unit) == [k \in 1..Len(words) |-> [word |-> words[k], tgt |-> NoTarget, unit |-> unit]]

\* The words that are in the program although no call wrote them are those of
\* the file it was loaded from, all of one unit.
Contents(p, unit) ==
  [k \in 1..Len(p.program) |->
     [word |-> p.program[k], unit |-> unit,
      tgt |-> IF k - 1 \in DOMAIN p.branches THEN p.branches[k - 1] ELSE NoTarget]]
LabelsOf(p, base, unit) ==
  {[label |-> l, at |-> base + p.labels[l] + 1, unit |-> unit] : l \in DOMAIN p.labels}

\* What Program(fname) reads back.  It leaves dumpRegsCalled uninitialized.
Loads(q) == {[Empty EXCEPT !.program = q.program, !.spc = Len(q.program), !.labels = q.labels,
                           !.branches = q.branches, !.dumpRegsCalled = any] : any \in BOOLEAN}

\* Program() and Program(fname).
Init ==
  /\ this \in {Empty} \cup UNION {Loads(q) : q \in Parsed}
  /\ ended = "no"
  /\ saved = <<>>
  /\ calls = 0
  /\ source = Contents(this, 0)
  /\ marks = LabelsOf(this, 0, 0)
  /\ stage = "building"

AddInst(i) ==
  /\ Adds
  /\ this' = AddWords(this, Pushed(i))
  /\ source' = source \o Words(Pushed(i), 0)
  /\ UNCHANGED <<ended, saved, marks>>

AddInst4(slots) ==
  LET word == pack_mininsts(slots[1], slots[2], slots[3], slots[4])
  IN  /\ Adds
      /\ this' = AddWords(this, <<word>>)
      /\ source' = source \o Words(<<word>>, 0)
      /\ UNCHANGED <<ended, saved, marks>>

\* add_mininst, and add_wait when there is no command.
AddMininst(minis, wait) ==
  /\ Adds
  /\ this' = [this EXCEPT !.minprogram = @ \o minis \o [k \in 1..wait |-> SMC_NOP]]
  /\ UNCHANGED <<ended, saved, source, marks>>

PackMinprogram ==
  LET words == PackedWords(this.minprogram)
  IN  /\ Adds
      /\ this' = [AddWords(this, words) EXCEPT !.minprogram = <<>>]
      /\ source' = source \o Words(words, 0)
      /\ UNCHANGED <<ended, saved, marks>>

AddLabel(name) ==
  /\ Adds
  /\ this' = [this EXCEPT !.labels = Put(@, name, this.spc)]
  /\ marks' = marks \cup {[label |-> name, at |-> Len(source) + 1, unit |-> 0]}
  /\ UNCHANGED <<ended, saved, source>>

AddBranch(word, tgt) ==
  /\ Adds
  /\ this' = AddBranchWord(this, word, tgt)
  /\ source' = Append(source, [word |-> word, tgt |-> tgt, unit |-> 0])
  /\ UNCHANGED <<ended, saved, marks>>

\* The routine writes the wide data register to DRAM, reads it back, and does
\* the same with the sixteen registers.
DumpWords ==
  LET alone(m) == pack_mininsts(m, SMC_NOP, SMC_NOP, SMC_NOP)
      idle(n)  == [k \in 1..n |-> all_nops]
      access(op) == alone(Column(op, 13, 0, 15, 0, 0, 0))
  IN  <<SMC_LI(Bits(15), 13), SMC_LI({}, 14), SMC_LI({}, 15), alone(SMC_PRE(13, 0, 1, 0))>>
        \o idle(3) \o <<alone(SMC_ACT(13, 0, 14, 0, 0))>>
        \o idle(2) \o <<access("WRITE")>> \o idle(3) \o <<access("READ")>>
        \o [i \in 1..16 |-> ArithRR("LDWD", i - 1, i - 1)]
        \o <<access("WRITE")>> \o idle(3) \o <<access("READ")>>
        \o idle(2) \o <<alone(SMC_PRE(13, 0, 1, 0))>>

DumpRegisters ==
  /\ Adds
  /\ ~this.dumpRegsCalled
  /\ this' = [AddWords(this, DumpWords) EXCEPT !.dumpRegsCalled = TRUE]
  /\ source' = source \o Words(DumpWords, 0)
  /\ UNCHANGED <<ended, saved, marks>>

DumpRefused ==
  /\ Called
  /\ this.dumpRegsCalled
  /\ ended' = "exit"
  /\ UNCHANGED <<this, saved, history>>

AddBelow(q) ==
  /\ Adds
  /\ this' = Below(this, q)
  /\ source' = source \o Contents(q, calls')
  /\ marks' = marks \cup LabelsOf(q, Len(source), calls')
  /\ UNCHANGED <<ended, saved>>

\* linear_analysis, insert_generated, preprocess_branches, on p.
RunPasses(p) ==
  LET q == InsertGenerated(LinearAnalysis(p))
  IN  /\ Called
      /\ stage' = IF stage = "building" THEN "processed" ELSE "reworked"
      /\ \/ BranchesAreBranches(q) /\ this' = PreprocessBranches(q) /\ UNCHANGED ended
         \/ ~BranchesAreBranches(q) /\ ended' = "assert" /\ UNCHANGED this

Conclude ==
  /\ RunPasses([AddWords(this, <<SMC_END>>) EXCEPT !.concluded = TRUE])
  /\ source' = source \o Words(<<SMC_END>>, 0)
  /\ UNCHANGED <<saved, marks>>

\* Called by save_coe and save_coe_here, which write what it returns.
GetInstArray ==
  /\ RunPasses(this)
  /\ UNCHANGED <<saved, source, marks>>

\* The first spc instructions of the program.
SaveBin ==
  /\ Called
  /\ saved' = SubSeq(this.program, 1, this.spc)
  /\ UNCHANGED <<this, ended, history>>

\* Registers are arbitrary: the passes look at no register field.  The LIs are
\* told apart by their immediate.
Next ==
  \/ \E i \in {SMC_LI(Bits(Len(source)), 1)} \cup Insts : AddInst(i)
  \/ \E slots \in Slots : AddInst4(slots)
  \/ \E wait \in Waits :
       \/ wait > 0 /\ AddMininst(<<>>, wait)
       \/ AddMininst(<<Column("READ", 7, 0, 6, 0, 0, 0)>>, wait)
  \/ PackMinprogram
  \/ \E name \in Labels : AddLabel(name)
  \/ \E name \in Labels, word \in {SMC_BL(3, 4, 0), SMC_JUMP(0)} : AddBranch(word, name)
  \/ \E q \in Others : AddBelow(q)
  \/ CanDump /\ (DumpRegisters \/ DumpRefused)
  \/ Conclude
  \/ GetInstArray
  \/ SaveBin

Spec == Init /\ [][Next]_vars

-----------------------------------------------------------------------------
(* Properties *)

\* spc is the length of the program, the program is the words that were added,
\* branches holds exactly the pcs of the branches, each with the label it was
\* added with, and no label lies beyond the end.
InStep(p, words) ==
  /\ p.spc = Len(p.program)
  /\ Len(words) = Len(p.program)
  /\ \A k \in 1..Len(words) : p.program[k] = words[k].word
  /\ DOMAIN p.branches = {k - 1 : k \in {n \in 1..Len(words) : words[n].tgt # NoTarget}}
  /\ \A b \in DOMAIN p.branches : p.branches[b] = words[b + 1].tgt
  /\ \A l \in DOMAIN p.labels : p.labels[l] \in 0..p.spc

\* Until the passes run, every call keeps program, spc, branches and labels in
\* step: add_inst with its extra word after a load, pack_minprogram,
\* dump_registers and add_below too.
BuildInv == stage = "building" => InStep(this, source)

\* The positions of the words that were added: of those that are no INFO.
Kept(words) ==
  LET upTo[k \in 0..Len(words)] ==
        IF k = 0 THEN <<>>
        ELSE IF IsInfo(words[k]) THEN upTo[k - 1] ELSE Append(upTo[k - 1], k)
  IN  upTo[Len(words)]

\* The words that were added are all there, in order, and only a branch has gained bits,
\* in the field of its target.
Keeps(words, added) ==
  LET kept == Kept(words)
  IN  /\ Len(kept) = Len(added)
      /\ \A n \in 1..Len(added) :
           LET old == added[n].word
               new == words[kept[n]]
           IN  /\ added[n].tgt = NoTarget => new = old
               /\ old \subseteq new
               /\ new \ old \subseteq (IF is_conditional(old) THEN 8..26 ELSE 0..26)

\* The passes add INFO words and branch targets and change nothing else.
SourceKept == stage = "processed" => Keeps(this.program, source)

\* Where a label set before added word number k is then: before that word, or before its
\* INFO, so that a loop announces the reads of its first run in every iteration.
LabelAt(words, added, k) ==
  LET at == IF k > Len(added) THEN Len(words) + 1 ELSE Kept(words)[k]
  IN  IF at > 1 /\ IsInfo(words[at - 1]) THEN at - 1 ELSE at

\* A branch to a label that was set once goes to the word the label was set before.
Resolves(words, added, set) ==
  \A n \in 1..Len(added), mark \in set :
    /\ added[n].tgt = mark.label
    /\ \A other \in set : other.label = mark.label => other = mark
    => TargetOf(words[Kept(words)[n]]) = Bits(LabelAt(words, added, mark.at) - 1)

\* Inserting INFO words, some before a branch, some before its target and some at it, leaves
\* every branch going where it went.
BranchesResolve == stage = "processed" => Resolves(this.program, source, marks)

\* A run of DDR words goes on over a word that is_sleep takes for a SLEEP.  No encoder makes
\* one: is_sleep compares all bits from 48 on, and SLEEP has bit 62 among them.
GoesOn(i) == is_ddr(i) \/ is_sleep(i)

\* Word number k is in a run.
InRun(words, k) == \E j \in 1..k : is_ddr(words[j]) /\ \A n \in j..k : GoesOn(words[n])

\* The maximal runs that another word ends, and their reads.
Runs(words) ==
  {r \in (1..Len(words)) \X (1..Len(words)) :
     /\ r[1] <= r[2] /\ r[2] < Len(words)
     /\ is_ddr(words[r[1]]) /\ ~InRun(words, r[1] - 1)
     /\ \A k \in r[1]..r[2] : GoesOn(words[k])
     /\ ~GoesOn(words[r[2] + 1])}
Reads(words, r) ==
  LET upTo[k \in 0..(r[2] - r[1] + 1)] ==
        IF k = 0 THEN 0 ELSE upTo[k - 1] + is_ddr_read(words[r[1] + k - 1])
  IN  upTo[r[2] - r[1] + 1]

\* The memory controller sizes its read pipeline by the INFO it meets: the one
\* before a run counts exactly the reads of that run, a run that reads no
\* more than the cap has one, and no INFO stands anywhere else.
InfoAccurate ==
  stage = "processed" =>
    LET p == this.program
        Announced == {r \in Runs(p) : Reads(p, r) \in 1..MaxInfoReads}
    IN  /\ {k \in 1..Len(p) : IsInfo(p[k])} = {r[1] - 1 : r \in Announced}
        /\ \A r \in Announced : p[r[1] - 1] = SMC_INFO(Reads(p, r))

\* preprocess_branches asserts that what it finds at a branch's pc is a branch: the
\* assertion holds of every program that goes through the passes once, whatever
\* was appended to it; one that was saved with save_coe or concluded before and is added
\* to may fail it, as the words inserted then are not counted in spc.
OnlyReworkedFails == ended = "assert" => stage = "reworked"

\* program.h:105 says of save_bin: "Save this instruction stream to file".  It writes spc words,
\* and the INFO words that the passes put in are not counted in spc (program.cpp:398).
SavedWhole == [][SaveBin => saved' = this.program]_vars
=============================================================================
