------------------------------ MODULE Builder ------------------------------
(***************************************************************************)
(* A Program object of src/api/program/program.cpp and what its methods    *)
(* make of it: the words, labels and branches that a client adds, and the  *)
(* three passes that announce every run of DDR words that reads with an    *)
(* INFO word before it and give every branch its target.                   *)
(*                                                                         *)
(* The private members are the fields of one record, so that a method is   *)
(* an operator from Program to Program and conclude is the composition of  *)
(* the passes.  A pc counts from 0; the word at pc is program[pc + 1].     *)
(***************************************************************************)
EXTENDS Instruction, Sequences, SequencesExt

CONSTANT MaxInfoReads  \* longest run of reads that is announced (1024 in the code)

ASSUME InfoAssumption == MaxInfoReads \in Nat \ {0}

Nowhere  == <<>>        \* the empty map

Empty == [program |-> <<>>, labels |-> Nowhere, branches |-> Nowhere, warnings |-> Nowhere,
          minprogram |-> <<>>, spc |-> 0, dumpRegsCalled |-> FALSE, concluded |-> FALSE]

At(p, pc) == p.program[pc + 1]

\* map[key] = value; and map[key] as std::map reads it, 0 when there is none.
Put(map, key, value) == [k \in DOMAIN map \cup {key} |-> IF k = key THEN value ELSE map[k]]
LabelOf(labels, name) == IF name \in DOMAIN labels THEN labels[name] ELSE 0

-----------------------------------------------------------------------------
(* Building *)

\* The words add_inst pushes: a load is followed by a word of NOPs.
Pushed(i) == IF is_load(i) THEN <<i, all_nops>> ELSE <<i>>

\* Mutant: the word of NOPs after a load is not counted.
AddWordsCountsOne(p, words) == [p EXCEPT !.program = @ \o words, !.spc = @ + 1]

AddWords(p, words) == [p EXCEPT !.program = @ \o words, !.spc = @ + Len(words)]

AddBranchWord(p, word, tgt) ==
  AddWords([p EXCEPT !.branches = Put(@, p.spc, tgt)], <<word>>)

\* The words that pack_minprogram makes of the pending commands, the last one
\* filled up with NOPs.
PackedWords(minis) ==
  LET mini(k) == IF k <= Len(minis) THEN minis[k] ELSE SMC_NOP
  IN  [w \in 1..((Len(minis) + 3) \div 4) |->
         pack_mininsts(mini(4 * w - 3), mini(4 * w - 2), mini(4 * w - 1), mini(4 * w))]

Below(p, q) ==
  [p EXCEPT
     !.program  = @ \o q.program,
     !.branches = [pc \in DOMAIN @ \cup {b + p.spc : b \in DOMAIN q.branches} |->
                     IF pc - p.spc \in DOMAIN q.branches THEN q.branches[pc - p.spc] ELSE @[pc]],
     !.labels   = [l \in DOMAIN @ \cup DOMAIN q.labels |->
                     IF l \in DOMAIN q.labels THEN q.labels[l] + p.spc ELSE @[l]],
     !.spc      = @ + q.spc]

-----------------------------------------------------------------------------
(* The three passes *)

\* Mutant: reads of an earlier run are counted again.
VisitKeepsCount(scan, i) ==
  LET next == [scan EXCEPT !.pc = @ + 1]
  IN  IF is_ddr(i)
      THEN [next EXCEPT !.inSequence = TRUE,
                        !.seqPc = IF scan.inSequence THEN @ ELSE scan.pc,
                        !.readCtr = @ + is_ddr_read(i)]
      ELSE [next EXCEPT !.inSequence = FALSE,
                        !.warnings = IF scan.inSequence /\ scan.readCtr \in 1..MaxInfoReads
                                     THEN Put(@, scan.seqPc, SMC_INFO(scan.readCtr)) ELSE @]

\* One word of the scan: a run of DDR words is open from seqPc, with so many
\* reads in it, and the first word that ends it commits its INFO.
Visit(scan, i) ==
  LET next == [scan EXCEPT !.pc = @ + 1]
  IN  CASE ~scan.inSequence /\ ~is_ddr(i) -> next
        [] ~scan.inSequence /\ is_ddr(i) ->
             [next EXCEPT !.inSequence = TRUE, !.seqPc = scan.pc, !.readCtr = is_ddr_read(i)]
        [] scan.inSequence /\ (is_ddr(i) \/ is_sleep(i)) ->
             [next EXCEPT !.readCtr = @ + is_ddr_read(i)]
        [] scan.inSequence /\ ~is_ddr(i) /\ ~is_sleep(i) ->
             [next EXCEPT !.inSequence = FALSE,
                          !.warnings = IF scan.readCtr \in 1..MaxInfoReads
                                       THEN Put(@, scan.seqPc, SMC_INFO(scan.readCtr))
                                       ELSE @]

LinearAnalysis(p) ==
  LET start == [pc |-> 0, inSequence |-> FALSE, seqPc |-> 0, readCtr |-> 0, warnings |-> p.warnings]
      scan[k \in 0..Len(p.program)] == IF k = 0 THEN start ELSE Visit(scan[k - 1], p.program[k])
  IN  [p EXCEPT !.warnings = scan[Len(p.program)].warnings]

\* Mutants: the word replaces what is there; a label at pc moves too; a branch right
\* after pc stays.
InsertOverwrites(p, pc, word) == [p EXCEPT !.program = [@ EXCEPT ![pc + 1] = word]]
InsertMovesLabelAt(p, pc, word) ==
  [p EXCEPT
     !.program  = InsertAt(@, pc + 1, word),
     !.labels   = [l \in {p.branches[b] : b \in DOMAIN p.branches} |->
                     IF LabelOf(@, l) >= pc THEN LabelOf(@, l) + 1 ELSE LabelOf(@, l)],
     !.branches = [b \in {IF k >= pc THEN k + 1 ELSE k : k \in DOMAIN @} |->
                     IF b > pc THEN @[b - 1] ELSE @[b]]]

InsertKeepsBranchAt(p, pc, word) ==
  [p EXCEPT
     !.program  = InsertAt(@, pc + 1, word),
     !.labels   = [l \in {p.branches[b] : b \in DOMAIN p.branches} |->
                     IF LabelOf(@, l) > pc THEN LabelOf(@, l) + 1 ELSE LabelOf(@, l)],
     !.branches = [b \in {IF k > pc + 1 THEN k + 1 ELSE k : k \in DOMAIN @} |->
                     IF b > pc + 1 THEN @[b - 1] ELSE @[b]]]

\* One generated word goes in at pc.  Only the labels that a branch names
\* are kept.
InsertWarning(p, pc, word) ==
  [p EXCEPT
     !.program  = InsertAt(@, pc + 1, word),
     !.labels   = [l \in {p.branches[b] : b \in DOMAIN p.branches} |->
                     IF LabelOf(@, l) > pc THEN LabelOf(@, l) + 1 ELSE LabelOf(@, l)],
     !.branches = [b \in {IF k >= pc THEN k + 1 ELSE k : k \in DOMAIN @} |->
                     IF b > pc THEN @[b - 1] ELSE @[b]]]

\* A key of the map of p goes into q, which has the words of the lower keys: each has
\* moved it by 1.
InsertKey(q, p, key) ==
  IF key \in DOMAIN p.warnings
  THEN InsertWarning(q, key + (Len(q.program) - Len(p.program)), p.warnings[key])
  ELSE q

\* The keys of the map go in from the lowest.
InsertGenerated(p) ==
  LET upTo[k \in 0..(Len(p.program) + 1)] == IF k = 0 THEN p ELSE InsertKey(upTo[k - 1], p, k - 1)
  IN  upTo[Len(p.program) + 1]

\* The assertion of preprocess_branches.
BranchesAreBranches(p) == \A pc \in DOMAIN p.branches : is_branch(At(p, pc))

\* The target is or-ed into the word that is there.
WithTarget(word, lbl) ==
  word \cup (IF is_conditional(word) THEN Inst(Bits(lbl), BR_TGT) ELSE Bits(lbl))

PreprocessBranches(p) ==
  [p EXCEPT
     !.program = [k \in DOMAIN @ |->
                    IF k - 1 \in DOMAIN p.branches
                    THEN WithTarget(@[k], LabelOf(p.labels, p.branches[k - 1]))
                    ELSE @[k]],
     !.labels  = [l \in DOMAIN @ \cup {p.branches[b] : b \in DOMAIN p.branches} |-> LabelOf(@, l)]]
=============================================================================
