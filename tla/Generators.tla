----------------------------- MODULE Generators -----------------------------
(***************************************************************************)
(* The program generators of src/programs: each builds, with the methods   *)
(* of Builder, the program of one experiment.  A generator's text is the   *)
(* sequence of the calls it makes on its Program; Assembled makes them and *)
(* concludes.                                                              *)
(***************************************************************************)
EXTENDS Builder, Integers

CONSTANTS
  CacheLines,   \* accesses it takes to write or read a row (128 in the code)
  WideWords,    \* 32-bit words of a cache line (16 in the code)
  Bank          \* the bank the experiments use

ASSUME RowAssumption == {CacheLines, WideWords} \subseteq Nat \ {0}

\* Registers of every generator, and the first ones free for its own use.
CASR        == 0
BASR        == 1
RASR        == 2
CAR         == 3
BAR         == 4
RAR         == 5
PATTERN_REG == 6
NUM_ROWS    == 7
ROW_CNT     == 8
MEM_PTR     == 9
ROW_PTR     == 8
ROW_ADDR(n) == 8 + n
NUM_HMR     == 7
HMR_COUNTER == 8
SRC_ROW     == 7
DST_ROW     == 8

\* Columns of a burst: the stride of a cache line.
Stride == 8

-----------------------------------------------------------------------------
(* Calls on a Program *)

add_inst(i)       == <<[call |-> "words", words |-> Pushed(i)]>>
add_slots(m1, m4) == <<[call |-> "words", words |-> <<pack_mininsts(m1, SMC_NOP, SMC_NOP, m4)>>]>>
add_mininst(m, n) == <<[call |-> "mini", minis |-> <<m>> \o [k \in 1..n |-> SMC_NOP]]>>
pack_minprogram   == <<[call |-> "pack"]>>
add_label(name)   == <<[call |-> "label", name |-> name]>>
add_branch(rs1, rs2, name) == <<[call |-> "branch", word |-> SMC_BL(rs1, rs2, 0), name |-> name]>>

AddCall(p, c) ==
  CASE c.call = "words"  -> AddWords(p, c.words)
    [] c.call = "mini"   -> [p EXCEPT !.minprogram = @ \o c.minis]
    [] c.call = "pack"   -> [AddWords(p, PackedWords(p.minprogram)) EXCEPT !.minprogram = <<>>]
    [] c.call = "label"  -> [p EXCEPT !.labels = Put(@, c.name, p.spc)]
    [] c.call = "branch" -> AddBranchWord(p, c.word, c.name)

Assembled(text) ==
  LET p == FoldLeft(AddCall, Empty, text)
  IN  PreprocessBranches(InsertGenerated(LinearAnalysis(AddWords(p, <<SMC_END>>))))

\* Lines that the generators share.
LI(n, rt)      == add_inst(SMC_LI(Bits(n), rt))
ADDI(rs, n)    == add_inst(ArithRIR("ADDI", rs, Bits(n), rs))
LD(rb, n, rt)  == add_inst(Memory("LD", rb, Bits(n), rt))
ST(rb, n, rt)  == add_inst(Memory("ST", rb, Bits(n), rt))
SLEEP(n)       == add_inst(SMC_SLEEP(n))
NOPS           == add_inst(all_nops)
ACTrow(row)    == SMC_ACT(BAR, 0, row, 0, 0)
PREbank        == SMC_PRE(BAR, 0, 0, 0)
PRE            == add_slots(PREbank, SMC_NOP)
ACT            == add_slots(ACTrow(RAR), SMC_NOP)
ACT_LAST       == add_slots(SMC_NOP, ACTrow(RAR))

\* The text for each element of a sequence, one after the other.
ForEach(s, Text(_)) == FlattenSeq([i \in 1..Len(s) |-> Text(i)])

Every(n) == [i \in 1..n |-> i]

\* The words of a cache line go into the wide data register.
LoadWide(words) ==
  ForEach(words, LAMBDA i : add_inst(SMC_LI(words[i], PATTERN_REG))
                            \o add_inst(ArithRR("LDWD", PATTERN_REG, i - 1)))

Column1(op, icar) == Column(op, BAR, 0, CAR, icar, 0, 0)

Lines(op) == ForEach(Every(CacheLines), LAMBDA i : add_slots(Column1(op, 1), SMC_NOP) \o NOPS)

Preamble(bank, row) == LI(bank, BAR) \o LI(row, RAR) \o LI(Stride, CASR)

\* Words of a pattern are C words.
Fill(word) == [i \in 1..WideWords |-> word]

-----------------------------------------------------------------------------
(* Writing and reading rows *)

WriteRow(words) ==
  LoadWide(words) \o PRE \o LI(0, CAR) \o NOPS \o NOPS \o ACT \o NOPS \o NOPS
    \o Lines("WRITE")

init_row(bank, row, pattern) ==
  Preamble(bank, row) \o WriteRow(pattern) \o SLEEP(4) \o PRE \o NOPS \o NOPS

\* Mutant: the bank is not precharged before the loop.
init_rowsKeepsOpen(bank, rows, words) ==
  LI(Len(rows), NUM_ROWS) \o LI(0, MEM_PTR)
    \o ForEach(rows, LAMBDA i :
         LI(rows[i], ROW_ADDR(2)) \o ST(MEM_PTR, 0, ROW_ADDR(2))
           \o add_inst(SMC_LI(words[i], PATTERN_REG)) \o ST(MEM_PTR, 1, PATTERN_REG)
           \o ADDI(MEM_PTR, 2))
    \o LI(0, MEM_PTR) \o LI(bank, BAR) \o LI(Stride, CASR) \o LI(0, CAR) \o LI(0, ROW_CNT)
    \o add_label("WR_ROW_BEGIN")
    \o LD(MEM_PTR, 0, RAR) \o LD(MEM_PTR, 1, PATTERN_REG)
    \o ForEach(Every(WideWords), LAMBDA i : add_inst(ArithRR("LDWD", PATTERN_REG, i - 1)))
    \o ACT \o LI(0, CAR) \o ADDI(MEM_PTR, 2) \o Lines("WRITE") \o SLEEP(3) \o ADDI(ROW_CNT, 1)
    \o PRE \o add_branch(ROW_CNT, NUM_ROWS, "WR_ROW_BEGIN")

\* The addresses and the words go through the memory of the core: two cells for
\* each row.
init_rows(bank, rows, words) ==
  LI(Len(rows), NUM_ROWS) \o LI(0, MEM_PTR)
    \o ForEach(rows, LAMBDA i :
         LI(rows[i], ROW_ADDR(2)) \o ST(MEM_PTR, 0, ROW_ADDR(2))
           \o add_inst(SMC_LI(words[i], PATTERN_REG)) \o ST(MEM_PTR, 1, PATTERN_REG)
           \o ADDI(MEM_PTR, 2))
    \o LI(0, MEM_PTR) \o LI(bank, BAR) \o LI(Stride, CASR) \o PRE \o LI(0, CAR) \o LI(0, ROW_CNT)
    \o add_label("WR_ROW_BEGIN")
    \o LD(MEM_PTR, 0, RAR) \o LD(MEM_PTR, 1, PATTERN_REG)
    \o ForEach(Every(WideWords), LAMBDA i : add_inst(ArithRR("LDWD", PATTERN_REG, i - 1)))
    \o ACT \o LI(0, CAR) \o ADDI(MEM_PTR, 2) \o Lines("WRITE") \o SLEEP(3) \o ADDI(ROW_CNT, 1)
    \o PRE \o add_branch(ROW_CNT, NUM_ROWS, "WR_ROW_BEGIN")

\* The column register is set before the loop only.
init_row_range(bank, start, end, pattern) ==
  LI(bank, BAR) \o LI(start, RAR) \o LI(end, NUM_ROWS) \o LI(Stride, CASR) \o LoadWide(pattern)
    \o PRE \o LI(0, CAR) \o NOPS \o NOPS
    \o add_label("WR_ROW_BEGIN")
    \o ACT \o NOPS \o NOPS \o Lines("WRITE") \o SLEEP(4) \o PRE \o NOPS \o ADDI(RAR, 1)
    \o add_branch(RAR, NUM_ROWS, "WR_ROW_BEGIN")

read_row(bank, row) ==
  Preamble(bank, row) \o PRE \o LI(0, CAR) \o NOPS \o NOPS \o ACT \o NOPS \o NOPS
    \o Lines("READ") \o SLEEP(4) \o PRE \o SLEEP(3)

read_rows(bank, rows) ==
  LI(Len(rows), NUM_ROWS) \o LI(0, ROW_PTR)
    \o ForEach(rows, LAMBDA i : LI(rows[i], ROW_ADDR(1)) \o ST(ROW_PTR, i - 1, ROW_ADDR(1)))
    \o LI(bank, BAR) \o LI(Stride, CASR) \o PRE \o NOPS \o NOPS
    \o add_label("RD_ROW_BEGIN")
    \o LD(ROW_PTR, 0, RAR) \o ACT \o LI(0, CAR) \o NOPS \o Lines("READ") \o SLEEP(3)
    \o ADDI(ROW_PTR, 1) \o PRE \o add_branch(ROW_PTR, NUM_ROWS, "RD_ROW_BEGIN")

\* Mutant: the last row is read as well.
read_row_rangeInclusive(bank, start, end) ==
  LI(bank, BAR) \o LI(start, RAR) \o LI(end + 1, NUM_ROWS) \o LI(Stride, CASR) \o PRE \o SLEEP(3)
    \o add_label("RD_ROW_BEGIN")
    \o ACT \o LI(0, CAR) \o NOPS \o Lines("READ") \o SLEEP(3) \o PRE \o ADDI(RAR, 1)
    \o add_branch(RAR, NUM_ROWS, "RD_ROW_BEGIN")

read_row_range(bank, start, end) ==
  LI(bank, BAR) \o LI(start, RAR) \o LI(end, NUM_ROWS) \o LI(Stride, CASR) \o PRE \o SLEEP(3)
    \o add_label("RD_ROW_BEGIN")
    \o ACT \o LI(0, CAR) \o NOPS \o Lines("READ") \o SLEEP(3) \o PRE \o ADDI(RAR, 1)
    \o add_branch(RAR, NUM_ROWS, "RD_ROW_BEGIN")

-----------------------------------------------------------------------------
(* Activating rows *)

\* A command and its wait, in slots of a quarter of an instruction.
OpenAndClose(first, nOpen, nClosed, second) ==
  add_mininst(ACTrow(first), nOpen) \o add_mininst(PREbank, nClosed)
    \o add_mininst(ACTrow(second), 24) \o add_mininst(PREbank, 0) \o pack_minprogram

CloseBank == PRE \o LI(0, CAR) \o NOPS \o NOPS

act_row(bank, row, nRAS, nRP) ==
  Preamble(bank, row) \o CloseBank \o OpenAndClose(RAR, nRAS, nRP, RAR) \o SLEEP(3)

act_rows(bank, rows, nRAS, nRP) ==
  LI(bank, BAR) \o LI(Stride, CASR) \o LI(Len(rows), NUM_ROWS) \o LI(0, ROW_PTR)
    \o ForEach(rows, LAMBDA i : LI(rows[i], ROW_ADDR(1)) \o ST(ROW_PTR, i - 1, ROW_ADDR(1)))
    \o CloseBank
    \o add_label("ACT_ROW_BEGIN")
    \o LD(ROW_PTR, 0, RAR) \o OpenAndClose(RAR, nRAS, nRP, RAR) \o ADDI(ROW_PTR, 1)
    \o add_branch(ROW_PTR, NUM_ROWS, "ACT_ROW_BEGIN")

refresh_all_rows(bank, num_rows) ==
  LI(bank, BAR) \o LI(0, RAR) \o LI(num_rows, NUM_ROWS) \o LI(Stride, CASR)
    \o PRE \o LI(0, CAR) \o NOPS \o ACT_LAST \o SLEEP(6)
    \o add_label("ACT_ROW_BEGIN")
    \o PRE \o NOPS \o ADDI(RAR, 1) \o ACT_LAST \o add_branch(RAR, NUM_ROWS, "ACT_ROW_BEGIN")
    \o PRE \o SLEEP(3)

rowclone(bank, src, dst, nT1) ==
  LI(bank, BAR) \o LI(src, SRC_ROW) \o LI(dst, DST_ROW) \o LI(Stride, CASR)
    \o CloseBank \o OpenAndClose(SRC_ROW, 24, nT1, DST_ROW) \o SLEEP(3)

-----------------------------------------------------------------------------
(* Hammering: the time a row stays open grows by 5 cycles a step, the time it
   is closed by 3. *)

OpenLonger(n)   == IF n > 1 THEN SLEEP(5 * (n - 1)) ELSE <<>>
ClosedLonger(n) == IF n > 1 THEN SLEEP(3 * (n - 1)) ELSE <<>>

\* Mutant: the first round is not counted.
singleside_hammerUncounted(bank, aggr, count, nAggON, nAggOFF) ==
  LI(bank, BAR) \o LI(aggr, RAR) \o LI(0, HMR_COUNTER) \o LI(count + 1, NUM_HMR)
    \o add_label("HMR_BEGIN")
    \o OpenLonger(nAggON) \o PRE \o ADDI(HMR_COUNTER, 1) \o ClosedLonger(nAggOFF) \o ACT_LAST
    \o add_branch(HMR_COUNTER, NUM_HMR, "HMR_BEGIN")

singleside_hammer(bank, aggr, count, nAggON, nAggOFF) ==
  LI(bank, BAR) \o LI(aggr, RAR) \o LI(0, HMR_COUNTER) \o LI(count, NUM_HMR)
    \o add_label("HMR_BEGIN")
    \o OpenLonger(nAggON) \o PRE \o ADDI(HMR_COUNTER, 1) \o ClosedLonger(nAggOFF) \o ACT_LAST
    \o add_branch(HMR_COUNTER, NUM_HMR, "HMR_BEGIN")

\* Mutant: the first aggressor is closed at once.
doubleside_hammerAtOnce(bank, aggr1, aggr2, count, nAggON1, nAggOFF1, nAggON2, nAggOFF2) ==
  LI(bank, BAR) \o LI(aggr1, RAR) \o LI(0, HMR_COUNTER) \o LI(count, NUM_HMR)
    \o add_label("HMR_BEGIN")
    \o OpenLonger(nAggON1) \o PRE \o LI(aggr1, RAR) \o ClosedLonger(nAggOFF1)
    \o ACT_LAST \o LI(aggr2, RAR) \o OpenLonger(nAggON2)
    \o PRE \o ADDI(HMR_COUNTER, 1) \o ClosedLonger(nAggOFF2) \o ACT_LAST
    \o add_branch(HMR_COUNTER, NUM_HMR, "HMR_BEGIN")

doubleside_hammer(bank, aggr1, aggr2, count, nAggON1, nAggOFF1, nAggON2, nAggOFF2) ==
  LI(bank, BAR) \o LI(aggr1, RAR) \o LI(0, HMR_COUNTER) \o LI(count, NUM_HMR)
    \o add_label("HMR_BEGIN")
    \o OpenLonger(nAggON1) \o PRE \o LI(aggr1, RAR) \o ClosedLonger(nAggOFF1)
    \o ACT_LAST \o LI(aggr2, RAR) \o SLEEP(5) \o OpenLonger(nAggON2)
    \o PRE \o ADDI(HMR_COUNTER, 1) \o ClosedLonger(nAggOFF2) \o ACT_LAST
    \o add_branch(HMR_COUNTER, NUM_HMR, "HMR_BEGIN")

-----------------------------------------------------------------------------
(* Experiments that write, disturb and read one row *)

ReadBack == LI(0, CAR) \o NOPS

frac(bank, row, word, Tfrac1, Tfrac2, num_fracs) ==
  Preamble(bank, row) \o WriteRow(Fill(word)) \o SLEEP(4) \o PRE \o NOPS \o NOPS
    \o ForEach(Every(num_fracs), LAMBDA i : add_mininst(ACTrow(RAR), Tfrac1) \o add_mininst(PREbank, Tfrac2))
    \o pack_minprogram \o ACT \o ReadBack \o NOPS \o Lines("READ") \o SLEEP(4) \o PRE \o SLEEP(3)

\* One cache line is overwritten with the complement of the word.
tWR_test(bank, row, col, word, tWR) ==
  Preamble(bank, row) \o WriteRow(Fill(word))
    \o LI(col * 8, CAR) \o LoadWide(Fill((0..31) \ word))
    \o PRE \o NOPS \o NOPS \o ACT \o NOPS \o NOPS
    \o add_mininst(Column1("WRITE", 0), tWR) \o add_mininst(PREbank, 10) \o pack_minprogram
    \o ACT \o ReadBack \o Lines("READ") \o SLEEP(4) \o PRE \o SLEEP(3)
=============================================================================
