---------------------------- MODULE Instruction ----------------------------
(***************************************************************************)
(* The instruction words of DRAM Bender: instruction.h and                 *)
(* src/api/program/instruction.cpp.                                        *)
(*                                                                         *)
(* A word is the set of the positions of its 1 bits: an Inst is a subset   *)
(* of 0..63, a Mininst of 0..15, a C int or uint32_t of 0..31.  Bitwise    *)
(* or is union, a mask is an intersection, a shift moves the set, and what *)
(* a shift pushes over the top of its C type is lost.                      *)
(***************************************************************************)
EXTENDS Naturals, FiniteSets

\* Small numbers (register IDs, codes, targets, counts) as words, and back.
\* TLC has no numbers of more than 31 bits.
Bits(n)  == {b \in 0..30 : (n \div 2^b) % 2 = 1}
Value(w) == LET sum[b \in 0..31] == IF b = 0 THEN 0
                                    ELSE sum[b - 1] + (IF b - 1 \in w THEN 2^(b - 1) ELSE 0)
            IN  sum[31]

Shl(w, k, width) == {b + k : b \in w} \cap 0..(width - 1)
Shr(w, k)        == {b - k : b \in {c \in w : c >= k}}

\* An int keeps its sign when it becomes an Inst.
SignExtend(w) == IF 31 \in w THEN w \cup 32..63 ELSE w

Inst(code, at) == Shl(code, at, 64)
Mini(code, at) == Shl(code, at, 16)
IntShl(w, at)  == SignExtend(Shl(w, at, 32))
UintShl(w, at) == Shl(w, at, 32)

OP_CODE    == 59
FU_CODE    == 48
IS_BR      == 62
IS_DDR     == 63
IS_MISC    == 61
IS_MEM     == 60
IS_BW      == 59
RS2        == 4
RT         == 20
IMD1       == 4
IMD3       == 24
BR_TGT     == 8
DDR_CMD    == 12
DDR_ROWCOL == 4
DDR_IBAR   == 10
DDR_IADDR  == 11
DDR_AP     == 9
DDR_RANK   == 8

ArithCodes == [ADD |-> 0, ADDI |-> 1, SUB |-> 2, SUBI |-> 3, MV |-> 4, SRC |-> 5,
               LI |-> 6, LDWD |-> 7, LDPC |-> 8, SRE |-> 256, SRX |-> 257]
BranchCodes == [BL |-> 0, BEQ |-> 1, JUMP |-> 2, SLEEP |-> 3]
BitwiseCodes == [AND |-> 0, OR |-> 1, XOR |-> 2]
MemoryCodes == [LD |-> 0, ST |-> 1]
DDRCodes == [WRITE |-> 8, READ |-> 9, PRE |-> 10, ACT |-> 11, SEL_CH |-> 12, REF |-> 13, NOP |-> 15]

-----------------------------------------------------------------------------
(* Encoders.  Registers are numbers; immediates are 32-bit words. *)

FuCode(code)     == Inst(Bits(code), FU_CODE)
\* Mutant: the two source registers are swapped.
SourcesSwapped(rs1, rs2) == IntShl(Bits(rs1), RS2) \cup Bits(rs2)

Sources(rs1, rs2) == IntShl(Bits(rs2), RS2) \cup Bits(rs1)
Target(rt)       == IntShl(Bits(rt), RT)

\* SMC_ADD, SMC_SUB.
ArithRRR(op, rs1, rs2, rt) == FuCode(ArithCodes[op]) \cup Sources(rs1, rs2) \cup Target(rt)

\* SMC_ADDI, SMC_SUBI: the immediate is not masked to its 16 bits.
ArithRIR(op, rs1, imd, rt) ==
  FuCode(ArithCodes[op]) \cup Bits(rs1) \cup UintShl(imd, IMD1) \cup Target(rt)

\* SMC_MV, SMC_SRC, SMC_LDWD (rt is the offset) and SMC_LDPC (rs1 the counter).
ArithRR(op, rs1, rt) == FuCode(ArithCodes[op]) \cup Bits(rs1) \cup Target(rt)

\* Two halves of the immediate, each in a field of its own.
SMC_LI(imd, rt) ==
  FuCode(ArithCodes.LI) \cup UintShl(Shr(Shl(imd, 16, 32), 16), IMD1)
    \cup Inst(Shr(imd, 16), IMD3) \cup Target(rt)

SMC_BL(rs1, rs2, tgt) ==
  {IS_BR} \cup FuCode(BranchCodes.BL) \cup Sources(rs1, rs2) \cup Inst(Bits(tgt), BR_TGT)
SMC_BEQ(rs1, rs2, tgt) ==
  {IS_BR} \cup FuCode(BranchCodes.BEQ) \cup Sources(rs1, rs2) \cup Inst(Bits(tgt), BR_TGT)
SMC_JUMP(tgt) == {IS_BR} \cup FuCode(BranchCodes.JUMP) \cup Bits(tgt)

\* The assertion samt > 2 is the caller's to meet.
SMC_SLEEP(samt) == {IS_BR} \cup FuCode(BranchCodes.SLEEP) \cup Bits(samt - 2)

\* SMC_LD, SMC_ST: the offset is an int, shifted as one.
Memory(op, rb, offset, rt) ==
  {IS_MEM} \cup FuCode(MemoryCodes[op]) \cup Bits(rb) \cup IntShl(offset, IMD1) \cup Target(rt)

BitwiseRRR(op, rs1, rs2, rt) ==
  {IS_BW} \cup FuCode(BitwiseCodes[op]) \cup Sources(rs1, rs2) \cup Target(rt)

SMC_END         == {}
SMC_INFO(rdcnt) == {IS_MISC} \cup Bits(rdcnt)
SelfRefresh(op) == {56} \cup FuCode(ArithCodes[op])

\* SMC_WRITE, SMC_READ; flags and rank are 0 or 1.
Column(op, bar, ibar, car, icar, rank, ap) ==
  Mini(Bits(DDRCodes[op]), DDR_CMD) \cup Bits(bar) \cup Mini(Bits(car), DDR_ROWCOL)
    \cup Mini(Bits(ibar), DDR_IBAR) \cup Mini(Bits(icar), DDR_IADDR)
    \cup Mini(Bits(rank), DDR_RANK) \cup Mini(Bits(ap), DDR_AP)

SMC_ACT(bar, ibar, rar, irar, rank) ==
  Mini(Bits(DDRCodes.ACT), DDR_CMD) \cup Bits(bar) \cup Mini(Bits(rar), DDR_ROWCOL)
    \cup Mini(Bits(ibar), DDR_IBAR) \cup Mini(Bits(irar), DDR_IADDR) \cup Mini(Bits(rank), DDR_RANK)

SMC_PRE(bar, ibar, pall, rank) ==
  Mini(Bits(DDRCodes.PRE), DDR_CMD) \cup Bits(bar) \cup Mini(Bits(ibar), DDR_IBAR)
    \cup Mini(Bits(pall), DDR_IADDR) \cup Mini(Bits(rank), DDR_RANK)

\* SMC_SEL_CH, and with channel 0 SMC_REF and SMC_NOP.
Command(op, channel, rank) ==
  Mini(Bits(DDRCodes[op]), DDR_CMD) \cup Mini(Bits(rank), DDR_RANK) \cup Bits(channel)

SMC_NOP == Command("NOP", 0, 0)

pack_mininsts(i1, i2, i3, i4) == Inst(i4, 48) \cup Inst(i3, 32) \cup Inst(i2, 16) \cup i1

all_nops == pack_mininsts(SMC_NOP, SMC_NOP, SMC_NOP, SMC_NOP)

-----------------------------------------------------------------------------
(* Classifiers *)

FunctionCode(i) == Shr(i, FU_CODE) \cap 0..10

\* Mutant: JUMP counts as conditional.
is_conditional_up_to_jump(i) == FunctionCode(i) \in {Bits(0), Bits(1), Bits(2)}

is_conditional(i) == FunctionCode(i) \in {Bits(0), Bits(1)}
is_branch(i)      == Shr(i, OP_CODE) = Bits(8)
is_ddr(i)         == IS_DDR \in i
is_load(i)        == Shr(i, FU_CODE) = Bits(4096)
is_sleep(i)       == Shr(i, FU_CODE) = Bits(19)

MiniAt(i, k)   == Shr(i, 16 * k) \cap 0..15
is_ddr_read(i) == Cardinality({k \in 0..3 : Shr(MiniAt(i, k), DDR_CMD) = Bits(DDRCodes.READ)})

-----------------------------------------------------------------------------
(* What decode_inst and decode_ddr read back from a word *)

NameOf(codes, code) ==
  LET names == {n \in DOMAIN codes : Bits(codes[n]) = code}
  IN  IF names = {} THEN "none" ELSE CHOOSE n \in names : TRUE

Field(i, at, width) == Shr(i, at) \cap 0..(width - 1)

\* The operation that decode_inst prints for a word that is not DDR.
Operation(i) ==
  LET op == Shr(i, OP_CODE)
  IN  CASE op = Bits(0) /\ i = SMC_END -> "END"
        [] op = Bits(0) /\ i # SMC_END -> NameOf(ArithCodes, FunctionCode(i))
        [] op = Bits(8) -> NameOf(BranchCodes, FunctionCode(i))
        [] op = Bits(4) -> NameOf([INFO |-> 0], FunctionCode(i))
        [] op = Bits(2) -> NameOf(MemoryCodes, FunctionCode(i))
        [] op = Bits(1) -> NameOf(BitwiseCodes, FunctionCode(i))
        [] OTHER        -> "none"

rs1Of(i)        == Value(Field(i, 0, 4))
rs2Of(i)        == Value(Field(i, RS2, 4))
rtOf(i)         == Value(Field(i, RT, 4))
imd1Of(i)       == Field(i, IMD1, 16)
imd_concatOf(i) == Shl(Field(i, IMD3, 16), 16, 64) \cup imd1Of(i)
btOf(i)         == Value(Field(i, BR_TGT, 19))
jtOf(i)         == Value(Field(i, 0, 27))
samtOf(i)       == Value(Field(i, 0, 32))

DDROperation(m) == NameOf(DDRCodes, Shr(m, DDR_CMD))

\* What decode_ddr reads of a command; flags it does not print are left out.
DecodeDDR(m) ==
  [op |-> DDROperation(m), bar |-> Value(Field(m, 0, 4)), addr |-> Value(Field(m, DDR_ROWCOL, 4)),
   ibar |-> Value(Field(m, DDR_IBAR, 1)), iaddr |-> Value(Field(m, DDR_IADDR, 1)),
   ap |-> Value(Field(m, DDR_AP, 1)), rank |-> Value(Field(m, DDR_RANK, 1))]
=============================================================================
