--------------------------- MODULE MCInstruction ---------------------------
(* Checks the encoders and classifiers of Instruction over boundary operands:
   one state for each call of an encoder. *)
EXTENDS Instruction

CONSTANTS
  Registers,  \* register IDs, 0..15 in the code
  Halves,     \* immediates of at most 16 bits
  Offsets,    \* memory offsets that are not negative and at most 16 bits
  Immediates, \* immediates of 32 bits
  Targets,    \* pcs that fit the field of a conditional branch
  Cycles,     \* cycles to sleep
  Counts      \* reads of a run

ASSUME OperandsAssumption ==
  /\ Registers \subseteq 0..15
  /\ Halves \subseteq SUBSET (0..15) /\ Offsets \subseteq SUBSET (0..15)
  /\ Immediates \subseteq SUBSET (0..31)
  /\ Targets \subseteq 0..(2^19 - 1)
  /\ Cycles \subseteq Nat /\ \A samt \in Cycles : 2 < samt /\ samt < 2^30
  /\ Counts \subseteq Nat

VARIABLES
  call,       \* the operation and its operands
  inst        \* the word it returned

Flags == {0, 1}

\* The operands decode_inst prints for each operation.
InstCalls ==
  [op : {"ADD", "SUB", "AND", "OR", "XOR"}, rs1 : Registers, rs2 : Registers, rt : Registers]
    \cup [op : {"ADDI", "SUBI"}, rs1 : Registers, imd : Halves, rt : Registers]
    \cup [op : {"LD", "ST"}, rs1 : Registers, imd : Offsets, rt : Registers]
    \cup [op : {"MV", "SRC", "LDWD"}, rs1 : Registers, rt : Registers]
    \cup [op : {"LDPC"}, rs1 : 0..6, rt : Registers]
    \cup [op : {"LI"}, imd : Immediates, rt : Registers]
    \cup [op : {"BL", "BEQ"}, rs1 : Registers, rs2 : Registers, tgt : Targets]
    \cup [op : {"JUMP"}, tgt : Targets]
    \cup [op : {"SLEEP"}, samt : Cycles]
    \cup [op : {"INFO"}, rdcnt : Counts]
    \cup [op : {"END", "SRE", "SRX"}]

ColumnCalls ==
  [op : {"READ", "WRITE"}, bar : Registers, ibar : Flags, addr : Registers, iaddr : Flags,
   rank : Flags, ap : Flags]
RowCalls ==
  [op : {"ACT"}, bar : Registers, ibar : Flags, addr : Registers, iaddr : Flags, rank : Flags, ap : {0}]
    \cup [op : {"PRE"}, bar : Registers, ibar : Flags, addr : {0}, iaddr : Flags, rank : Flags, ap : {0}]
CommandCalls ==
  [op : {"SEL_CH", "REF", "NOP"}, bar : {0}, ibar : {0}, addr : {0}, iaddr : {0}, rank : Flags, ap : {0}]
DDRCalls == ColumnCalls \cup RowCalls \cup CommandCalls

EncodeMini(c) ==
  CASE c.op \in {"READ", "WRITE"} -> Column(c.op, c.bar, c.ibar, c.addr, c.iaddr, c.rank, c.ap)
    [] c.op = "ACT" -> SMC_ACT(c.bar, c.ibar, c.addr, c.iaddr, c.rank)
    [] c.op = "PRE" -> SMC_PRE(c.bar, c.ibar, c.iaddr, c.rank)
    [] OTHER        -> Command(c.op, 0, c.rank)

Encode(c) ==
  CASE c.op \in {"ADD", "SUB"}         -> ArithRRR(c.op, c.rs1, c.rs2, c.rt)
    [] c.op \in {"AND", "OR", "XOR"}   -> BitwiseRRR(c.op, c.rs1, c.rs2, c.rt)
    [] c.op \in {"ADDI", "SUBI"}       -> ArithRIR(c.op, c.rs1, c.imd, c.rt)
    [] c.op \in {"LD", "ST"}           -> Memory(c.op, c.rs1, c.imd, c.rt)
    [] c.op \in {"MV", "SRC", "LDWD", "LDPC"} -> ArithRR(c.op, c.rs1, c.rt)
    [] c.op = "LI"    -> SMC_LI(c.imd, c.rt)
    [] c.op = "BL"    -> SMC_BL(c.rs1, c.rs2, c.tgt)
    [] c.op = "BEQ"   -> SMC_BEQ(c.rs1, c.rs2, c.tgt)
    [] c.op = "JUMP"  -> SMC_JUMP(c.tgt)
    [] c.op = "SLEEP" -> SMC_SLEEP(c.samt)
    [] c.op = "INFO"  -> SMC_INFO(c.rdcnt)
    [] c.op = "END"   -> SMC_END
    [] c.op \in {"SRE", "SRX"} -> SelfRefresh(c.op)

\* 16-bit and 32-bit immediates at their extremes.
Bit16 == {{}, {0}, {15}, 0..15, {0, 4, 8, 12}}
Bit32 == Bit16 \cup {{16}, {31}, 0..31, {15, 16}}

\* One DDR command in each of the four slots, with NOPs in the others.
InSlot(m, slot) ==
  LET mini(k) == IF k = slot THEN m ELSE SMC_NOP
  IN  pack_mininsts(mini(0), mini(1), mini(2), mini(3))

WithSlot(c, slot) == [f \in DOMAIN c \cup {"slot"} |-> IF f = "slot" THEN slot ELSE c[f]]

EncodeInit == call = [op |-> "END"] /\ inst = SMC_END

EncodeInst == \E c \in InstCalls : call' = c /\ inst' = Encode(c)

EncodeDDR ==
  \E c \in DDRCalls, slot \in 0..3 :
    call' = WithSlot(c, slot) /\ inst' = InSlot(EncodeMini(c), slot)

\* Every call is made from the first state: one step is a behaviour.
EncodeNext ==
  \/ call.op = "END" /\ (EncodeInst \/ EncodeDDR)
  \/ UNCHANGED <<call, inst>>

EncodeSpec == EncodeInit /\ [][EncodeNext]_<<call, inst>>

-----------------------------------------------------------------------------
Decoded(i, op) ==
  CASE op \in {"ADD", "SUB", "AND", "OR", "XOR"} ->
         [op |-> Operation(i), rs1 |-> rs1Of(i), rs2 |-> rs2Of(i), rt |-> rtOf(i)]
    [] op \in {"ADDI", "SUBI", "LD", "ST"} ->
         [op |-> Operation(i), rs1 |-> rs1Of(i), imd |-> imd1Of(i), rt |-> rtOf(i)]
    [] op \in {"MV", "SRC", "LDWD", "LDPC"} -> [op |-> Operation(i), rs1 |-> rs1Of(i), rt |-> rtOf(i)]
    [] op = "LI" -> [op |-> Operation(i), imd |-> imd_concatOf(i), rt |-> rtOf(i)]
    [] op \in {"BL", "BEQ"} ->
         [op |-> Operation(i), rs1 |-> rs1Of(i), rs2 |-> rs2Of(i), tgt |-> btOf(i)]
    [] op = "JUMP" -> [op |-> Operation(i), tgt |-> jtOf(i)]
    [] op = "SLEEP" -> [op |-> Operation(i), samt |-> samtOf(i) + 2]
    [] OTHER -> [call EXCEPT !.op = Operation(i)]

IsEnd(c) == c = [op |-> "ADD", rs1 |-> 0, rs2 |-> 0, rt |-> 0]

\* decode_inst and decode_ddr read back exactly the operation and operands the
\* encoder was given: no two fields of a word overlap and none is cut, for any
\* values the fields can take.  SLEEP prints two cycles less than it was asked for, and
\* ADD r0 r0 r0 has the word of END.
DecodesToItself ==
  IF call \in InstCalls
  THEN ~IsEnd(call) => Decoded(inst, call.op) = call
  ELSE \A k \in 0..3 :
         DecodeDDR(MiniAt(inst, k)) =
           IF k = call.slot THEN [f \in DOMAIN call \ {"slot"} |-> call[f]]
                            ELSE DecodeDDR(SMC_NOP)

\* What the assembler treats as a load, a branch, a conditional branch, a DDR word or a read
\* is one for the decoder, and nothing else is.  is_sleep is the exception: it looks for the
\* function code 19 in all bits from 48 on, where SLEEP has bit 62 and the code 3, and so
\* recognises no word at all, a SLEEP no more than any other (instruction.cpp:381).
ClassifiersAgree ==
  /\ ~is_sleep(inst)
  /\ IF call \in InstCalls
     THEN /\ is_load(inst) <=> Operation(inst) = "LD"
          /\ is_branch(inst) <=> Operation(inst) \in {"BL", "BEQ", "JUMP", "SLEEP"}
          /\ is_branch(inst) => (is_conditional(inst) <=> Operation(inst) \in {"BL", "BEQ"})
          /\ ~is_ddr(inst)
     ELSE /\ is_ddr(inst) /\ ~is_branch(inst) /\ ~is_load(inst)
          /\ is_ddr_read(inst) = IF call.op = "READ" THEN 1 ELSE 0
=============================================================================
