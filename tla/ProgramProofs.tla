--------------------------- MODULE ProgramProofs ---------------------------
(* BuildInv, OnlyReworkedFails, SourceKept, BranchesResolve and InfoAccurate, and what save_bin leaves out, for every
   client, word, label and appended program. *)
EXTENDS Program, BitFacts, SequenceTheorems, FiniteSetTheorems

\* What a client adds: words that are no INFO, and branches if they have a label.
Word == {i \in SUBSET (0..63) : ~IsInfo(i)}
Item == {x \in [word : Word, tgt : Labels \cup {NoTarget}, unit : Nat] :
           x.tgt # NoTarget => IsOpen(x.word)}

\* A pending command is no wider than the int that encodes it.
DDRCommand == {m \in SUBSET (0..30) : 15 \in m}

LabelMaps  == UNION {[D -> Nat] : D \in SUBSET Labels}
BranchMaps == UNION {[D -> Labels] : D \in SUBSET Nat}

\* A program under construction.
BuildType ==
  [program        : Seq(Word),
   labels         : LabelMaps,
   branches       : BranchMaps,
   warnings       : {Nowhere},
   minprogram     : Seq(DDRCommand),
   spc            : Nat,
   dumpRegsCalled : BOOLEAN,
   concluded      : BOOLEAN]

\* The strengthening of BuildInv: what a call adds has the types of words, and
\* is recorded in source in the same order.
Building == this \in BuildType /\ source \in Seq(Item) /\ InStep(this, source)
IInv     == calls \in Nat /\ (stage = "building" => Building)

-----------------------------------------------------------------------------
(* INFO words *)

\* An INFO word is one of the miscellaneous unit.
LEMMA InfoUnit ==
  ASSUME NEW i, IsInfo(i)
  PROVE  Shr(i, OP_CODE) = {2}
<1>1. \A codes, code : NameOf(codes, code) \in DOMAIN codes \cup {"none"}
  BY DEF NameOf
<1>2. /\ NameOf(ArithCodes, FunctionCode(i)) # "INFO"
      /\ NameOf(BranchCodes, FunctionCode(i)) # "INFO"
      /\ NameOf(MemoryCodes, FunctionCode(i)) # "INFO"
      /\ NameOf(BitwiseCodes, FunctionCode(i)) # "INFO"
  BY <1>1 DEF ArithCodes, BranchCodes, MemoryCodes, BitwiseCodes
<1> SUFFICES ASSUME Shr(i, OP_CODE) # {2} PROVE FALSE
  OBVIOUS
<1>3. Shr(i, OP_CODE) # Bits(4)
  BY CodeBits
<1>4. Operation(i) = "INFO"
  BY DEF IsInfo
<1> QED BY <1>2, <1>3, <1>4 DEF Operation

\* So a word without bit 61, or with a bit above, is no INFO.
LEMMA NoInfo ==
  ASSUME NEW i \in SUBSET (0..63), 61 \notin i \/ 62 \in i \/ 63 \in i
  PROVE  ~IsInfo(i)
<1> SUFFICES ASSUME IsInfo(i) PROVE FALSE
  OBVIOUS
<1>1. Shr(i, OP_CODE) = {2}
  BY InfoUnit
<1>2. 2 \in Shr(i, OP_CODE) /\ 3 \notin Shr(i, OP_CODE) /\ 4 \notin Shr(i, OP_CODE)
  BY <1>1
<1>3. 2 + 59 \in i /\ 3 + 59 \notin i /\ 4 + 59 \notin i
  BY <1>2, UnitBits
<1> QED BY <1>3

\* The words that the passes insert are INFO words.
LEMMA InfoIsInfo ==
  ASSUME NEW n
  PROVE  SMC_INFO(n) \in SUBSET (0..63) /\ IsInfo(SMC_INFO(n))
<1> DEFINE i == SMC_INFO(n)
<1>1. i = {61} \cup Bits(n) /\ Bits(n) \subseteq 0..30
  BY DEF SMC_INFO, IS_MISC, Bits
<1>2. i \in SUBSET (0..63) /\ 61 \in i /\ \A b \in i : b > 30 => b = 61
  BY <1>1
<1> HIDE DEF i
<1>3. Shr(i, OP_CODE) = {2}
  <2>1. \A b \in 0..4 : b \in Shr(i, OP_CODE) <=> b + 59 \in i
    BY <1>2, UnitBits
  <2>2. \A b \in 0..4 : b \in Shr(i, OP_CODE) <=> b = 2
    BY <2>1, <1>2
  <2>3. Shr(i, OP_CODE) \subseteq 0..4
    BY <1>2, UnitBits
  <2> QED BY <2>2, <2>3
<1>4. FunctionCode(i) = {}
  BY <1>2 DEF FunctionCode, Shr, FU_CODE
<1>5. NameOf([INFO |-> 0], {}) = "INFO"
  BY CodeBits DEF NameOf
<1>6. {2} = Bits(4) /\ {2} # Bits(0) /\ {2} # Bits(1) /\ {2} # Bits(2) /\ {2} # Bits(8)
  BY CodeBits
<1>7. Operation(i) = "INFO"
  BY <1>3, <1>4, <1>5, <1>6 DEF Operation
<1> QED BY <1>2, <1>7 DEF IsInfo, i

-----------------------------------------------------------------------------
(* The encoders make words *)

\* A packed command word is a word, whatever its four commands are.
LEMMA PackIsWord ==
  ASSUME NEW a \in DDRCommand, NEW b, NEW c, NEW d \in SUBSET (0..30)
  PROVE  pack_mininsts(d, c, b, a) \in Word
<1> DEFINE i == pack_mininsts(d, c, b, a)
<1>1. \A w, k : Inst(w, k) \subseteq 0..63
  BY DEF Inst, Shl
<1>2. d \subseteq 0..63
  OBVIOUS
<1>3. i \in SUBSET (0..63)
  BY <1>1, <1>2 DEF pack_mininsts
<1>4. 63 \in i
  <2>1. 15 \in a /\ 15 + 48 = 63
    BY DEF DDRCommand
  <2>2. 63 \in Inst(a, 48)
    BY <2>1 DEF Inst, Shl
  <2> QED BY <2>2 DEF pack_mininsts
<1> HIDE DEF i
<1>5. ~IsInfo(i)
  BY <1>3, <1>4, NoInfo
<1> QED BY <1>3, <1>5 DEF Word, i

\* Every DDR command fits an int, and has its uppermost bit set.
LEMMA CommandIsMini ==
  /\ \A op, bar, ibar, car, icar, rank, ap : Column(op, bar, ibar, car, icar, rank, ap) \in SUBSET (0..30)
  /\ \A bar, ibar, rar, irar, rank : SMC_ACT(bar, ibar, rar, irar, rank) \in SUBSET (0..30)
  /\ \A bar, ibar, pall, rank : SMC_PRE(bar, ibar, pall, rank) \in SUBSET (0..30)
  /\ \A bar, ibar, car, icar, rank, ap : Column("READ", bar, ibar, car, icar, rank, ap) \in DDRCommand
  /\ SMC_NOP \in DDRCommand
<1>1. \A w, k : Mini(w, k) \subseteq 0..30
  BY DEF Mini, Shl
<1>2. \A n : Bits(n) \subseteq 0..30
  BY DEF Bits
<1>3. \A op, bar, ibar, car, icar, rank, ap : Column(op, bar, ibar, car, icar, rank, ap) \in SUBSET (0..30)
  BY <1>1, <1>2 DEF Column
<1>4. \A bar, ibar, rar, irar, rank : SMC_ACT(bar, ibar, rar, irar, rank) \in SUBSET (0..30)
  BY <1>1, <1>2 DEF SMC_ACT
<1>5. \A bar, ibar, pall, rank : SMC_PRE(bar, ibar, pall, rank) \in SUBSET (0..30)
  BY <1>1, <1>2 DEF SMC_PRE
<1>6. \A w : 3 \in w => 15 \in Mini(w, DDR_CMD)
  <2> SUFFICES ASSUME NEW w, 3 \in w PROVE 15 \in Mini(w, DDR_CMD)
    OBVIOUS
  <2>1. 3 + 12 = 15 /\ 15 \in 0..15
    OBVIOUS
  <2> QED BY <2>1 DEF Mini, Shl, DDR_CMD
<1>7. DDRCodes["READ"] = 9 /\ DDRCodes["NOP"] = 15
  BY DEF DDRCodes
<1>8. SMC_NOP \in DDRCommand
  <2>1. SMC_NOP \subseteq 0..30
    BY <1>1, <1>2 DEF SMC_NOP, Command
  <2>2. 15 \in SMC_NOP
    BY <1>6, <1>7, CodeBits DEF SMC_NOP, Command
  <2> QED BY <2>1, <2>2 DEF DDRCommand
<1>9. \A bar, ibar, car, icar, rank, ap : 15 \in Column("READ", bar, ibar, car, icar, rank, ap)
  BY <1>6, <1>7, CodeBits DEF Column
<1> QED BY <1>3, <1>4, <1>5, <1>8, <1>9 DEF DDRCommand

\* The instructions that the builder and its client make are words, the branches branches.
LEMMA EncodersMakeWords ==
  /\ \A imd \in SUBSET (0..30), rt \in 0..15 : SMC_LI(imd, rt) \in Word
  /\ \A r, s \in 0..15 : ArithRR("LDWD", r, s) \in Word
  /\ \A w \in {SMC_BL(3, 4, 0), SMC_JUMP(0)} : w \in Word /\ IsOpen(w)
  /\ SMC_END \in Word /\ all_nops \in Word
<1> DEFINE Low == 0..31
<1>1. \A w, k : UintShl(w, k) \subseteq Low
  BY DEF UintShl, Shl
<1>2. \A n : Bits(n) \subseteq Low
  BY DEF Bits
<1>3. ASSUME NEW n \in 0..15 PROVE FuCode(n) \subseteq 48..51
  <2>1. Bits(n) \subseteq 0..3
    BY SmallBits
  <2> QED BY <2>1 DEF FuCode, FU_CODE, Inst, Shl
<1>4. \A w : w \subseteq 0..3 => IntShl(w, RT) \subseteq Low /\ IntShl(w, RS2) \subseteq Low
  <2> SUFFICES ASSUME NEW w, w \subseteq 0..3
               PROVE  IntShl(w, RT) \subseteq Low /\ IntShl(w, RS2) \subseteq Low
    OBVIOUS
  <2>1. /\ Shl(w, RT, 32) \subseteq Low /\ 31 \notin Shl(w, RT, 32)
        /\ Shl(w, RS2, 32) \subseteq Low /\ 31 \notin Shl(w, RS2, 32)
    BY DEF Shl, RT, RS2
  <2> QED BY <2>1 DEF IntShl, SignExtend
<1>5. \A n \in 0..15 : Target(n) \subseteq Low
  BY <1>4, SmallBits DEF Target
<1>6. Sources(3, 4) \subseteq Low
  <2>1. Bits(4) \subseteq 0..3
    BY CodeBits
  <2> QED BY <1>2, <1>4, <2>1 DEF Sources
<1>7. \A i : i \subseteq Low \cup 48..51 => i \in SUBSET (0..63) /\ 61 \notin i
  OBVIOUS
<1>8. \A i : i \subseteq Low \cup 48..51 => i \in Word
  BY <1>7, NoInfo DEF Word
<1>9. ASSUME NEW imd \in SUBSET (0..30), NEW rt \in 0..15
      PROVE  SMC_LI(imd, rt) \in Word
  <2> DEFINE high == Inst(Shr(imd, 16), IMD3)
  <2>1. high \in SUBSET (0..63) /\ \A b \in high : b <= 38
    BY DEF Inst, Shl, Shr, IMD3
  <2> HIDE DEF high
  <2>2. FuCode(ArithCodes.LI) \subseteq 48..51
    BY <1>3 DEF ArithCodes
  <2> DEFINE i == SMC_LI(imd, rt)
  <2>3. i \in SUBSET (0..63) /\ 61 \notin i
    <3>1. i = FuCode(ArithCodes.LI) \cup UintShl(Shr(Shl(imd, 16, 32), 16), IMD1) \cup high \cup Target(rt)
      BY DEF SMC_LI, high
    <3>2. UintShl(Shr(Shl(imd, 16, 32), 16), IMD1) \subseteq Low /\ Target(rt) \subseteq Low
      BY <1>1, <1>5
    <3>3. \A b \in i : b \in high \/ b \in Low \/ b \in 48..51
      BY <2>2, <3>1, <3>2
    <3> HIDE DEF i
    <3>4. \A b \in i : b \in 0..63 /\ b # 61
      <4> TAKE b \in i
      <4>1. CASE b \in high
        BY <2>1, <4>1
      <4>2. CASE b \in Low \/ b \in 48..51
        BY <4>2
      <4> QED BY <3>3, <4>1, <4>2
    <3> QED BY <3>4
  <2> HIDE DEF i
  <2>4. ~IsInfo(i)
    BY <2>3, NoInfo
  <2> QED BY <2>3, <2>4 DEF Word, i
<1>10. ASSUME NEW r \in 0..15, NEW s \in 0..15
       PROVE  ArithRR("LDWD", r, s) \in Word
  <2>1. FuCode(ArithCodes["LDWD"]) \subseteq 48..51
    BY <1>3 DEF ArithCodes
  <2>2. ArithRR("LDWD", r, s) \subseteq Low \cup 48..51
    BY <1>2, <1>5, <2>1 DEF ArithRR
  <2> HIDE DEF Low
  <2> QED BY <1>8, <2>2
<1>11. ASSUME NEW w, w \in SUBSET (0..63), 62 \in w, w \subseteq Low \cup 48..51 \cup {62}
       PROVE  w \in Word /\ is_branch(w)
  <2>1. 59 \notin w /\ 60 \notin w /\ 61 \notin w /\ 63 \notin w
    BY <1>11
  <2> QED BY <1>11, <2>1, NoInfo, BranchUnit DEF Word
<1>12. SMC_BL(3, 4, 0) \in Word /\ IsOpen(SMC_BL(3, 4, 0))
  <2>1. Inst(Bits(0), BR_TGT) = {} /\ FuCode(BranchCodes.BL) = {}
    BY CodeBits DEF Inst, Shl, FuCode, BranchCodes
  <2>2. Sources(3, 4) \subseteq 0..7
    <3>1. Bits(3) \subseteq 0..3
      BY SmallBits
    <3>2. Shl(Bits(4), RS2, 32) = {6}
      BY CodeBits DEF Shl, RS2
    <3>3. IntShl(Bits(4), RS2) = {6}
      BY <3>2 DEF IntShl, SignExtend
    <3> QED BY <3>1, <3>3 DEF Sources
  <2>3. PICK i : i = SMC_BL(3, 4, 0)
    OBVIOUS
  <2>4. i \subseteq 0..7 \cup {62} /\ 62 \in i
    BY <2>1, <2>2, <2>3 DEF SMC_BL, IS_BR
  <2>5. i \in SUBSET (0..63) /\ i \subseteq Low \cup 48..51 \cup {62}
    BY <2>4
  <2>6. is_conditional(i)
    <3>1. FunctionCode(i) = {}
      BY <2>4 DEF FunctionCode, Shr, FU_CODE
    <3> QED BY <3>1, CodeBits DEF is_conditional
  <2>7. Field(i, BR_TGT, 19) = {}
    <3>1. \A b \in 0..18 : b + 8 \notin i
      BY <2>4
    <3> QED BY <2>5, <3>1, TargetBit
  <2> HIDE DEF Low
  <2>8. i \in Word /\ is_branch(i)
    BY <1>11, <2>4, <2>5
  <2> QED BY <2>3, <2>6, <2>7, <2>8 DEF IsOpen, TargetOf
<1>13. SMC_JUMP(0) \in Word /\ IsOpen(SMC_JUMP(0))
  <2>1. FuCode(BranchCodes.JUMP) \subseteq 48..51 /\ Bits(0) = {}
    BY <1>3, CodeBits DEF BranchCodes
  <2>2. PICK i : i = SMC_JUMP(0)
    OBVIOUS
  <2>3. i \subseteq 48..51 \cup {62} /\ 62 \in i
    BY <2>1, <2>2 DEF SMC_JUMP, IS_BR
  <2>4. i \in SUBSET (0..63) /\ i \subseteq Low \cup 48..51 \cup {62}
    BY <2>3
  <2>5. Field(i, BR_TGT, 19) = {} /\ Field(i, 0, 27) = {}
    <3>1. \A b \in 0..18 : b + 8 \notin i
      BY <2>3
    <3>2. \A b \in 0..26 : b \notin i
      BY <2>3
    <3> QED BY <2>4, <3>1, <3>2, TargetBit
  <2> HIDE DEF Low
  <2>6. i \in Word /\ is_branch(i)
    BY <1>11, <2>3, <2>4
  <2> QED BY <2>2, <2>5, <2>6 DEF IsOpen, TargetOf
<1>14. SMC_END \in Word
  BY <1>8 DEF SMC_END
<1>15. all_nops \in Word
  BY PackIsWord, CommandIsMini DEF all_nops, DDRCommand
<1> QED BY <1>9, <1>10, <1>12, <1>13, <1>14, <1>15

\* add_inst pushes words.
LEMMA PushedAreWords ==
  ASSUME NEW i \in Word
  PROVE  Pushed(i) \in Seq(Word)
BY EncodersMakeWords DEF Pushed

\* pack_minprogram makes words of the pending commands.
LEMMA PackedAreWords ==
  ASSUME NEW minis \in Seq(DDRCommand)
  PROVE  PackedWords(minis) \in Seq(Word)
<1> DEFINE mini(k) == IF k <= Len(minis) THEN minis[k] ELSE SMC_NOP
           n       == (Len(minis) + 3) \div 4
           word(w) == pack_mininsts(mini(4 * w - 3), mini(4 * w - 2), mini(4 * w - 1), mini(4 * w))
<1>1. n \in Nat
  OBVIOUS
<1>2. ASSUME NEW w \in 1..n  PROVE word(w) \in Word
  <2>1. w \in Int /\ 4 * w - 3 \in Int /\ 4 * w - 3 >= 1 /\ 4 * w \in Int /\ 4 * w >= 1
    <3> HIDE DEF n, mini
    <3> QED BY <1>1
  <2>2. ASSUME NEW k \in Int, k >= 1 PROVE mini(k) \in DDRCommand
    <3>1. ASSUME k <= Len(minis)  PROVE minis[k] \in DDRCommand
      <4>1. k \in 1..Len(minis)
        BY <2>2, <3>1
      <4> QED BY <4>1, ElementOfSeq
    <3> QED BY <3>1, CommandIsMini
  <2> HIDE DEF mini
  <2>3. mini(4 * w - 3) \in DDRCommand /\ mini(4 * w) \in DDRCommand
    BY <2>1, <2>2
  <2>4. mini(4 * w - 3) \in SUBSET (0..30)
    BY <2>3 DEF DDRCommand
  <2> QED BY <2>3, <2>4, PackIsWord
<1> HIDE DEF word, n
<1>3. [w \in 1..n |-> word(w)] \in Seq(Word)
  BY <1>1, <1>2, IsASeq
<1> QED BY <1>3 DEF PackedWords, word, n

\* dump_registers adds words.
LEMMA DumpWordsAreWords == DumpWords \in Seq(Word)
<1> DEFINE alone(m)   == pack_mininsts(m, SMC_NOP, SMC_NOP, SMC_NOP)
           idle(n)    == [k \in 1..n |-> all_nops]
           access(op) == alone(Column(op, 13, 0, 15, 0, 0, 0))
           start      == <<SMC_LI(Bits(15), 13), SMC_LI({}, 14), SMC_LI({}, 15), alone(SMC_PRE(13, 0, 1, 0))>>
           open       == <<alone(SMC_ACT(13, 0, 14, 0, 0))>>
           loads      == [i \in 1..16 |-> ArithRR("LDWD", i - 1, i - 1)]
           close      == <<alone(SMC_PRE(13, 0, 1, 0))>>
<1>1. \A m \in SUBSET (0..30) : alone(m) \in Word
  BY PackIsWord, CommandIsMini DEF DDRCommand
<1>2. alone(SMC_PRE(13, 0, 1, 0)) \in Word /\ alone(SMC_ACT(13, 0, 14, 0, 0)) \in Word
  <2> HIDE DEF alone
  <2> QED BY <1>1, CommandIsMini
<1>3. \A op : access(op) \in Word
  <2> HIDE DEF alone
  <2> QED BY <1>1, CommandIsMini
<1> HIDE DEF alone, access
<1>4. start \in Seq(Word) /\ open \in Seq(Word) /\ close \in Seq(Word)
  <2>1. Bits(15) \in SUBSET (0..30) /\ {} \in SUBSET (0..30)
    BY DEF Bits
  <2> QED BY <1>2, <2>1, EncodersMakeWords
<1>5. \A n \in Nat : idle(n) \in Seq(Word)
  BY EncodersMakeWords, IsASeq
<1>6. loads \in Seq(Word)
  BY EncodersMakeWords, IsASeq
<1>7. \A op : <<access(op)>> \in Seq(Word)
  BY <1>3
<1>8. \A s \in Seq(Word), t \in Seq(Word) : s \o t \in Seq(Word)
  BY ConcatProperties
<1> HIDE DEF start, open, close, idle, loads
<1>9. start \o idle(3) \o open \o idle(2) \o <<access("WRITE")>> \o idle(3) \o <<access("READ")>>
        \o loads \o <<access("WRITE")>> \o idle(3) \o <<access("READ")>>
        \o idle(2) \o close \in Seq(Word)
  <2>1. start \o idle(3) \o open \o idle(2) \o <<access("WRITE")>> \in Seq(Word)
    BY <1>4, <1>5, <1>7, <1>8
  <2>2. start \o idle(3) \o open \o idle(2) \o <<access("WRITE")>> \o idle(3) \o <<access("READ")>>
          \o loads \in Seq(Word)
    BY <2>1, <1>5, <1>6, <1>7, <1>8
  <2> QED BY <2>2, <1>4, <1>5, <1>7, <1>8
<1> QED BY <1>9 DEF DumpWords, start, open, close, idle, loads, access, alone

-----------------------------------------------------------------------------
(* Each way of adding to a program keeps it in step with the words that were
   asked for *)

\* Putting a pair into a map.
LEMMA PutInMaps ==
  ASSUME NEW Keys, NEW Values, NEW map \in UNION {[D -> Values] : D \in SUBSET Keys},
         NEW key \in Keys, NEW value \in Values
  PROVE  Put(map, key, value) \in UNION {[D -> Values] : D \in SUBSET Keys}
<1>1. PICK D \in SUBSET Keys : map \in [D -> Values]
  OBVIOUS
<1>2. Put(map, key, value) \in [D \cup {key} -> Values]
  BY <1>1 DEF Put
<1>3. D \cup {key} \in SUBSET Keys
  OBVIOUS
<1> QED BY <1>2, <1>3

\* The words and branches of a program under construction can be changed.
LEMMA BuildTypeChanges ==
  ASSUME NEW p \in BuildType, NEW prog \in Seq(Word), NEW maps \in BranchMaps, NEW n \in Nat
  PROVE  [p EXCEPT !.program = prog, !.branches = maps, !.spc = n] \in BuildType
BY DEF BuildType

\* InStep looks at four members.
LEMMA InStepSame ==
  ASSUME NEW p, NEW q, NEW words, InStep(p, words),
         q.program = p.program, q.spc = p.spc, q.branches = p.branches, q.labels = p.labels
  PROVE  InStep(q, words)
BY DEF InStep

\* Words(ws, u) records the words of ws, in order, as no branches.
LEMMA WordsProperties ==
  ASSUME NEW ws \in Seq(Word), NEW unit \in Nat
  PROVE  /\ Words(ws, unit) \in Seq(Item)
         /\ Len(Words(ws, unit)) = Len(ws)
         /\ \A k \in 1..Len(ws) : /\ Words(ws, unit)[k].word = ws[k]
                                  /\ Words(ws, unit)[k].tgt = NoTarget
<1>1. \A k \in 1..Len(ws) : ws[k] \in Word
  BY ElementOfSeq
<1>2. \A k \in 1..Len(ws) : [word |-> ws[k], tgt |-> NoTarget, unit |-> unit] \in Item
  BY <1>1 DEF Item
<1> HIDE DEF Item
<1>3. Len(ws) \in Nat
  OBVIOUS
<1> QED BY <1>2, <1>3, IsASeq DEF Words

\* Words without branches at the end: add_inst, dump_registers, pack_minprogram.
LEMMA AddWordsInStep ==
  ASSUME NEW p \in BuildType, NEW src \in Seq(Item), InStep(p, src),
         NEW ws \in Seq(Word), NEW unit \in Nat
  PROVE  /\ AddWords(p, ws) \in BuildType
         /\ src \o Words(ws, unit) \in Seq(Item)
         /\ InStep(AddWords(p, ws), src \o Words(ws, unit))
<1> DEFINE q   == AddWords(p, ws)
           new == Words(ws, unit)
           all == src \o new
<1>1. /\ p.program \in Seq(Word) /\ p.spc \in Nat /\ p.spc = Len(p.program) /\ Len(src) = p.spc
      /\ Len(ws) \in Nat
  BY DEF BuildType, InStep
<1>2. new \in Seq(Item) /\ Len(new) = Len(ws) /\ \A k \in 1..Len(ws) : new[k].word = ws[k] /\ new[k].tgt = NoTarget
  BY WordsProperties
<1>3. q.program = p.program \o ws /\ q.spc = p.spc + Len(ws) /\ q.branches = p.branches /\ q.labels = p.labels
  BY DEF AddWords, BuildType
<1>4. q \in BuildType
  <2>1. p.program \o ws \in Seq(Word)
    BY <1>1, ConcatProperties
  <2>2. p.spc + Len(ws) \in Nat
    BY <1>1
  <2>3. q = [p EXCEPT !.program = p.program \o ws, !.spc = p.spc + Len(ws)]
    BY DEF AddWords
  <2> QED BY <2>1, <2>2, <2>3 DEF BuildType
<1> HIDE DEF new
<1>5. /\ all \in Seq(Item) /\ Len(all) = p.spc + Len(ws)
      /\ \A k \in 1..(p.spc + Len(ws)) : all[k] = IF k <= p.spc THEN src[k] ELSE new[k - p.spc]
  <2>1. /\ src \o new \in Seq(Item) /\ Len(src \o new) = Len(src) + Len(new)
        /\ \A k \in 1..(Len(src) + Len(new)) :
              (src \o new)[k] = IF k <= Len(src) THEN src[k] ELSE new[k - Len(src)]
    <3>1. new \in Seq(Item)
      BY <1>2
    <3> QED BY <3>1, ConcatProperties
  <2> QED BY <2>1, <1>1, <1>2
<1>6. /\ Len(q.program) = p.spc + Len(ws)
      /\ \A k \in 1..(p.spc + Len(ws)) :
            q.program[k] = IF k <= p.spc THEN p.program[k] ELSE ws[k - p.spc]
  BY <1>1, <1>3, ConcatProperties
<1> HIDE DEF q, all
<1>7. \A k \in 1..Len(all) : q.program[k] = all[k].word
  <2> SUFFICES ASSUME NEW k \in 1..(p.spc + Len(ws))  PROVE q.program[k] = all[k].word
    BY <1>5
  <2>1. CASE k <= p.spc
    BY <2>1, <1>1, <1>5, <1>6 DEF InStep
  <2>2. CASE ~(k <= p.spc)
    <3>1. k - p.spc \in 1..Len(ws)
      BY <2>2, <1>1
    <3> QED BY <3>1, <2>2, <1>2, <1>5, <1>6
  <2> QED BY <2>1, <2>2
<1>8. {k \in 1..Len(all) : all[k].tgt # NoTarget} = {k \in 1..Len(src) : src[k].tgt # NoTarget}
  <2>1. \A k \in 1..Len(all) : k > p.spc => all[k].tgt = NoTarget
    <3> SUFFICES ASSUME NEW k \in 1..(p.spc + Len(ws)), k > p.spc  PROVE all[k].tgt = NoTarget
      BY <1>5
    <3>1. k - p.spc \in 1..Len(ws) /\ ~(k <= p.spc)
      BY <1>1
    <3>2. all[k] = new[k - p.spc]
      BY <3>1, <1>5
    <3> QED BY <3>1, <3>2, <1>2
  <2> QED BY <2>1, <1>1, <1>5
<1>9. DOMAIN q.branches = {k - 1 : k \in {n \in 1..Len(all) : all[n].tgt # NoTarget}}
  BY <1>3, <1>8 DEF InStep
<1>10. \A b \in DOMAIN q.branches : q.branches[b] = all[b + 1].tgt
  <2> SUFFICES ASSUME NEW b \in DOMAIN p.branches  PROVE p.branches[b] = all[b + 1].tgt
    BY <1>3
  <2>1. b + 1 \in 1..p.spc
    BY <1>1 DEF InStep
  <2> QED BY <2>1, <1>1, <1>5 DEF InStep
<1>11. \A l \in DOMAIN q.labels : q.labels[l] \in 0..q.spc
  BY <1>1, <1>3 DEF InStep
<1>12. q.spc = Len(q.program) /\ Len(all) = Len(q.program)
  BY <1>3, <1>5, <1>6
<1>13. InStep(q, all)
  BY <1>7, <1>9, <1>10, <1>11, <1>12 DEF InStep
<1> QED BY <1>4, <1>5, <1>13 DEF q, all, new

\* add_branch: the word at the end is a branch to tgt.
LEMMA AddBranchInStep ==
  ASSUME NEW p \in BuildType, NEW src \in Seq(Item), InStep(p, src),
         NEW w \in Word, IsOpen(w), NEW tgt \in Labels, NEW unit \in Nat
  PROVE  /\ AddBranchWord(p, w, tgt) \in BuildType
         /\ Append(src, [word |-> w, tgt |-> tgt, unit |-> unit]) \in Seq(Item)
         /\ InStep(AddBranchWord(p, w, tgt), Append(src, [word |-> w, tgt |-> tgt, unit |-> unit]))
<1> DEFINE q    == AddBranchWord(p, w, tgt)
           item == [word |-> w, tgt |-> tgt, unit |-> unit]
           all  == Append(src, item)
<1>1. p.program \in Seq(Word) /\ p.spc \in Nat /\ p.spc = Len(p.program) /\ Len(src) = p.spc
  BY DEF BuildType, InStep
<1>2. item \in Item /\ item.word = w /\ item.tgt = tgt
  BY DEF Item
<1>3. /\ q.program = p.program \o <<w>> /\ q.spc = p.spc + 1 /\ q.branches = Put(p.branches, p.spc, tgt)
      /\ q.labels = p.labels
  BY DEF AddBranchWord, AddWords, BuildType
<1>4. p.program \o <<w>> \in Seq(Word)
  BY <1>1, ConcatProperties
<1>5. Put(p.branches, p.spc, tgt) \in BranchMaps
  BY <1>1, PutInMaps DEF BuildType, BranchMaps
<1>6. q \in BuildType
  <2>1. q = [p EXCEPT !.program = p.program \o <<w>>, !.branches = Put(p.branches, p.spc, tgt), !.spc = p.spc + 1]
    BY DEF AddBranchWord, AddWords, BuildType
  <2>2. p.spc + 1 \in Nat
    BY <1>1
  <2> HIDE DEF q
  <2> QED BY <2>1, <2>2, <1>4, <1>5, BuildTypeChanges
<1>7. /\ Len(q.program) = p.spc + 1 /\ q.program[p.spc + 1] = w
      /\ \A k \in 1..p.spc : q.program[k] = p.program[k]
  <2>1. <<w>> \in Seq(Word) /\ Len(<<w>>) = 1 /\ <<w>>[1] = w
    OBVIOUS
  <2> QED BY <2>1, <1>1, <1>3, ConcatProperties
<1> HIDE DEF item
<1>8. /\ all \in Seq(Item) /\ Len(all) = p.spc + 1 /\ all[p.spc + 1] = item
      /\ \A k \in 1..p.spc : all[k] = src[k]
  BY <1>1, <1>2, AppendProperties
<1> HIDE DEF q, all
<1>9. \A k \in 1..Len(all) : q.program[k] = all[k].word
  <2> SUFFICES ASSUME NEW k \in 1..(p.spc + 1)  PROVE q.program[k] = all[k].word
    BY <1>8
  <2>1. CASE k = p.spc + 1
    BY <2>1, <1>2, <1>7, <1>8
  <2>2. CASE k # p.spc + 1
    <3>1. k \in 1..p.spc
      BY <2>2, <1>1
    <3> QED BY <3>1, <1>1, <1>7, <1>8 DEF InStep
  <2> QED BY <2>1, <2>2
<1>10. DOMAIN q.branches = {k - 1 : k \in {n \in 1..Len(all) : all[n].tgt # NoTarget}}
  <2>1. {n \in 1..Len(all) : all[n].tgt # NoTarget}
          = {n \in 1..Len(src) : src[n].tgt # NoTarget} \cup {p.spc + 1}
    BY <1>1, <1>2, <1>8, LabelsAssumption
  <2>2. DOMAIN q.branches = DOMAIN p.branches \cup {p.spc}
    BY <1>3 DEF Put
  <2>3. DOMAIN p.branches = {k - 1 : k \in {n \in 1..Len(src) : src[n].tgt # NoTarget}}
    BY DEF InStep
  <2> QED BY <2>1, <2>2, <2>3, <1>1
<1>11. \A b \in DOMAIN q.branches : q.branches[b] = all[b + 1].tgt
  <2> SUFFICES ASSUME NEW b \in DOMAIN q.branches  PROVE q.branches[b] = all[b + 1].tgt
    OBVIOUS
  <2>1. CASE b = p.spc
    BY <2>1, <1>2, <1>3, <1>8 DEF Put
  <2>2. CASE b # p.spc
    <3>1. b \in DOMAIN p.branches /\ q.branches[b] = p.branches[b]
      BY <2>2, <1>3 DEF Put
    <3>2. b + 1 \in 1..p.spc
      BY <3>1, <1>1 DEF InStep
    <3> QED BY <3>1, <3>2, <1>8 DEF InStep
  <2> QED BY <2>1, <2>2
<1>12. \A l \in DOMAIN q.labels : q.labels[l] \in 0..q.spc
  BY <1>1, <1>3 DEF InStep
<1>13. InStep(q, all)
  BY <1>3, <1>7, <1>8, <1>9, <1>10, <1>11, <1>12 DEF InStep
<1> QED BY <1>6, <1>8, <1>13 DEF q, all, item

\* add_label: a label at the end.
LEMMA AddLabelInStep ==
  ASSUME NEW p \in BuildType, NEW src, InStep(p, src), NEW name \in Labels
  PROVE  /\ [p EXCEPT !.labels = Put(@, name, p.spc)] \in BuildType
         /\ InStep([p EXCEPT !.labels = Put(@, name, p.spc)], src)
<1> DEFINE maps == Put(p.labels, name, p.spc)
           q    == [p EXCEPT !.labels = maps]
<1>1. p.spc \in Nat /\ p.labels \in LabelMaps
  BY DEF BuildType
<1>2. maps \in LabelMaps
  BY <1>1, PutInMaps DEF LabelMaps
<1>3. \A l \in DOMAIN maps : maps[l] \in 0..p.spc
  BY <1>1 DEF Put, InStep
<1> HIDE DEF maps
<1>4. q \in BuildType
  BY <1>2 DEF BuildType
<1>5. q.program = p.program /\ q.spc = p.spc /\ q.branches = p.branches /\ q.labels = maps
  BY DEF BuildType
<1> HIDE DEF q
<1>6. InStep(q, src)
  BY <1>3, <1>5 DEF InStep
<1> QED BY <1>4, <1>6 DEF q, maps

\* What OthersAssumption says of the maps of a program.
LEMMA BuiltMaps ==
  ASSUME NEW q, Built(q)
  PROVE  /\ q.program \in Seq(Word) /\ q.spc = Len(q.program) /\ q.spc \in Nat
         /\ q.branches \in BranchMaps /\ q.labels \in LabelMaps
         /\ DOMAIN q.branches \subseteq 0..(q.spc - 1)
         /\ \A b \in DOMAIN q.branches : q.branches[b] \in Labels
         /\ DOMAIN q.labels \subseteq Labels
         /\ \A l \in DOMAIN q.labels : q.labels[l] \in 0..q.spc
<1>1. q.program \in Seq(Word) /\ q.spc = Len(q.program) /\ q.spc \in Nat
  <2> DEFINE prog == q.program
  <2>1. /\ prog \in Seq(SUBSET (0..63)) /\ Len(prog) \in Nat /\ prog = [k \in 1..Len(prog) |-> prog[k]]
        /\ \A k \in 1..Len(prog) : ~IsInfo(prog[k])
    BY DEF Built
  <2> HIDE DEF prog
  <2>2. \A k \in 1..Len(prog) : prog[k] \in SUBSET (0..63)
    BY <2>1, ElementOfSeq
  <2>3. \A k \in 1..Len(prog) : prog[k] \in Word
    BY <2>1, <2>2 DEF Word
  <2>4. prog \in Seq(Word)
    BY <2>1, <2>3, IsASeq
  <2> QED BY <2>1, <2>4 DEF Built, prog
<1>2. PICK D \in SUBSET (0..(q.spc - 1)) : q.branches \in [D -> Labels]
  BY DEF Built
<1>3. PICK E \in SUBSET Labels : q.labels \in [E -> 0..q.spc]
  BY DEF Built
<1>4. q.branches \in BranchMaps
  <2>1. D \in SUBSET Nat
    BY <1>1
  <2> QED BY <1>2, <2>1 DEF BranchMaps
<1>5. q.labels \in LabelMaps
  <2>1. q.labels \in [E -> Nat]
    BY <1>1, <1>3
  <2> QED BY <2>1 DEF LabelMaps
<1> QED BY <1>1, <1>2, <1>3, <1>4, <1>5

\* Contents(q, u) records the words and branches of q.
LEMMA ContentsProperties ==
  ASSUME NEW q, Built(q), NEW unit \in Nat
  PROVE  /\ Contents(q, unit) \in Seq(Item)
         /\ Len(Contents(q, unit)) = q.spc
         /\ \A k \in 1..q.spc :
              /\ Contents(q, unit)[k].word = q.program[k]
              /\ Contents(q, unit)[k].tgt =
                   IF k - 1 \in DOMAIN q.branches THEN q.branches[k - 1] ELSE NoTarget
<1> DEFINE tgt(k)  == IF k - 1 \in DOMAIN q.branches THEN q.branches[k - 1] ELSE NoTarget
           item(k) == [word |-> q.program[k], unit |-> unit, tgt |-> tgt(k)]
<1>1. q.program \in Seq(Word) /\ q.spc = Len(q.program) /\ q.spc \in Nat
  BY BuiltMaps
<1>2. \A k : tgt(k) \in Labels \cup {NoTarget}
  BY BuiltMaps
<1>3. \A k \in 1..q.spc : q.program[k] \in Word
  BY <1>1, ElementOfSeq
<1>4. Contents(q, unit) = [k \in 1..q.spc |-> item(k)]
  BY <1>1 DEF Contents
<1>5. \A k : item(k).word = q.program[k] /\ item(k).tgt = tgt(k)
  OBVIOUS
<1>6. \A k \in 1..q.spc : tgt(k) # NoTarget => IsOpen(q.program[k])
  <2> SUFFICES ASSUME NEW k \in 1..q.spc, k - 1 \in DOMAIN q.branches PROVE IsOpen(q.program[k])
    OBVIOUS
  <2>1. IsOpen(At(q, k - 1)) /\ k - 1 + 1 = k
    BY <1>1 DEF Built
  <2> QED BY <2>1 DEF At
<1> HIDE DEF tgt
<1>7. \A k \in 1..q.spc : item(k) \in Item
  BY <1>2, <1>3, <1>6 DEF Item
<1> HIDE DEF item
<1>8. Contents(q, unit) \in Seq(Item) /\ Len(Contents(q, unit)) = q.spc
  BY <1>1, <1>4, <1>7, IsASeq
<1> QED BY <1>4, <1>5, <1>8 DEF tgt

\* add_below: the words, branches and labels of q move by the length of p.
LEMMA BelowInStep ==
  ASSUME NEW p \in BuildType, NEW src \in Seq(Item), InStep(p, src),
         NEW q, Built(q), NEW unit \in Nat
  PROVE  /\ Below(p, q) \in BuildType
         /\ src \o Contents(q, unit) \in Seq(Item)
         /\ InStep(Below(p, q), src \o Contents(q, unit))
<1> DEFINE m   == p.spc
           n   == q.spc
           r   == Below(p, q)
           new == Contents(q, unit)
           all == src \o new
           brs == [pc \in DOMAIN p.branches \cup {b + m : b \in DOMAIN q.branches} |->
                     IF pc - m \in DOMAIN q.branches THEN q.branches[pc - m] ELSE p.branches[pc]]
           lbs == [l \in DOMAIN p.labels \cup DOMAIN q.labels |->
                     IF l \in DOMAIN q.labels THEN q.labels[l] + m ELSE p.labels[l]]
<1>1. m \in Nat /\ n \in Nat
  BY BuiltMaps DEF BuildType
<1>2. p.program \in Seq(Word) /\ Len(p.program) = m /\ Len(src) = m
  BY DEF BuildType, InStep
<1>3. q.program \in Seq(Word) /\ Len(q.program) = n
  BY BuiltMaps
<1>4. /\ new \in Seq(Item) /\ Len(new) = n
      /\ \A k \in 1..n :
           /\ new[k].word = q.program[k]
           /\ new[k].tgt = IF k - 1 \in DOMAIN q.branches THEN q.branches[k - 1] ELSE NoTarget
  BY ContentsProperties
<1> HIDE DEF new
<1>5. r = [p EXCEPT !.program = p.program \o q.program, !.branches = brs, !.labels = lbs,
                    !.spc = m + n]
  BY DEF Below, BuildType
<1>6. /\ DOMAIN p.branches \subseteq 0..(m - 1) /\ \A b \in DOMAIN p.branches : p.branches[b] \in Labels
      /\ DOMAIN p.labels \subseteq Labels /\ \A l \in DOMAIN p.labels : p.labels[l] \in 0..m
  <2>1. DOMAIN p.branches \subseteq 0..(m - 1)
    BY <1>1, <1>2 DEF InStep
  <2>2. PICK D \in SUBSET Nat : p.branches \in [D -> Labels]
    BY DEF BuildType, BranchMaps
  <2>3. PICK E \in SUBSET Labels : p.labels \in [E -> Nat]
    BY DEF BuildType, LabelMaps
  <2> QED BY <2>1, <2>2, <2>3 DEF InStep
<1>7. /\ DOMAIN q.branches \subseteq 0..(n - 1) /\ \A b \in DOMAIN q.branches : q.branches[b] \in Labels
      /\ DOMAIN q.labels \subseteq Labels /\ \A l \in DOMAIN q.labels : q.labels[l] \in 0..n
  BY BuiltMaps
<1>8. /\ \A k \in 1..m : p.program[k] = src[k].word
      /\ \A k \in 1..m : src[k].tgt # NoTarget <=> k - 1 \in DOMAIN p.branches
      /\ \A b \in DOMAIN p.branches : p.branches[b] = src[b + 1].tgt
  BY <1>1, <1>2 DEF InStep
<1> HIDE DEF m, n
<1>9. brs \in BranchMaps
  <2> DEFINE D == DOMAIN p.branches \cup {b + m : b \in DOMAIN q.branches}
  <2>1. D \in SUBSET Nat
    BY <1>1, <1>6, <1>7
  <2>2. \A pc \in D : brs[pc] \in Labels
    BY <1>1, <1>6, <1>7
  <2>3. brs \in [D -> Labels]
    BY <2>2
  <2> QED BY <2>1, <2>3 DEF BranchMaps
<1>10. lbs \in LabelMaps /\ \A l \in DOMAIN lbs : lbs[l] \in 0..(m + n)
  <2> DEFINE D == DOMAIN p.labels \cup DOMAIN q.labels
  <2>1. D \in SUBSET Labels
    BY <1>6, <1>7
  <2>2. \A l \in D : lbs[l] \in 0..(m + n)
    BY <1>1, <1>6, <1>7
  <2>3. \A i \in 0..(m + n) : i \in Nat
    BY <1>1
  <2>4. lbs \in [D -> Nat]
    BY <2>2, <2>3
  <2> QED BY <2>1, <2>2, <2>4 DEF LabelMaps
<1>11. /\ p.program \o q.program \in Seq(Word)
      /\ Len(p.program \o q.program) = m + n
      /\ \A k \in 1..(m + n) : (p.program \o q.program)[k] =
             IF k <= m THEN p.program[k] ELSE q.program[k - m]
  <2> DEFINE s == p.program
             t == q.program
  <2>1. s \in Seq(Word) /\ Len(s) = m /\ t \in Seq(Word) /\ Len(t) = n
    BY <1>2, <1>3
  <2> HIDE DEF s, t
  <2>2. /\ s \o t \in Seq(Word) /\ Len(s \o t) = Len(s) + Len(t)
        /\ \A k \in 1..(Len(s) + Len(t)) : (s \o t)[k] = IF k <= Len(s) THEN s[k] ELSE t[k - Len(s)]
    BY <2>1, ConcatProperties
  <2> QED BY <2>1, <2>2 DEF s, t
<1>12. /\ src \o new \in Seq(Item) /\ Len(src \o new) = Len(src) + Len(new)
      /\ \A k \in 1..(Len(src) + Len(new)) :
            (src \o new)[k] = IF k <= Len(src) THEN src[k] ELSE new[k - Len(src)]
  <2>1. new \in Seq(Item)
    BY <1>4
  <2> QED BY <2>1, ConcatProperties
<1>13. /\ all \in Seq(Item) /\ Len(all) = m + n
       /\ \A k \in 1..(m + n) : all[k] = IF k <= m THEN src[k] ELSE new[k - m]
  BY <1>1, <1>2, <1>4, <1>12
<1> HIDE DEF r, all
<1>14. /\ r \in BuildType /\ r.program = p.program \o q.program /\ r.spc = m + n
       /\ r.branches = brs /\ r.labels = lbs
  <2>1. m + n \in Nat
    BY <1>1
  <2> HIDE DEF brs, lbs
  <2> QED BY <1>5, <1>9, <1>10, <1>11, <2>1 DEF BuildType
<1>15. \A k \in 1..(m + n) : r.program[k] = all[k].word
  <2> TAKE k \in 1..(m + n)
  <2>1. CASE k <= m
    <3>1. k \in 1..m
      BY <2>1, <1>1
    <3>2. all[k] = src[k]
      BY <2>1, <1>13, Zenon
    <3>3. r.program[k] = p.program[k]
      BY <2>1, <1>11, <1>14, Zenon
    <3> QED BY <3>1, <3>2, <3>3, <1>8, Zenon
  <2>2. CASE ~(k <= m)
    <3>1. k - m \in 1..n
      BY <2>2, <1>1
    <3>2. all[k] = new[k - m] /\ r.program[k] = q.program[k - m]
      BY <2>2, <1>11, <1>13, <1>14
    <3> QED BY <3>1, <3>2, <1>4
  <2> QED BY <2>1, <2>2
<1>16. \A k \in 1..(m + n) :
          /\ all[k].tgt # NoTarget <=> k - 1 \in DOMAIN brs
          /\ all[k].tgt # NoTarget => all[k].tgt = brs[k - 1]
  <2> TAKE k \in 1..(m + n)
  <2>1. CASE k <= m
    <3>1. all[k] = src[k] /\ k \in 1..m
      BY <2>1, <1>1, <1>13
    <3>2. src[k].tgt # NoTarget <=> k - 1 \in DOMAIN p.branches
      BY <3>1, <1>8
    <3>3. k - 1 \in DOMAIN p.branches => p.branches[k - 1] = src[k].tgt
      BY <3>1, <1>8
    <3>4. ~(k - 1 - m \in DOMAIN q.branches)
      BY <2>1, <1>1, <1>7
    <3>5. k - 1 \in DOMAIN brs <=> k - 1 \in DOMAIN p.branches
      BY <3>4, <1>1, <1>7
    <3> QED BY <3>1, <3>2, <3>3, <3>4, <3>5
  <2>2. CASE ~(k <= m)
    <3>1. k - m \in 1..n /\ k - m - 1 = k - 1 - m
      BY <2>2, <1>1
    <3>2. all[k] = new[k - m]
      BY <2>2, <1>13
    <3>3. all[k].tgt = IF k - 1 - m \in DOMAIN q.branches THEN q.branches[k - 1 - m] ELSE NoTarget
      BY <3>1, <3>2, <1>4
    <3>4. ~(k - 1 \in DOMAIN p.branches)
      BY <2>2, <1>1, <1>6
    <3>5. k - 1 \in DOMAIN brs <=> k - 1 - m \in DOMAIN q.branches
      <4>1. k - 1 = (k - 1 - m) + m
        BY <1>1
      <4>2. \A b \in DOMAIN q.branches : k - 1 = b + m => b = k - 1 - m
        BY <1>1, <1>7
      <4> QED BY <4>1, <4>2, <3>4
    <3> QED BY <3>3, <3>4, <3>5, <1>7, LabelsAssumption
  <2> QED BY <2>1, <2>2
<1>17. DOMAIN brs \subseteq 0..(m + n - 1)
  BY <1>1, <1>6, <1>7
<1> HIDE DEF brs, lbs
<1>18. DOMAIN r.branches = {k - 1 : k \in {i \in 1..Len(all) : all[i].tgt # NoTarget}}
  <2>1. \A b \in DOMAIN brs : b + 1 \in 1..(m + n) /\ (b + 1) - 1 = b
    BY <1>1, <1>17
  <2> QED BY <2>1, <1>13, <1>14, <1>16
<1>19. \A b \in DOMAIN r.branches : r.branches[b] = all[b + 1].tgt
  <2> SUFFICES ASSUME NEW b \in DOMAIN brs  PROVE brs[b] = all[b + 1].tgt
    BY <1>14
  <2>1. b + 1 \in 1..(m + n) /\ (b + 1) - 1 = b
    BY <1>1, <1>17
  <2> QED BY <2>1, <1>16
<1>20. InStep(r, all)
  BY <1>10, <1>11, <1>13, <1>14, <1>15, <1>18, <1>19 DEF InStep, brs
<1> QED BY <1>13, <1>14, <1>20 DEF r, all, new

-----------------------------------------------------------------------------
(* The invariant *)

\* A program read from a file is in step with what it holds.
LEMMA ContentsInStep ==
  ASSUME NEW q, Built(q), NEW unit \in Nat
  PROVE  InStep(q, Contents(q, unit))
<1> DEFINE all == Contents(q, unit)
           n   == q.spc
<1>1. n \in Nat
  BY BuiltMaps
<1>2. n = Len(q.program)
  BY BuiltMaps
<1>3. /\ Len(all) = n
      /\ \A k \in 1..n : /\ all[k].word = q.program[k]
                         /\ all[k].tgt = IF k - 1 \in DOMAIN q.branches THEN q.branches[k - 1] ELSE NoTarget
  BY ContentsProperties
<1>4. /\ DOMAIN q.branches \subseteq 0..(n - 1) /\ \A b \in DOMAIN q.branches : q.branches[b] \in Labels
      /\ \A l \in DOMAIN q.labels : q.labels[l] \in 0..n
  BY BuiltMaps
<1> HIDE DEF all, n
<1>5. \A b \in DOMAIN q.branches : b + 1 \in 1..n /\ (b + 1) - 1 = b
  BY <1>1, <1>4
<1>6. \A k \in 1..n : all[k].tgt # NoTarget <=> k - 1 \in DOMAIN q.branches
  BY <1>3, <1>4, LabelsAssumption
<1>7. DOMAIN q.branches = {k - 1 : k \in {i \in 1..Len(all) : all[i].tgt # NoTarget}}
  BY <1>3, <1>5, <1>6
<1>8. \A b \in DOMAIN q.branches : q.branches[b] = all[b + 1].tgt
  BY <1>3, <1>5
<1> QED BY <1>2, <1>3, <1>4, <1>7, <1>8 DEF InStep, all, n

\* The invariant holds of a new program and of one read from a file.
LEMMA InitBuilding == Init => IInv
<1> SUFFICES ASSUME Init  PROVE IInv
  OBVIOUS
<1>1. this \in BuildType /\ Built(this)
  <2>1. CASE this = Empty
    <3>1. Nowhere \in LabelMaps /\ Nowhere \in BranchMaps
      <4>1. Nowhere \in [{} -> Nat] /\ Nowhere \in [{} -> Labels]
        BY DEF Nowhere
      <4> QED BY <4>1 DEF LabelMaps, BranchMaps
    <3>2. Empty \in BuildType
      BY <3>1 DEF Empty, BuildType
    <3>3. Nowhere \in [{} -> Labels] /\ Nowhere \in [{} -> 0..0]
      BY DEF Nowhere
    <3>4. Built(Empty)
      <4>1. Len(<< >>) = 0 /\ << >> \in Seq(SUBSET (0..63))
        OBVIOUS
      <4>2. /\ Empty.program = << >> /\ Empty.spc = 0
            /\ Empty.branches = Nowhere /\ Empty.labels = Nowhere
        BY DEF Empty
      <4>3. \A b \in DOMAIN Empty.branches : IsOpen(At(Empty, b))
        BY <3>3, <4>2
      <4>4. \A k \in 1..Len(Empty.program) : ~IsInfo(Empty.program[k])
        BY <4>1, <4>2
      <4> QED BY <4>1, <4>2, <4>3, <4>4, <3>3 DEF Built
    <3> QED BY <2>1, <3>2, <3>4
  <2>2. CASE this # Empty
    <3>1. PICK q \in Parsed : this \in Loads(q)
      BY <2>2 DEF Init
    <3>2. PICK any \in BOOLEAN :
            this = [Empty EXCEPT !.program = q.program, !.spc = Len(q.program), !.labels = q.labels,
                                 !.branches = q.branches, !.dumpRegsCalled = any]
      BY <3>1 DEF Loads
    <3>3. Built(q)
      BY OthersAssumption
    <3>4. /\ q.program \in Seq(Word) /\ Len(q.program) \in Nat /\ q.spc = Len(q.program)
          /\ q.branches \in BranchMaps /\ q.labels \in LabelMaps
      BY <3>3, BuiltMaps
    <3>5. this \in BuildType
      <4>1. this = [program |-> q.program, labels |-> q.labels, branches |-> q.branches,
                    warnings |-> Nowhere, minprogram |-> << >>, spc |-> Len(q.program),
                    dumpRegsCalled |-> any, concluded |-> FALSE]
        BY <3>2 DEF Empty
      <4>2. << >> \in Seq(DDRCommand)
        OBVIOUS
      <4> QED BY <4>1, <4>2, <3>4 DEF BuildType
    <3>6. /\ this.program = q.program /\ this.spc = q.spc
          /\ this.branches = q.branches /\ this.labels = q.labels
      BY <3>2, <3>4 DEF Empty
    <3>7. /\ \A b \in DOMAIN this.branches : IsOpen(At(this, b))
          /\ \A k \in 1..Len(this.program) : ~IsInfo(this.program[k])
      BY <3>3, <3>6 DEF Built, At
    <3> QED BY <3>3, <3>5, <3>6, <3>7 DEF Built
  <2> QED BY <2>1, <2>2
<1>2. source \in Seq(Item) /\ InStep(this, source)
  BY <1>1, ContentsProperties, ContentsInStep DEF Init
<1> QED BY <1>1, <1>2 DEF Init, IInv, Building

\* Every call of the client keeps the program in step until the passes run.
LEMMA StepBuilding == IInv /\ [Next]_vars => IInv'
<1> SUFFICES ASSUME IInv, [Next]_vars  PROVE IInv'
  OBVIOUS
<1>1. calls' \in Nat
  <2>1. Called \/ calls' = calls
    BY DEF Next, vars, AddInst, AddInst4, AddMininst, PackMinprogram, AddLabel, AddBranch, AddBelow,
       DumpRegisters, DumpRefused, Conclude, GetInstArray, SaveBin, RunPasses, Adds
  <2>2. calls \in Nat
    BY DEF IInv
  <2> QED BY <2>1, <2>2 DEF Called
<1> SUFFICES ASSUME stage' = "building"  PROVE Building'
  BY <1>1 DEF IInv
<1>2. stage = "building"
  BY DEF Next, vars, AddInst, AddInst4, AddMininst, PackMinprogram, AddLabel, AddBranch, AddBelow,
     DumpRegisters, DumpRefused, Conclude, GetInstArray, SaveBin, RunPasses, Adds, history
<1>3. this \in BuildType /\ source \in Seq(Item) /\ InStep(this, source)
  BY <1>2 DEF IInv, Building
<1>4. ASSUME NEW i \in {SMC_LI(Bits(Len(source)), 1)} \cup Insts, AddInst(i)
      PROVE  Building'
  <2>1. i \in Word
    <3>1. SMC_LI(Bits(Len(source)), 1) \in Word
      <4>1. Bits(Len(source)) \in SUBSET (0..30)
        BY DEF Bits
      <4>2. 1 \in 0..15
        OBVIOUS
      <4> QED BY <4>1, <4>2, EncodersMakeWords
    <3>2. Insts \subseteq Word
      BY WordsAssumption DEF Word
    <3> QED BY <3>1, <3>2
  <2>2. Pushed(i) \in Seq(Word)
    BY <2>1, PushedAreWords
  <2> QED BY <1>3, <1>4, <2>2, AddWordsInStep DEF AddInst, Building
<1>5. ASSUME NEW slots \in Slots, AddInst4(slots)
      PROVE  Building'
  <2> DEFINE word == pack_mininsts(slots[1], slots[2], slots[3], slots[4])
  <2>1. slots[1] \in SUBSET (0..30) /\ slots[4] \in DDRCommand
    <3>1. slots[1] \in SUBSET (0..15) /\ slots[4] \in SUBSET (0..15) /\ 15 \in slots[4]
      BY WordsAssumption
    <3>2. 0..15 \subseteq 0..30
      OBVIOUS
    <3> QED BY <3>1, <3>2 DEF DDRCommand
  <2>2. word \in Word
    BY <2>1, PackIsWord
  <2>3. this' = AddWords(this, <<word>>) /\ source' = source \o Words(<<word>>, 0)
    BY <1>5 DEF AddInst4
  <2> HIDE DEF word
  <2>4. <<word>> \in Seq(Word)
    BY <2>2
  <2> QED BY <1>3, <2>3, <2>4, AddWordsInStep DEF Building
<1>6. ASSUME NEW minis \in {<<>>, <<Column("READ", 7, 0, 6, 0, 0, 0)>>}, NEW wait \in Waits,
             AddMininst(minis, wait)
      PROVE  Building'
  <2> DEFINE pending == this.minprogram \o minis \o [k \in 1..wait |-> SMC_NOP]
  <2>1. minis \in Seq(DDRCommand)
    <3> DEFINE read == Column("READ", 7, 0, 6, 0, 0, 0)
    <3>1. read \in DDRCommand
      BY CommandIsMini
    <3> HIDE DEF read
    <3>2. << >> \in Seq(DDRCommand) /\ <<read>> \in Seq(DDRCommand)
      BY <3>1
    <3> QED BY <3>2 DEF read
  <2>2. [k \in 1..wait |-> SMC_NOP] \in Seq(DDRCommand)
    BY CommandIsMini, WordsAssumption, IsASeq
  <2>3. pending \in Seq(DDRCommand)
    <3>1. this.minprogram \in Seq(DDRCommand)
      BY <1>3 DEF BuildType
    <3>2. this.minprogram \o minis \in Seq(DDRCommand)
      BY <2>1, <3>1, ConcatProperties
    <3> QED BY <2>2, <3>2, ConcatProperties
  <2>4. this' = [this EXCEPT !.minprogram = pending] /\ source' = source
    BY <1>6 DEF AddMininst
  <2> HIDE DEF pending
  <2>5. this' \in BuildType
    BY <1>3, <2>3, <2>4 DEF BuildType
  <2>6. /\ this'.program = this.program /\ this'.spc = this.spc
        /\ this'.branches = this.branches /\ this'.labels = this.labels
    BY <1>3, <2>4 DEF BuildType
  <2> QED BY <1>3, <2>4, <2>5, <2>6, InStepSame DEF Building
<1>7. CASE PackMinprogram
  <2> DEFINE words == PackedWords(this.minprogram)
             p     == AddWords(this, words)
  <2>1. words \in Seq(Word)
    BY <1>3, PackedAreWords DEF BuildType
  <2>2. p \in BuildType /\ source \o Words(words, 0) \in Seq(Item) /\ InStep(p, source \o Words(words, 0))
    BY <1>3, <2>1, AddWordsInStep
  <2>3. this' = [p EXCEPT !.minprogram = <<>>] /\ source' = source \o Words(words, 0)
    BY <1>7 DEF PackMinprogram
  <2> HIDE DEF p, words
  <2>4. this' \in BuildType
    <3>1. << >> \in Seq(DDRCommand)
      OBVIOUS
    <3> QED BY <2>2, <2>3, <3>1 DEF BuildType
  <2>5. /\ this'.program = p.program /\ this'.spc = p.spc
        /\ this'.branches = p.branches /\ this'.labels = p.labels
    BY <2>2, <2>3 DEF BuildType
  <2> QED BY <2>2, <2>3, <2>4, <2>5, InStepSame DEF Building
<1>8. ASSUME NEW name \in Labels, AddLabel(name)
      PROVE  Building'
  BY <1>3, <1>8, AddLabelInStep DEF AddLabel, Building
<1>9. ASSUME NEW name \in Labels, NEW word \in {SMC_BL(3, 4, 0), SMC_JUMP(0)}, AddBranch(word, name)
       PROVE  Building'
  <2>1. word \in Word /\ IsOpen(word)
    BY EncodersMakeWords
  <2> QED BY <1>3, <1>9, <2>1, AddBranchInStep DEF AddBranch, Building
<1>10. ASSUME NEW q \in Others, AddBelow(q)
       PROVE  Building'
  <2>1. Built(q)
    BY OthersAssumption
  <2> QED BY <1>1, <1>3, <1>10, <2>1, BelowInStep DEF AddBelow, Building
<1>11. CASE DumpRegisters
  <2> DEFINE p == AddWords(this, DumpWords)
  <2>1. /\ p \in BuildType /\ source \o Words(DumpWords, 0) \in Seq(Item)
        /\ InStep(p, source \o Words(DumpWords, 0))
    BY <1>3, DumpWordsAreWords, AddWordsInStep
  <2>2. this' = [p EXCEPT !.dumpRegsCalled = TRUE] /\ source' = source \o Words(DumpWords, 0)
    BY <1>11 DEF DumpRegisters
  <2> HIDE DEF p
  <2>3. this' \in BuildType
    BY <2>1, <2>2 DEF BuildType
  <2>4. /\ this'.program = p.program /\ this'.spc = p.spc
        /\ this'.branches = p.branches /\ this'.labels = p.labels
    BY <2>1, <2>2 DEF BuildType
  <2> QED BY <2>1, <2>2, <2>3, <2>4, InStepSame DEF Building
<1>12. CASE Conclude \/ GetInstArray
  BY <1>2, <1>12 DEF Conclude, GetInstArray, RunPasses
<1>13. CASE DumpRefused \/ SaveBin \/ UNCHANGED vars
  <2>1. this' = this /\ source' = source
    BY <1>13 DEF DumpRefused, SaveBin, history, vars
  <2> QED BY <1>3, <2>1 DEF Building
<1>14. CASE \E wait \in Waits :
               \/ wait > 0 /\ AddMininst(<<>>, wait)
               \/ AddMininst(<<Column("READ", 7, 0, 6, 0, 0, 0)>>, wait)
  BY <1>6, <1>14
<1> QED
  BY <1>4, <1>5, <1>7, <1>8, <1>9, <1>10, <1>11, <1>12, <1>13, <1>14 DEF Next

\* Whatever a client adds, for all labels, words and appended programs, until
\* the passes run: program, spc, branches and labels are in step with what the
\* client added (program.cpp:18-185, 458-503).
THEOREM BuildsInStep == Spec => []BuildInv
<1>1. IInv => BuildInv
  BY DEF IInv, Building, BuildInv
<1> QED BY <1>1, InitBuilding, StepBuilding, PTL DEF Spec

-----------------------------------------------------------------------------
(* linear_analysis *)

\* The warnings: INFO words, by the pc they go in at.
InfoWord    == {i \in SUBSET (0..63) : IsInfo(i)}
WarningMaps == UNION {[D -> InfoWord] : D \in SUBSET Nat}
Scan == [pc : Nat, inSequence : BOOLEAN, seqPc : Nat, readCtr : Nat, warnings : WarningMaps]

\* The number of commands of a word that read.
LEMMA ReadsOfWord == \A i : is_ddr_read(i) \in Nat
<1> SUFFICES ASSUME NEW i PROVE is_ddr_read(i) \in Nat
  OBVIOUS
<1> DEFINE reads == {k \in 0..3 : Shr(MiniAt(i, k), DDR_CMD) = Bits(DDRCodes.READ)}
<1>1. IsFiniteSet(reads)
  <2>1. IsFiniteSet(0..3)
    <3>1. 0 \in Int /\ 3 \in Int
      OBVIOUS
    <3> QED BY <3>1, FS_Interval
  <2> QED BY <2>1, FS_Subset
<1>2. Cardinality(reads) \in Nat
  BY <1>1, FS_CardinalityType
<1> QED BY <1>2 DEF is_ddr_read

\* One word leaves the state of the scan one.
LEMMA VisitScans ==
  ASSUME NEW s \in Scan, NEW i
  PROVE  Visit(s, i) \in Scan
<1>1. is_ddr_read(i) \in Nat
  BY ReadsOfWord
<1>2. s.pc \in Nat /\ s.pc + 1 \in Nat /\ s.inSequence \in BOOLEAN /\ s.seqPc \in Nat /\ s.readCtr \in Nat /\ s.warnings \in WarningMaps
  BY DEF Scan
<1> DEFINE w == IF s.readCtr \in 1..MaxInfoReads THEN Put(s.warnings, s.seqPc, SMC_INFO(s.readCtr)) ELSE s.warnings
           ctr == s.readCtr + is_ddr_read(i)
<1>3. w \in WarningMaps
  <2>1. SMC_INFO(s.readCtr) \in InfoWord
    BY InfoIsInfo DEF InfoWord
  <2>2. Put(s.warnings, s.seqPc, SMC_INFO(s.readCtr)) \in WarningMaps
    BY <1>2, <2>1, PutInMaps DEF WarningMaps
  <2> QED BY <1>2, <2>2
<1>4. ctr \in Nat
  BY <1>1, <1>2
<1> DEFINE a == [s EXCEPT !.pc = s.pc + 1]
           b == [s EXCEPT !.pc = s.pc + 1, !.inSequence = TRUE, !.seqPc = s.pc, !.readCtr = is_ddr_read(i)]
           c == [s EXCEPT !.pc = s.pc + 1, !.readCtr = ctr]
           d == [s EXCEPT !.pc = s.pc + 1, !.inSequence = FALSE, !.warnings = w]
<1>5. Visit(s, i) = a \/ Visit(s, i) = b \/ Visit(s, i) = c \/ Visit(s, i) = d
  <2>1. CASE ~s.inSequence /\ ~is_ddr(i)
    BY <2>1, <1>2 DEF Visit
  <2>2. CASE ~s.inSequence /\ is_ddr(i)
    BY <2>2, <1>2 DEF Visit, Scan
  <2>3. CASE s.inSequence /\ (is_ddr(i) \/ is_sleep(i))
    BY <2>3, <1>2 DEF Visit, Scan
  <2>4. CASE s.inSequence /\ ~is_ddr(i) /\ ~is_sleep(i)
    BY <2>4, <1>2 DEF Visit, Scan
  <2> QED BY <2>1, <2>2, <2>3, <2>4
<1> HIDE DEF w, ctr
<1>6. a \in Scan /\ b \in Scan /\ c \in Scan /\ d \in Scan
  BY <1>1, <1>2, <1>3, <1>4 DEF Scan
<1> HIDE DEF a, b, c, d
<1> QED BY <1>5, <1>6

\* f adds the numbers of h up.
AddsUp(f, n, h) == f[0] = 0 /\ \A k \in 1..n : f[k] = f[k - 1] + h[k]

\* The reads of the words from number s on.
ReadsFrom(words, s, n) == [k \in 1..n |-> is_ddr_read(words[s + k - 1])]

\* The words from number s to number t are n, and Reads is their sum.
Counted(words, s, t, n) ==
  \E f \in [0..n -> Nat] : AddsUp(f, n, ReadsFrom(words, s, n)) /\ Reads(words, <<s, t>>) = f[n]

\* Reads adds the reads of the n words from number s on up.
LEMMA ReadsAddUp ==
  ASSUME NEW words, NEW s \in Nat, NEW n \in Nat, NEW t, t = s + n - 1
  PROVE  Counted(words, s, t, n)
<1> DEFINE h     == ReadsFrom(words, s, n)
           Is(f) == f = [k \in 0..n |-> IF k = 0 THEN 0 ELSE f[k - 1] + is_ddr_read(words[s + k - 1])]
           upTo  == CHOOSE f : Is(f)
           step  == [k \in 1..n |-> [x \in Nat |-> x + h[k]]]
<1>1. Reads(words, <<s, t>>) = upTo[n]
  <2>1. t - s + 1 = n
    OBVIOUS
  <2>2. <<s, t>>[1] = s /\ <<s, t>>[2] = t
    OBVIOUS
  <2> QED BY <2>1, <2>2, Zenon DEF Reads
<1>2. \A k \in 1..n : h[k] = is_ddr_read(words[s + k - 1]) /\ h[k] \in Nat
  BY ReadsOfWord DEF ReadsFrom
<1> HIDE DEF h
<1>3. step \in [1..n -> [Nat -> Nat]]
  BY <1>2
<1>4. PICK f \in [0..n -> Nat] : f[0] = 0 /\ \A k \in 1..n : f[k] = step[k][f[k - 1]]
  <2> HIDE DEF step
  <2>1. Iterations(Nat, n, 0, step) # {}
    BY <1>3, Iterates
  <2> QED BY <2>1 DEF Iterations
<1>5. ASSUME NEW k \in 1..n PROVE f[k] = f[k - 1] + h[k]
  <2>1. k - 1 \in 0..n
    OBVIOUS
  <2>2. f[k - 1] \in Nat
    BY <1>4, <2>1
  <2> QED BY <1>4, <2>2
<1>6. Is(f)
  BY <1>2, <1>4, <1>5
<1>7. Is(upTo)
  <2> HIDE DEF Is
  <2> QED BY <1>6
<1>8. upTo[0] = 0 /\ \A k \in 1..n : upTo[k] = upTo[k - 1] + h[k]
  <2> HIDE DEF upTo
  <2> QED BY <1>2, <1>7
<1>9. upTo \in [0..n -> Nat]
  <2> DEFINE T == {k \in Nat : k <= n => upTo[k] \in Nat}
  <2>0. upTo = [k \in 0..n |-> upTo[k]]
    <3> HIDE DEF upTo
    <3> QED BY <1>7
  <2> HIDE DEF upTo
  <2>1. 0 \in T
    BY <1>8
  <2>2. ASSUME NEW k \in Nat, k \in T PROVE k + 1 \in T
    <3> SUFFICES ASSUME k + 1 <= n PROVE upTo[k + 1] \in Nat
      OBVIOUS
    <3>1. upTo[k] \in Nat /\ k + 1 \in 1..n /\ (k + 1) - 1 = k
      BY <2>2
    <3>2. upTo[k + 1] = upTo[k] + h[k + 1] /\ h[k + 1] \in Nat
      BY <1>2, <1>8, <3>1
    <3> QED BY <3>1, <3>2
  <2> HIDE DEF T
  <2>3. Nat \subseteq T
    BY <2>1, <2>2, InductionBySet
  <2>4. \A k \in 0..n : upTo[k] \in Nat
    BY <2>3 DEF T
  <2> QED BY <2>0, <2>4
<1> HIDE DEF upTo
<1> QED BY <1>1, <1>8, <1>9 DEF AddsUp, Counted, h

\* Two functions that add the same numbers up are equal.
LEMMA SumsAgree ==
  ASSUME NEW n \in Nat, NEW f, NEW g, NEW h, AddsUp(f, n, h), AddsUp(g, n, h)
  PROVE  \A k \in 0..n : f[k] = g[k]
<1> DEFINE T == {k \in Nat : k <= n => f[k] = g[k]}
<1>1. 0 \in T
  BY DEF AddsUp
<1>2. ASSUME NEW k \in Nat, k \in T PROVE k + 1 \in T
  <2> SUFFICES ASSUME k + 1 <= n PROVE f[k + 1] = g[k + 1]
    OBVIOUS
  <2>1. f[k] = g[k] /\ k + 1 \in 1..n /\ (k + 1) - 1 = k
    BY <1>2
  <2> QED BY <2>1 DEF AddsUp
<1> HIDE DEF T
<1>3. Nat \subseteq T
  BY <1>1, <1>2, InductionBySet
<1> QED BY <1>3 DEF T

\* One word more.
LEMMA ReadsGrow ==
  ASSUME NEW words, NEW s \in Nat, NEW t \in Nat, s <= t + 1
  PROVE  Reads(words, <<s, t + 1>>) = Reads(words, <<s, t>>) + is_ddr_read(words[t + 1])
<1>1. PICK n \in Nat : n = t - s + 1 /\ t = s + n - 1 /\ t + 1 = s + (n + 1) - 1 /\ n + 1 \in Nat
  OBVIOUS
<1>2. PICK f \in [0..n -> Nat] : AddsUp(f, n, ReadsFrom(words, s, n)) /\ Reads(words, <<s, t>>) = f[n]
  <2>1. Counted(words, s, t, n)
    BY <1>1, ReadsAddUp
  <2> QED BY <2>1 DEF Counted
<1>3. PICK g \in [0..(n + 1) -> Nat] : /\ AddsUp(g, n + 1, ReadsFrom(words, s, n + 1))
                                       /\ Reads(words, <<s, t + 1>>) = g[n + 1]
  <2>1. Counted(words, s, t + 1, n + 1)
    BY <1>1, ReadsAddUp
  <2> QED BY <2>1 DEF Counted
<1>4. AddsUp(g, n, ReadsFrom(words, s, n))
  <2>1. \A k \in 1..n : k \in 1..(n + 1) /\ ReadsFrom(words, s, n)[k] = ReadsFrom(words, s, n + 1)[k]
    BY DEF ReadsFrom
  <2> QED BY <1>3, <2>1 DEF AddsUp
<1>5. f[n] = g[n]
  BY <1>2, <1>4, SumsAgree
<1>6. g[n + 1] = g[n] + is_ddr_read(words[t + 1])
  <2>1. n + 1 \in 1..(n + 1) /\ (n + 1) - 1 = n
    OBVIOUS
  <2>2. ReadsFrom(words, s, n + 1)[n + 1] = is_ddr_read(words[t + 1])
    BY <1>1, <2>1 DEF ReadsFrom
  <2> QED BY <1>3, <2>1, <2>2 DEF AddsUp
<1> QED BY <1>2, <1>3, <1>5, <1>6

\* Reads is a number, 0 when there is no word.
LEMMA ReadsIsNumber ==
  ASSUME NEW words, NEW s \in Nat, NEW t \in Nat, s <= t + 1
  PROVE  Reads(words, <<s, t>>) \in Nat /\ (s = t + 1 => Reads(words, <<s, t>>) = 0)
<1>1. PICK n \in Nat : n = t - s + 1 /\ t = s + n - 1
  OBVIOUS
<1>2. PICK f \in [0..n -> Nat] : AddsUp(f, n, ReadsFrom(words, s, n)) /\ Reads(words, <<s, t>>) = f[n]
  <2>1. Counted(words, s, t, n)
    BY <1>1, ReadsAddUp
  <2> QED BY <2>1 DEF Counted
<1>3. n \in 0..n /\ f[n] \in Nat
  OBVIOUS
<1>4. s = t + 1 => n = 0
  BY <1>1
<1> QED BY <1>2, <1>3, <1>4 DEF AddsUp

\* The n words from number s on of one are those from number x on of the other.
SameWords(words, s, others, x, n) == \A k \in 1..n : words[s + k - 1] = others[x + k - 1]

\* The same words elsewhere have the same reads.
LEMMA ReadsMove ==
  ASSUME NEW words, NEW others, NEW s \in Nat, NEW x \in Nat, NEW n \in Nat,
         NEW t, t = s + n - 1, NEW y, y = x + n - 1,
         SameWords(words, s, others, x, n)
  PROVE  Reads(words, <<s, t>>) = Reads(others, <<x, y>>)
<1>1. PICK f \in [0..n -> Nat] : /\ AddsUp(f, n, ReadsFrom(words, s, n))
                                 /\ Reads(words, <<s, t>>) = f[n]
  <2>1. Counted(words, s, t, n)
    BY ReadsAddUp
  <2> QED BY <2>1 DEF Counted
<1>2. PICK g \in [0..n -> Nat] : /\ AddsUp(g, n, ReadsFrom(others, x, n))
                                 /\ Reads(others, <<x, y>>) = g[n]
  <2>1. Counted(others, x, y, n)
    BY ReadsAddUp
  <2> QED BY <2>1 DEF Counted
<1>3. ReadsFrom(words, s, n) = ReadsFrom(others, x, n)
  BY DEF ReadsFrom, SameWords
<1>4. AddsUp(g, n, ReadsFrom(words, s, n))
  BY <1>2, <1>3
<1>5. f[n] = g[n]
  BY <1>1, <1>4, SumsAgree
<1> QED BY <1>1, <1>2, <1>5


\* A word is in a run if it is DDR, or goes on with one.
LEMMA RunNext ==
  ASSUME NEW words, NEW k \in Nat
  PROVE  /\ ~InRun(words, 0)
         /\ InRun(words, k + 1) <=> is_ddr(words[k + 1]) \/ (InRun(words, k) /\ is_sleep(words[k + 1]))
         /\ InRun(words, k) => GoesOn(words[k])
<1>1. ~InRun(words, 0)
  BY DEF InRun
<1>2. ASSUME InRun(words, k + 1), ~is_ddr(words[k + 1]) PROVE InRun(words, k) /\ is_sleep(words[k + 1])
  <2>1. PICK j \in 1..(k + 1) : is_ddr(words[j]) /\ \A n \in j..(k + 1) : GoesOn(words[n])
    BY <1>2 DEF InRun
  <2>2. j \in 1..k
    BY <1>2, <2>1
  <2>3. k + 1 \in j..(k + 1) /\ \A n \in j..k : n \in j..(k + 1)
    BY <2>2
  <2> QED BY <1>2, <2>1, <2>2, <2>3 DEF InRun, GoesOn
<1>3. ASSUME is_ddr(words[k + 1]) PROVE InRun(words, k + 1)
  <2>1. k + 1 \in 1..(k + 1) /\ \A n \in (k + 1)..(k + 1) : n = k + 1
    OBVIOUS
  <2> QED BY <1>3, <2>1 DEF InRun, GoesOn
<1>4. ASSUME InRun(words, k), is_sleep(words[k + 1]) PROVE InRun(words, k + 1)
  <2>1. PICK j \in 1..k : is_ddr(words[j]) /\ \A n \in j..k : GoesOn(words[n])
    BY <1>4 DEF InRun
  <2>2. j \in 1..(k + 1) /\ \A n \in j..(k + 1) : n \in j..k \/ n = k + 1
    OBVIOUS
  <2> QED BY <1>4, <2>1, <2>2 DEF InRun, GoesOn
<1>5. ASSUME InRun(words, k) PROVE GoesOn(words[k])
  <2>1. PICK j \in 1..k : is_ddr(words[j]) /\ \A n \in j..k : GoesOn(words[n])
    BY <1>5 DEF InRun
  <2>2. k \in j..k
    OBVIOUS
  <2> QED BY <2>1, <2>2
<1> QED BY <1>1, <1>2, <1>3, <1>4, <1>5

\* Word number s starts a run that lasts to word number t at least.
Starts(words, s, t) ==
  /\ s \in Nat /\ t \in Nat /\ 1 <= s /\ s <= t
  /\ is_ddr(words[s]) /\ ~InRun(words, s - 1)
  /\ \A k \in s..t : GoesOn(words[k])

\* What Runs says of the first m words, of s and t.
IsRun(words, m, s, t) == Starts(words, s, t) /\ t < m /\ ~GoesOn(words[t + 1])

\* Two starts of one stretch are the same.
LEMMA StartsOnce ==
  ASSUME NEW words, NEW s, NEW t, NEW x, NEW y, Starts(words, s, t), Starts(words, x, y), x <= t, s <= y
  PROVE  x = s
<1>1. /\ s \in Nat /\ t \in Nat /\ 1 <= s /\ s <= t /\ x \in Nat /\ y \in Nat /\ 1 <= x /\ x <= y
      /\ is_ddr(words[s]) /\ is_ddr(words[x])
      /\ ~InRun(words, s - 1) /\ ~InRun(words, x - 1)
      /\ \A k \in s..t : GoesOn(words[k])
      /\ \A k \in x..y : GoesOn(words[k])
  BY DEF Starts
<1>2. ASSUME s < x PROVE FALSE
  <2>1. s \in 1..(x - 1) /\ \A n \in s..(x - 1) : n \in s..t
    BY <1>1, <1>2
  <2> QED BY <1>1, <2>1 DEF InRun
<1>3. ASSUME x < s PROVE FALSE
  <2>1. x \in 1..(s - 1) /\ \A n \in x..(s - 1) : n \in x..y
    BY <1>1, <1>3
  <2> QED BY <1>1, <2>1 DEF InRun
<1> QED BY <1>1, <1>2, <1>3

\* The INFO words for the runs that ended within the first m words.
Told(words, m, warnings) ==
  /\ \A key \in DOMAIN warnings :
       \E s, t \in Nat : IsRun(words, m, s, t) /\ Reads(words, <<s, t>>) \in 1..MaxInfoReads /\ key = s - 1
  /\ \A s, t \in Nat : IsRun(words, m, s, t) /\ Reads(words, <<s, t>>) \in 1..MaxInfoReads
       => s - 1 \in DOMAIN warnings /\ warnings[s - 1] = SMC_INFO(Reads(words, <<s, t>>))

\* The state of the scan after m words.
ScanInv(words, m, scan) ==
  /\ scan \in Scan /\ scan.pc = m
  /\ scan.inSequence <=> InRun(words, m)
  /\ scan.inSequence => /\ Starts(words, scan.seqPc + 1, m)
                        /\ scan.readCtr = Reads(words, <<scan.seqPc + 1, m>>)
  /\ Told(words, m, scan.warnings)

\* A word that ends no run leaves the ended runs as they were.
LEMMA ToldSame ==
  ASSUME NEW words, NEW m \in Nat, NEW warnings, Told(words, m, warnings),
         GoesOn(words[m + 1]) \/ ~InRun(words, m)
  PROVE  Told(words, m + 1, warnings)
<1>1. ASSUME NEW s, NEW t PROVE IsRun(words, m + 1, s, t) <=> IsRun(words, m, s, t)
  <2>1. ASSUME IsRun(words, m, s, t) PROVE IsRun(words, m + 1, s, t)
    BY <2>1 DEF IsRun, Starts
  <2>2. ASSUME IsRun(words, m + 1, s, t) PROVE IsRun(words, m, s, t)
    <3>1. Starts(words, s, t) /\ t < m + 1 /\ ~GoesOn(words[t + 1]) /\ t \in Nat
      BY <2>2 DEF IsRun, Starts
    <3>2. t # m
      <4> SUFFICES ASSUME t = m PROVE FALSE
        OBVIOUS
      <4>1. InRun(words, m)
        BY <3>1 DEF Starts, InRun
      <4> QED BY <3>1, <4>1
    <3> QED BY <3>1, <3>2 DEF IsRun
  <2> QED BY <2>1, <2>2
<1> QED BY <1>1 DEF Told

\* A word that ends a run adds it to them.
LEMMA ToldMore ==
  ASSUME NEW words, NEW m \in Nat, NEW warnings, Told(words, m, warnings),
         NEW a, Starts(words, a, m), ~GoesOn(words[m + 1])
  PROVE  /\ Reads(words, <<a, m>>) \in 1..MaxInfoReads
              => Told(words, m + 1, Put(warnings, a - 1, SMC_INFO(Reads(words, <<a, m>>))))
         /\ Reads(words, <<a, m>>) \notin 1..MaxInfoReads => Told(words, m + 1, warnings)
<1>1. a \in Nat /\ 1 <= a /\ a <= m /\ a - 1 \in Nat
  BY DEF Starts
<1>2. IsRun(words, m + 1, a, m)
  BY DEF IsRun
<1>3. ASSUME NEW s, NEW t, IsRun(words, m, s, t)
      PROVE  IsRun(words, m + 1, s, t) /\ s # a /\ s \in Nat /\ s >= 1
  <2>1. s \in Nat /\ t \in Nat /\ 1 <= s /\ s <= t /\ t < m /\ ~GoesOn(words[t + 1])
    BY <1>3 DEF IsRun, Starts
  <2>2. s # a
    <3> SUFFICES ASSUME s = a PROVE FALSE
      OBVIOUS
    <3>1. t + 1 \in a..m
      BY <2>1
    <3> QED BY <2>1, <3>1 DEF Starts
  <2>3. IsRun(words, m + 1, s, t)
    BY <1>3, <2>1 DEF IsRun
  <2> QED BY <2>1, <2>2, <2>3
<1>4. ASSUME NEW s, NEW t, IsRun(words, m + 1, s, t)
      PROVE  IsRun(words, m, s, t) \/ (s = a /\ t = m)
  <2>1. Starts(words, s, t) /\ t < m + 1 /\ ~GoesOn(words[t + 1]) /\ s \in Nat /\ t \in Nat
    BY <1>4 DEF IsRun, Starts
  <2>2. CASE t < m
    BY <2>1, <2>2 DEF IsRun
  <2>3. CASE t = m
    <3>1. s <= m /\ a <= m
      BY <1>1, <2>1, <2>3 DEF Starts
    <3>2. s = a
      BY <2>1, <2>3, <3>1, StartsOnce
    <3> QED BY <2>3, <3>2
  <2> QED BY <2>1, <2>2, <2>3
<1>5. PICK x : x = Reads(words, <<a, m>>)
  OBVIOUS
<1>6. /\ \A key \in DOMAIN warnings :
           \E s, t \in Nat : IsRun(words, m, s, t) /\ Reads(words, <<s, t>>) \in 1..MaxInfoReads /\ key = s - 1
      /\ \A s, t \in Nat : IsRun(words, m, s, t) /\ Reads(words, <<s, t>>) \in 1..MaxInfoReads
           => s - 1 \in DOMAIN warnings /\ warnings[s - 1] = SMC_INFO(Reads(words, <<s, t>>))
  BY DEF Told
<1>7. ASSUME x \in 1..MaxInfoReads
      PROVE  Told(words, m + 1, Put(warnings, a - 1, SMC_INFO(x)))
  <2>1. PICK w : w = Put(warnings, a - 1, SMC_INFO(x))
    OBVIOUS
  <2>2. /\ DOMAIN w = DOMAIN warnings \cup {a - 1} /\ w[a - 1] = SMC_INFO(x)
        /\ \A key \in DOMAIN warnings : key # a - 1 => w[key] = warnings[key]
    BY <2>1 DEF Put
  <2>3. ASSUME NEW key \in DOMAIN w
        PROVE  \E s, t \in Nat : /\ IsRun(words, m + 1, s, t) /\ Reads(words, <<s, t>>) \in 1..MaxInfoReads
                                 /\ key = s - 1
    <3>1. CASE key = a - 1
      BY <1>1, <1>2, <1>5, <1>7, <3>1
    <3>2. CASE key # a - 1
      <4>1. key \in DOMAIN warnings
        BY <2>2, <3>2
      <4>2. PICK s \in Nat, t \in Nat :
              IsRun(words, m, s, t) /\ Reads(words, <<s, t>>) \in 1..MaxInfoReads /\ key = s - 1
        BY <1>6, <4>1
      <4> QED BY <1>3, <4>2
    <3> QED BY <3>1, <3>2
  <2>4. ASSUME NEW s \in Nat, NEW t \in Nat, IsRun(words, m + 1, s, t),
               Reads(words, <<s, t>>) \in 1..MaxInfoReads
        PROVE  s - 1 \in DOMAIN w /\ w[s - 1] = SMC_INFO(Reads(words, <<s, t>>))
    <3>1. CASE s = a /\ t = m
      BY <1>5, <2>2, <3>1
    <3>2. CASE IsRun(words, m, s, t)
      <4>1. s - 1 \in DOMAIN warnings /\ warnings[s - 1] = SMC_INFO(Reads(words, <<s, t>>))
        BY <1>6, <2>4, <3>2
      <4>2. s - 1 # a - 1
        BY <1>1, <1>3, <3>2
      <4> QED BY <2>2, <4>1, <4>2
    <3> QED BY <1>4, <2>4, <3>1, <3>2
  <2>5. Told(words, m + 1, w)
    BY <2>3, <2>4 DEF Told
  <2> QED BY <2>1, <2>5
<1>8. ASSUME x \notin 1..MaxInfoReads PROVE Told(words, m + 1, warnings)
  <2>1. ASSUME NEW key \in DOMAIN warnings
        PROVE  \E s, t \in Nat : /\ IsRun(words, m + 1, s, t) /\ Reads(words, <<s, t>>) \in 1..MaxInfoReads
                                 /\ key = s - 1
    <3>1. PICK s \in Nat, t \in Nat :
            IsRun(words, m, s, t) /\ Reads(words, <<s, t>>) \in 1..MaxInfoReads /\ key = s - 1
      BY <1>6
    <3> QED BY <1>3, <3>1
  <2>2. ASSUME NEW s \in Nat, NEW t \in Nat, IsRun(words, m + 1, s, t),
               Reads(words, <<s, t>>) \in 1..MaxInfoReads
        PROVE  s - 1 \in DOMAIN warnings /\ warnings[s - 1] = SMC_INFO(Reads(words, <<s, t>>))
    <3>1. IsRun(words, m, s, t)
      BY <1>4, <1>5, <1>8, <2>2
    <3> QED BY <1>6, <2>2, <3>1
  <2> QED BY <2>1, <2>2 DEF Told
<1> QED BY <1>5, <1>7, <1>8

\* One word of the scan.
LEMMA VisitTells ==
  ASSUME NEW words, NEW m \in Nat, NEW s, ScanInv(words, m, s)
  PROVE  ScanInv(words, m + 1, Visit(s, words[m + 1]))
<1>1. PICK i, v : i = words[m + 1] /\ v = Visit(s, i)
  OBVIOUS
<1>2. /\ s \in Scan /\ s.pc = m /\ s.pc \in Nat /\ s.seqPc \in Nat /\ s.readCtr \in Nat
      /\ s.inSequence \in BOOLEAN
      /\ s.inSequence <=> InRun(words, m)
      /\ s.inSequence => Starts(words, s.seqPc + 1, m) /\ s.readCtr = Reads(words, <<s.seqPc + 1, m>>)
      /\ Told(words, m, s.warnings)
  BY DEF ScanInv, Scan
<1>3. v \in Scan
  BY <1>1, <1>2, VisitScans
<1>4. InRun(words, m + 1) <=> is_ddr(i) \/ (InRun(words, m) /\ is_sleep(i))
  BY <1>1, RunNext
<1>5. CASE ~s.inSequence /\ ~is_ddr(i)
  <2>1. v = [s EXCEPT !.pc = m + 1]
    BY <1>1, <1>2, <1>5 DEF Visit
  <2>2. v.pc = m + 1 /\ ~v.inSequence /\ v.warnings = s.warnings
    BY <1>2, <1>5, <2>1 DEF Scan
  <2>3. ~InRun(words, m + 1)
    BY <1>2, <1>4, <1>5
  <2>4. Told(words, m + 1, v.warnings)
    BY <1>2, <1>5, <2>2, ToldSame
  <2> QED BY <1>1, <1>3, <2>2, <2>3, <2>4 DEF ScanInv
<1>6. CASE ~s.inSequence /\ is_ddr(i)
  <2>1. v = [s EXCEPT !.pc = m + 1, !.inSequence = TRUE, !.seqPc = m, !.readCtr = is_ddr_read(i)]
    BY <1>1, <1>2, <1>6 DEF Visit, Scan
  <2>2. v.pc = m + 1 /\ v.inSequence /\ v.seqPc = m /\ v.readCtr = is_ddr_read(i) /\ v.warnings = s.warnings
    BY <1>2, <2>1 DEF Scan
  <2>3. Starts(words, m + 1, m + 1)
    <3>1. (m + 1) - 1 = m /\ \A k \in (m + 1)..(m + 1) : k = m + 1
      OBVIOUS
    <3> QED BY <1>1, <1>2, <1>6, <3>1 DEF Starts, GoesOn
  <2>4. is_ddr_read(i) = Reads(words, <<m + 1, m + 1>>)
    <3>1. Reads(words, <<m + 1, m>>) = 0
      BY ReadsIsNumber
    <3>2. Reads(words, <<m + 1, m + 1>>) = Reads(words, <<m + 1, m>>) + is_ddr_read(words[m + 1])
      BY ReadsGrow
    <3> QED BY <1>1, <3>1, <3>2, ReadsOfWord
  <2>5. Told(words, m + 1, v.warnings)
    BY <1>2, <1>6, <2>2, ToldSame
  <2> QED BY <1>1, <1>3, <1>4, <1>6, <2>2, <2>3, <2>4, <2>5 DEF ScanInv
<1>7. CASE s.inSequence /\ (is_ddr(i) \/ is_sleep(i))
  <2>1. v = [s EXCEPT !.pc = m + 1, !.readCtr = s.readCtr + is_ddr_read(i)]
    BY <1>1, <1>2, <1>7 DEF Visit, Scan
  <2>2. /\ v.pc = m + 1 /\ v.inSequence /\ v.seqPc = s.seqPc /\ v.readCtr = s.readCtr + is_ddr_read(i)
        /\ v.warnings = s.warnings
    BY <1>2, <1>7, <2>1 DEF Scan
  <2>3. Starts(words, s.seqPc + 1, m + 1)
    <3>1. Starts(words, s.seqPc + 1, m)
      BY <1>2, <1>7
    <3>2. \A k \in (s.seqPc + 1)..(m + 1) : k \in (s.seqPc + 1)..m \/ k = m + 1
      BY <1>2
    <3> QED BY <1>1, <1>7, <3>1, <3>2 DEF Starts, GoesOn
  <2>4. s.readCtr + is_ddr_read(i) = Reads(words, <<s.seqPc + 1, m + 1>>)
    <3>1. s.seqPc + 1 <= m /\ s.seqPc + 1 \in Nat
      BY <1>2, <1>7 DEF Starts
    <3>2. Reads(words, <<s.seqPc + 1, m + 1>>) = Reads(words, <<s.seqPc + 1, m>>) + is_ddr_read(words[m + 1])
      BY <3>1, ReadsGrow
    <3> QED BY <1>1, <1>2, <1>7, <3>2
  <2>5. Told(words, m + 1, v.warnings)
    BY <1>1, <1>2, <1>7, <2>2, ToldSame DEF GoesOn
  <2> QED BY <1>1, <1>2, <1>3, <1>4, <1>7, <2>2, <2>3, <2>4, <2>5 DEF ScanInv
<1>8. CASE s.inSequence /\ ~is_ddr(i) /\ ~is_sleep(i)
  <2>1. PICK x, a, w : /\ x = Reads(words, <<a, m>>) /\ a = s.seqPc + 1
                       /\ w = IF x \in 1..MaxInfoReads THEN Put(s.warnings, a - 1, SMC_INFO(x)) ELSE s.warnings
    OBVIOUS
  <2>2. x = s.readCtr /\ a - 1 = s.seqPc /\ Starts(words, a, m)
    BY <1>2, <1>8, <2>1
  <2>3. v = [s EXCEPT !.pc = m + 1, !.inSequence = FALSE, !.warnings = w]
    BY <1>1, <1>2, <1>8, <2>1, <2>2 DEF Visit, Scan
  <2>4. v.pc = m + 1 /\ ~v.inSequence /\ v.warnings = w
    BY <1>2, <2>3 DEF Scan
  <2>5. ~GoesOn(words[m + 1])
    BY <1>1, <1>8 DEF GoesOn
  <2>6. /\ x \in 1..MaxInfoReads => Told(words, m + 1, Put(s.warnings, a - 1, SMC_INFO(x)))
        /\ x \notin 1..MaxInfoReads => Told(words, m + 1, s.warnings)
    BY <1>2, <2>1, <2>2, <2>5, ToldMore
  <2>7. Told(words, m + 1, w)
    BY <2>1, <2>6
  <2> QED BY <1>1, <1>3, <1>4, <1>8, <2>4, <2>7 DEF ScanInv
<1> QED BY <1>2, <1>5, <1>6, <1>7, <1>8

\* linear_analysis leaves in warnings an INFO word for each run that ended and changes nothing
\* else.
LEMMA Analysed ==
  ASSUME NEW p, p.program \in Seq(Word), p.warnings = Nowhere
  PROVE  \E w \in WarningMaps : /\ LinearAnalysis(p) = [p EXCEPT !.warnings = w]
                                /\ Told(p.program, Len(p.program), w)
<1> DEFINE n     == Len(p.program)
           start == [pc |-> 0, inSequence |-> FALSE, seqPc |-> 0, readCtr |-> 0, warnings |-> p.warnings]
           Is(f) == f = [k \in 0..n |-> IF k = 0 THEN start ELSE Visit(f[k - 1], p.program[k])]
           scan  == CHOOSE f : Is(f)
           step  == [k \in 1..n |-> [s \in Scan |-> Visit(s, p.program[k])]]
<1>1. n \in Nat
  OBVIOUS
<1>2. start \in Scan
  <2>1. Nowhere \in [{} -> InfoWord]
    BY DEF Nowhere
  <2>2. Nowhere \in WarningMaps
    BY <2>1 DEF WarningMaps
  <2> QED BY <2>2 DEF Scan
<1>3. LinearAnalysis(p) = [p EXCEPT !.warnings = scan[n].warnings]
  BY DEF LinearAnalysis
<1> HIDE DEF n, start
<1>4. step \in [1..n -> [Scan -> Scan]]
  BY VisitScans
<1>5. PICK f \in [0..n -> Scan] : f[0] = start /\ \A k \in 1..n : f[k] = step[k][f[k - 1]]
  <2> HIDE DEF step
  <2>1. Iterations(Scan, n, start, step) # {}
    BY <1>1, <1>2, <1>4, Iterates
  <2> QED BY <2>1 DEF Iterations
<1>6. ASSUME NEW k \in 1..n PROVE f[k] = Visit(f[k - 1], p.program[k])
  <2>1. k - 1 \in 0..n
    BY <1>1
  <2>2. f[k - 1] \in Scan
    BY <1>5, <2>1
  <2> QED BY <1>5, <2>2
<1>7. Is(f)
  BY <1>1, <1>5, <1>6
<1>8. Is(scan)
  <2> HIDE DEF Is
  <2> QED BY <1>7
<1>9. scan[0] = start /\ \A k \in 1..n : scan[k] = Visit(scan[k - 1], p.program[k])
  <2> HIDE DEF scan
  <2> QED BY <1>1, <1>8
<1> HIDE DEF scan
<1>10. ScanInv(p.program, n, scan[n])
  <2> DEFINE T == {k \in Nat : k <= n => ScanInv(p.program, k, scan[k])}
  <2>1. 0 \in T
    <3>1. Told(p.program, 0, Nowhere)
      <4>1. DOMAIN Nowhere = {}
        BY DEF Nowhere
      <4>2. \A s, e : ~IsRun(p.program, 0, s, e)
        BY DEF IsRun, Starts
      <4> QED BY <4>1, <4>2 DEF Told
    <3>2. start.pc = 0 /\ ~start.inSequence /\ start.warnings = Nowhere
      BY DEF start
    <3>3. ScanInv(p.program, 0, start)
      BY <1>2, <3>1, <3>2, RunNext DEF ScanInv
    <3> QED BY <1>9, <3>3
  <2>2. ASSUME NEW k \in Nat, k \in T PROVE k + 1 \in T
    <3> SUFFICES ASSUME k + 1 <= n PROVE ScanInv(p.program, k + 1, scan[k + 1])
      OBVIOUS
    <3>1. ScanInv(p.program, k, scan[k]) /\ k + 1 \in 1..n /\ (k + 1) - 1 = k
      BY <1>1, <2>2
    <3>2. scan[k + 1] = Visit(scan[k], p.program[k + 1])
      BY <1>9, <3>1
    <3> QED BY <3>1, <3>2, VisitTells
  <2> HIDE DEF T
  <2>3. Nat \subseteq T
    BY <2>1, <2>2, InductionBySet
  <2> QED BY <1>1, <2>3 DEF T
<1>11. scan[n].warnings \in WarningMaps /\ Told(p.program, n, scan[n].warnings)
  BY <1>10 DEF Scan, ScanInv
<1> QED BY <1>3, <1>11 DEF n

-----------------------------------------------------------------------------
(* insert_generated *)

\* A program in the passes: INFO words may be among its words.
PassType ==
  [program        : Seq(SUBSET (0..63)),
   labels         : LabelMaps,
   branches       : BranchMaps,
   warnings       : WarningMaps,
   minprogram     : Seq(DDRCommand),
   spc            : Nat,
   dumpRegsCalled : BOOLEAN,
   concluded      : BOOLEAN]

\* InsertAt puts one element in and moves those behind it.
LEMMA InsertAtProperties ==
  ASSUME NEW S, NEW s \in Seq(S), NEW at \in 1..(Len(s) + 1), NEW x \in S
  PROVE  /\ InsertAt(s, at, x) \in Seq(S)
         /\ Len(InsertAt(s, at, x)) = Len(s) + 1
         /\ \A k \in 1..(Len(s) + 1) :
              InsertAt(s, at, x)[k] = IF k < at THEN s[k] ELSE IF k = at THEN x ELSE s[k - 1]
<1> DEFINE low  == SubSeq(s, 1, at - 1)
           high == SubSeq(s, at, Len(s))
           n    == Len(s)
           t    == low \o <<x>>
<1>1. n \in Nat /\ at \in Int /\ 1 <= at /\ at <= n + 1
  OBVIOUS
<1>2. low \in Seq(S) /\ Len(low) = at - 1 /\ \A k \in 1..(at - 1) : low[k] = s[k]
  <2>1. \A k \in 1..(at - 1) : k \in 1..Len(s)
    BY <1>1
  <2> QED BY <1>1, <2>1, SubSeqProperties
<1>3. high \in Seq(S) /\ Len(high) = n + 1 - at /\ \A k \in 1..(n + 1 - at) : high[k] = s[at + k - 1]
  <2>1. \A k \in at..n : k \in 1..Len(s)
    BY <1>1
  <2> QED BY <1>1, <2>1, SubSeqProperties
<1>4. <<x>> \in Seq(S) /\ Len(<<x>>) = 1 /\ <<x>>[1] = x
  OBVIOUS
<1>5. InsertAt(s, at, x) = t \o high
  BY DEF InsertAt
<1> HIDE DEF low, high
<1>6. t \in Seq(S) /\ Len(t) = at /\ t[at] = x /\ \A k \in 1..(at - 1) : t[k] = s[k]
  BY <1>1, <1>2, <1>4, ConcatProperties
<1> HIDE DEF t
<1>7. /\ t \o high \in Seq(S) /\ Len(t \o high) = n + 1
      /\ \A k \in 1..(n + 1) : (t \o high)[k] = IF k <= at THEN t[k] ELSE high[k - at]
  BY <1>1, <1>3, <1>6, ConcatProperties
<1>8. ASSUME NEW k \in 1..(n + 1)
      PROVE  (t \o high)[k] = IF k < at THEN s[k] ELSE IF k = at THEN x ELSE s[k - 1]
  <2>1. CASE k < at
    BY <2>1, <1>1, <1>6, <1>7
  <2>2. CASE k = at
    BY <2>2, <1>1, <1>6, <1>7
  <2>3. CASE k > at
    <3>1. k - at \in 1..(n + 1 - at) /\ at + (k - at) - 1 = k - 1 /\ ~(k <= at)
      BY <2>3, <1>1
    <3>2. high[k - at] = s[k - 1]
      BY <3>1, <1>3
    <3> QED BY <2>3, <3>1, <3>2, <1>7
  <2>4. k < at \/ k = at \/ k > at
    BY <1>1
  <2> QED BY <2>1, <2>2, <2>3, <2>4, Zenon
<1> QED BY <1>5, <1>7, <1>8

\* The pcs of S, when a word goes in at pc.
Moved(pc, S) == {IF b >= pc THEN b + 1 ELSE b : b \in S}

\* What insert_generated does with one warning.
LEMMA Inserted ==
  ASSUME NEW q \in PassType, NEW pc \in 0..Len(q.program), NEW word \in SUBSET (0..63)
  PROVE  /\ InsertWarning(q, pc, word) \in PassType
         /\ Len(InsertWarning(q, pc, word).program) = Len(q.program) + 1
         /\ \A k \in 1..(Len(q.program) + 1) :
              InsertWarning(q, pc, word).program[k] =
                IF k < pc + 1 THEN q.program[k] ELSE IF k = pc + 1 THEN word ELSE q.program[k - 1]
         /\ DOMAIN InsertWarning(q, pc, word).branches = Moved(pc, DOMAIN q.branches)
         /\ (\A l \in DOMAIN q.labels : q.labels[l] <= Len(q.program))
              => \A l \in DOMAIN InsertWarning(q, pc, word).labels :
                   InsertWarning(q, pc, word).labels[l] <= Len(q.program) + 1
<1> DEFINE r    == InsertWarning(q, pc, word)
           n    == Len(q.program)
           used == {q.branches[b] : b \in DOMAIN q.branches}
           lbs  == [l \in used |-> IF LabelOf(q.labels, l) > pc THEN LabelOf(q.labels, l) + 1
                                                                 ELSE LabelOf(q.labels, l)]
           D    == {IF b >= pc THEN b + 1 ELSE b : b \in DOMAIN q.branches}
           brs  == [b \in D |-> IF b > pc THEN q.branches[b - 1] ELSE q.branches[b]]
           prog == InsertAt(q.program, pc + 1, word)
<1>1. q.program \in Seq(SUBSET (0..63)) /\ n \in Nat /\ pc \in Nat /\ pc <= n
  BY DEF PassType
<1>2. DOMAIN q.branches \subseteq Nat /\ \A b \in DOMAIN q.branches : q.branches[b] \in Labels
  <2>1. PICK B \in SUBSET Nat : q.branches \in [B -> Labels]
    BY DEF PassType, BranchMaps
  <2> QED BY <2>1
<1>3. \A l : LabelOf(q.labels, l) \in Nat
  <2>1. PICK L \in SUBSET Labels : q.labels \in [L -> Nat]
    BY DEF PassType, LabelMaps
  <2> QED BY <2>1 DEF LabelOf
<1>4. /\ prog \in Seq(SUBSET (0..63)) /\ Len(prog) = n + 1
      /\ \A k \in 1..(n + 1) :
           prog[k] = IF k < pc + 1 THEN q.program[k] ELSE IF k = pc + 1 THEN word ELSE q.program[k - 1]
  <2>1. PICK W, s, at : W = SUBSET (0..63) /\ s = q.program /\ at = pc + 1
    OBVIOUS
  <2>2. s \in Seq(W) /\ at \in 1..(Len(s) + 1) /\ word \in W
    BY <1>1, <2>1
  <2>3. InsertAt(s, at, word) \in Seq(W)
    BY <2>2, InsertAtProperties, SMT
  <2>4. Len(InsertAt(s, at, word)) = Len(s) + 1
    BY <2>2, InsertAtProperties, SMT
  <2>5. \A k \in 1..(Len(s) + 1) :
          InsertAt(s, at, word)[k] = IF k < at THEN s[k] ELSE IF k = at THEN word ELSE s[k - 1]
    BY <2>2, InsertAtProperties, SMT
  <2> QED BY <2>1, <2>3, <2>4, <2>5
<1>5. lbs \in LabelMaps
  <2>1. used \in SUBSET Labels
    BY <1>2
  <2>2. lbs \in [used -> Nat]
    BY <1>1, <1>3
  <2> HIDE DEF lbs, used
  <2> QED BY <2>1, <2>2 DEF LabelMaps
<1>6. brs \in BranchMaps
  <2>1. D \in SUBSET Nat
    BY <1>1, <1>2
  <2>2. ASSUME NEW b \in D PROVE (IF b > pc THEN q.branches[b - 1] ELSE q.branches[b]) \in Labels
    <3>1. PICK c \in DOMAIN q.branches : b = IF c >= pc THEN c + 1 ELSE c
      OBVIOUS
    <3>2. c \in Nat /\ q.branches[c] \in Labels
      BY <1>2
    <3>3. CASE c >= pc
      <4>1. b > pc /\ b - 1 = c
        BY <1>1, <3>1, <3>2, <3>3
      <4> QED BY <3>2, <4>1
    <3>4. CASE ~(c >= pc)
      <4>1. ~(b > pc) /\ b = c
        BY <1>1, <3>1, <3>2, <3>4
      <4> QED BY <3>2, <4>1
    <3> QED BY <3>3, <3>4
  <2>3. brs \in [D -> Labels]
    <3> HIDE DEF D
    <3> QED BY <2>2
  <2> HIDE DEF brs, D
  <2> QED BY <2>1, <2>3 DEF BranchMaps
<1>7. r = [q EXCEPT !.program = prog, !.labels = lbs, !.branches = brs]
  BY DEF InsertWarning, PassType
<1>8. DOMAIN brs = Moved(pc, DOMAIN q.branches)
  BY DEF Moved
<1>9. (\A l \in DOMAIN q.labels : q.labels[l] <= n) => \A l \in DOMAIN lbs : lbs[l] <= n + 1
  <2> SUFFICES ASSUME \A l \in DOMAIN q.labels : q.labels[l] <= n, NEW l \in used
               PROVE  lbs[l] <= n + 1
    OBVIOUS
  <2>1. LabelOf(q.labels, l) \in Nat /\ LabelOf(q.labels, l) <= n
    BY <1>1, <1>3 DEF LabelOf
  <2> QED BY <1>1, <2>1
<1> HIDE DEF r, prog, lbs, brs
<1>10. r \in PassType /\ r.program = prog /\ r.labels = lbs /\ r.branches = brs
  BY <1>4, <1>5, <1>6, <1>7 DEF PassType
<1> QED BY <1>4, <1>8, <1>9, <1>10 DEF r

\* The labels that branches name.
Used(q) == {q.branches[b] : b \in DOMAIN q.branches}

\* The branches keep their labels, and a label moves if it is beyond pc.
LEMMA InsertedTargets ==
  ASSUME NEW q \in PassType, NEW pc \in Nat, NEW word
  PROVE  /\ \A b \in DOMAIN q.branches :
              InsertWarning(q, pc, word).branches[IF b >= pc THEN b + 1 ELSE b] = q.branches[b]
         /\ \A l \in Used(q) :
              LabelOf(InsertWarning(q, pc, word).labels, l) =
                IF LabelOf(q.labels, l) > pc THEN LabelOf(q.labels, l) + 1 ELSE LabelOf(q.labels, l)
<1> DEFINE r   == InsertWarning(q, pc, word)
           lbs == [l \in Used(q) |-> IF LabelOf(q.labels, l) > pc THEN LabelOf(q.labels, l) + 1
                                                                  ELSE LabelOf(q.labels, l)]
           D   == {IF b >= pc THEN b + 1 ELSE b : b \in DOMAIN q.branches}
           brs == [b \in D |-> IF b > pc THEN q.branches[b - 1] ELSE q.branches[b]]
<1>1. r.labels = lbs /\ r.branches = brs
  BY DEF InsertWarning, PassType, Used
<1> HIDE DEF r
<1>2. DOMAIN q.branches \subseteq Nat
  BY DEF PassType, BranchMaps
<1>3. ASSUME NEW b \in DOMAIN q.branches PROVE brs[IF b >= pc THEN b + 1 ELSE b] = q.branches[b]
  <2>1. b \in Nat /\ (b + 1) - 1 = b
    BY <1>2
  <2>2. CASE b >= pc
    <3>1. b + 1 \in D /\ b + 1 > pc
      BY <2>1, <2>2
    <3> HIDE DEF D
    <3> QED BY <2>1, <2>2, <3>1
  <2>3. CASE ~(b >= pc)
    <3>1. b \in D /\ ~(b > pc)
      BY <2>1, <2>3
    <3> HIDE DEF D
    <3> QED BY <2>1, <2>3, <3>1
  <2> QED BY <2>2, <2>3
<1>4. ASSUME NEW l \in Used(q)
      PROVE  LabelOf(lbs, l) = IF LabelOf(q.labels, l) > pc THEN LabelOf(q.labels, l) + 1
                                                            ELSE LabelOf(q.labels, l)
  <2>1. LabelOf(lbs, l) = lbs[l]
    BY DEF LabelOf
  <2> QED BY <2>1
<1> HIDE DEF lbs, brs
<1> QED BY <1>1, <1>3, <1>4 DEF r

\* q is p with INFO words put in before its words number 1 to k: e has where the words of
\* p are now.
Spread(p, q, k, e) ==
  LET n == Len(p.program)
      d == Len(q.program) - n
  IN  /\ d \in Nat /\ e \in [1..n -> 1..(n + d)]
      /\ \A i, j \in 1..n : i < j => e[i] < e[j]
      /\ \A i \in 1..n : q.program[e[i]] = p.program[i] /\ e[i] <= i + d /\ (i >= k => e[i] = i + d)
      /\ \A j \in 1..(n + d) : (\A i \in 1..n : e[i] # j) => IsInfo(q.program[j])
      /\ DOMAIN q.branches = {e[b + 1] - 1 : b \in DOMAIN p.branches}
      /\ \A l \in DOMAIN q.labels : q.labels[l] <= n + d
      /\ q.spc = p.spc

\* The place of the last of the first i words, and how far the next one is behind it.
Before(e, i)    == IF i = 0 THEN 0 ELSE e[i]
Gap(e, n, m, i) == (IF i = n THEN m + 1 ELSE e[i + 1]) - Before(e, i)

\* Each branch still has its label, a label is behind the word that it was behind, and there
\* is no more than one INFO between two words, and none from k on.
Led(p, q, k, e) ==
  LET n == Len(p.program)
      m == Len(q.program)
  IN  /\ \A b \in DOMAIN p.branches : q.branches[e[b + 1] - 1] = p.branches[b]
      /\ \A l \in Used(p) : LabelOf(q.labels, l) = Before(e, LabelOf(p.labels, l))
      /\ \A i \in 0..n : Gap(e, n, m, i) \in {1, 2} /\ (i >= k => Gap(e, n, m, i) = 1)

\* The INFO words that were put in stand right before the words with a key below k.
Headed(p, q, k, e) ==
  LET n == Len(p.program)
  IN  /\ \A j \in 1..Len(q.program) : (\A i \in 1..n : e[i] # j)
           => \E i \in 1..n : i - 1 \in DOMAIN p.warnings /\ i - 1 < k /\ e[i] = j + 1
      /\ \A i \in 1..n : i - 1 \in DOMAIN p.warnings /\ i - 1 < k
           => /\ e[i] > 1 /\ q.program[e[i] - 1] = p.warnings[i - 1]
              /\ \A x \in 1..n : e[x] # e[i] - 1

\* Where the words are when the INFO with key k is in too.
Places(p, k, e) ==
  IF k \in DOMAIN p.warnings
  THEN [i \in 1..Len(p.program) |-> IF i > k THEN e[i] + 1 ELSE e[i]]
  ELSE e

\* One key of warnings.
LEMMA KeySpreads ==
  ASSUME NEW p \in PassType, DOMAIN p.branches \subseteq 0..(Len(p.program) - 1),
         NEW q \in PassType, NEW k \in 0..Len(p.program), NEW e, Spread(p, q, k, e)
  PROVE  Spread(p, InsertKey(q, p, k), k + 1, Places(p, k, e))
<1>0. PICK n, d, m : n = Len(p.program) /\ d = Len(q.program) - n /\ m = n + d
  OBVIOUS
<1>1. n \in Nat /\ d \in Nat /\ m \in Nat /\ m = n + d /\ Len(q.program) = m /\ k \in Nat /\ k <= n
  BY <1>0 DEF PassType, Spread
<1>2. /\ e \in [1..n -> 1..m]
      /\ \A i, j \in 1..n : i < j => e[i] < e[j]
      /\ \A i \in 1..n : q.program[e[i]] = p.program[i] /\ e[i] <= i + d /\ (i >= k => e[i] = i + d)
      /\ \A j \in 1..m : (\A i \in 1..n : e[i] # j) => IsInfo(q.program[j])
      /\ DOMAIN q.branches = {e[b + 1] - 1 : b \in DOMAIN p.branches}
      /\ \A l \in DOMAIN q.labels : q.labels[l] <= m
      /\ q.spc = p.spc
  BY <1>0 DEF Spread
<1>3. CASE k \notin DOMAIN p.warnings
  <2>1. InsertKey(q, p, k) = q
    BY <1>3 DEF InsertKey
  <2>2. \A i \in 1..n : i >= k + 1 => i >= k
    BY <1>1
  <2>3. Spread(p, q, k + 1, e)
    BY <1>0, <1>1, <1>2, <2>2 DEF Spread
  <2>4. Places(p, k, e) = e
    BY <1>3 DEF Places
  <2> QED BY <2>1, <2>3, <2>4
<1>4. CASE k \in DOMAIN p.warnings
  <2>0. PICK pc, word : pc = k + d /\ word = p.warnings[k]
    OBVIOUS
  <2> DEFINE r == InsertWarning(q, pc, word)
             f == [i \in 1..n |-> IF i > k THEN e[i] + 1 ELSE e[i]]
  <2>1. InsertKey(q, p, k) = r
    BY <1>0, <1>4, <2>0 DEF InsertKey
  <2>2. word \in SUBSET (0..63) /\ IsInfo(word)
    <3>1. PICK D \in SUBSET Nat : p.warnings \in [D -> InfoWord]
      BY DEF PassType, WarningMaps
    <3>2. word \in InfoWord
      BY <1>4, <2>0, <3>1
    <3> QED BY <3>2 DEF InfoWord
  <2>3. pc \in 0..Len(q.program) /\ pc \in Nat
    BY <1>1, <2>0
  <2>4. /\ Len(r.program) = m + 1
        /\ \A j \in 1..(m + 1) :
             r.program[j] = IF j < pc + 1 THEN q.program[j] ELSE IF j = pc + 1 THEN word ELSE q.program[j - 1]
        /\ DOMAIN r.branches = Moved(pc, DOMAIN q.branches)
        /\ \A l \in DOMAIN r.labels : r.labels[l] <= m + 1
    <3>1. Len(r.program) = m + 1
      BY <1>1, <2>2, <2>3, Inserted
    <3>2. \A j \in 1..(m + 1) :
            r.program[j] = IF j < pc + 1 THEN q.program[j] ELSE IF j = pc + 1 THEN word ELSE q.program[j - 1]
      BY <1>1, <2>2, <2>3, Inserted
    <3>3. DOMAIN r.branches = Moved(pc, DOMAIN q.branches)
      BY <2>2, <2>3, Inserted
    <3>4. \A l \in DOMAIN r.labels : r.labels[l] <= m + 1
      <4>1. \A l \in DOMAIN q.labels : q.labels[l] <= Len(q.program)
        BY <1>1, <1>2
      <4>2. \A l \in DOMAIN r.labels : r.labels[l] <= Len(q.program) + 1
        BY <2>2, <2>3, <4>1, Inserted
      <4> QED BY <1>1, <4>2
    <3> QED BY <3>1, <3>2, <3>3, <3>4
  <2> HIDE DEF r
  <2>5. ASSUME NEW i \in 1..n
        PROVE  /\ e[i] \in 1..m /\ i \in Int
               /\ i > k  => e[i] >= pc + 1 /\ f[i] = e[i] + 1
               /\ i <= k => e[i] <= pc /\ f[i] = e[i]
    BY <1>1, <1>2, <2>0
  <2>6. ASSUME NEW i \in 1..n
        PROVE  f[i] \in 1..(m + 1) /\ f[i] <= i + (d + 1) /\ (i >= k + 1 => f[i] = i + (d + 1))
    BY <1>1, <1>2, <2>5
  <2>7. ASSUME NEW i \in 1..n PROVE r.program[f[i]] = p.program[i]
    <3>1. CASE i > k
      <4>1. f[i] \in 1..(m + 1) /\ f[i] > pc + 1 /\ f[i] - 1 = e[i]
        BY <1>1, <2>3, <2>5, <3>1
      <4>2. r.program[f[i]] = q.program[f[i] - 1]
        <5>1. ~(f[i] < pc + 1) /\ ~(f[i] = pc + 1)
          BY <2>3, <4>1
        <5> HIDE DEF f
        <5> QED BY <2>4, <4>1, <5>1
      <4> QED BY <1>2, <4>1, <4>2
    <3>2. CASE i <= k
      <4>1. f[i] \in 1..(m + 1) /\ f[i] < pc + 1 /\ f[i] = e[i]
        BY <1>1, <2>3, <2>5, <3>2
      <4>2. r.program[f[i]] = q.program[f[i]]
        <5> HIDE DEF f
        <5> QED BY <1>1, <2>3, <2>4, <4>1
      <4> QED BY <1>2, <4>1, <4>2
    <3> QED BY <1>1, <2>5, <3>1, <3>2
  <2>8. ASSUME NEW i \in 1..n, NEW j \in 1..n, i < j PROVE f[i] < f[j]
    <3>1. e[i] < e[j]
      BY <1>2, <2>8
    <3> QED BY <1>1, <2>5, <2>8, <3>1
  <2>9. ASSUME NEW j \in 1..(m + 1), \A i \in 1..n : f[i] # j PROVE IsInfo(r.program[j])
    <3>1. CASE j = pc + 1
      BY <1>1, <2>2, <2>3, <2>4, <3>1
    <3>2. CASE j < pc + 1
      <4>1. j \in 1..m /\ r.program[j] = q.program[j]
        BY <1>1, <2>3, <2>4, <3>2
      <4>2. \A i \in 1..n : e[i] # j
        BY <1>1, <2>3, <2>5, <2>9, <3>2
      <4> QED BY <1>2, <4>1, <4>2
    <3>3. CASE j > pc + 1
      <4>1. j - 1 \in 1..m /\ r.program[j] = q.program[j - 1]
        BY <1>1, <2>3, <2>4, <3>3
      <4>2. \A i \in 1..n : e[i] # j - 1
        BY <1>1, <2>3, <2>5, <2>9, <3>3
      <4> QED BY <1>2, <4>1, <4>2
    <3>4. j = pc + 1 \/ j < pc + 1 \/ j > pc + 1
      BY <1>1, <2>3
    <3> QED BY <3>1, <3>2, <3>3, <3>4
  <2>10. DOMAIN r.branches = {f[b + 1] - 1 : b \in DOMAIN p.branches}
    <3>1. ASSUME NEW b \in DOMAIN p.branches
          PROVE  (IF e[b + 1] - 1 >= pc THEN (e[b + 1] - 1) + 1 ELSE e[b + 1] - 1) = f[b + 1] - 1
      <4>1. b + 1 \in 1..n
        BY <1>0, <1>1
      <4>2. CASE b + 1 > k
        BY <1>1, <2>3, <2>5, <4>1, <4>2
      <4>3. CASE b + 1 <= k
        BY <1>1, <2>3, <2>5, <4>1, <4>3
      <4> QED BY <1>1, <2>3, <2>5, <4>1, <4>2, <4>3
    <3> HIDE DEF f
    <3>2. DOMAIN r.branches = {IF c >= pc THEN c + 1 ELSE c : c \in {e[b + 1] - 1 : b \in DOMAIN p.branches}}
      BY <1>2, <2>4 DEF Moved
    <3> QED BY <3>1, <3>2
  <2>11. f \in [1..n -> 1..(n + (d + 1))]
    BY <1>1, <2>6
  <2>12. Len(r.program) - Len(p.program) = d + 1 /\ d + 1 \in Nat /\ m + 1 = n + (d + 1)
    BY <1>0, <1>1, <2>4
  <2>13. Places(p, k, e) = f
    BY <1>0, <1>4 DEF Places
  <2>14. r.spc = p.spc
    BY <1>2 DEF r, InsertWarning, PassType
  <2> HIDE DEF f
  <2>15. Spread(p, r, k + 1, f)
    BY <2>4, <2>6, <2>7, <2>8, <2>9, <2>10, <2>11, <2>12, <2>14, <1>0 DEF Spread
  <2> QED BY <2>1, <2>15, <2>13
<1> QED BY <1>3, <1>4

\* The branches and labels after one key.
LEMMA KeyLeads ==
  ASSUME NEW p \in PassType, DOMAIN p.branches \subseteq 0..(Len(p.program) - 1),
         \A l \in DOMAIN p.labels : p.labels[l] <= Len(p.program),
         NEW q \in PassType, NEW k \in 0..Len(p.program), NEW e, Spread(p, q, k, e), Led(p, q, k, e)
  PROVE  Led(p, InsertKey(q, p, k), k + 1, Places(p, k, e))
<1>0. PICK n, d, m : n = Len(p.program) /\ d = Len(q.program) - n /\ m = n + d
  OBVIOUS
<1>1. n \in Nat /\ d \in Nat /\ m \in Nat /\ m = n + d /\ Len(q.program) = m /\ k \in Nat /\ k <= n
  BY <1>0 DEF PassType, Spread
<1>2. /\ e \in [1..n -> 1..m]
      /\ \A i \in 1..n : e[i] <= i + d /\ (i >= k => e[i] = i + d)
      /\ DOMAIN q.branches = {e[b + 1] - 1 : b \in DOMAIN p.branches}
  BY <1>0 DEF Spread
<1>3. /\ \A b \in DOMAIN p.branches : q.branches[e[b + 1] - 1] = p.branches[b]
      /\ \A l \in Used(p) : LabelOf(q.labels, l) = Before(e, LabelOf(p.labels, l))
      /\ \A i \in 0..n : Gap(e, n, m, i) \in {1, 2} /\ (i >= k => Gap(e, n, m, i) = 1)
  BY <1>0, <1>1 DEF Led
<1>4. CASE k \notin DOMAIN p.warnings
  <2>1. InsertKey(q, p, k) = q /\ Places(p, k, e) = e
    BY <1>4 DEF InsertKey, Places
  <2>2. \A i \in 0..n : i >= k + 1 => i >= k
    BY <1>1
  <2>3. Led(p, q, k + 1, e)
    BY <1>0, <1>1, <1>3, <2>2 DEF Led
  <2> QED BY <2>1, <2>3
<1>5. CASE k \in DOMAIN p.warnings
  <2>0. PICK pc, word, r, f : /\ pc = k + d /\ word = p.warnings[k] /\ r = InsertWarning(q, pc, word)
                              /\ f = [i \in 1..n |-> IF i > k THEN e[i] + 1 ELSE e[i]]
    OBVIOUS
  <2>1. InsertKey(q, p, k) = r /\ Places(p, k, e) = f
    BY <1>0, <1>5, <2>0 DEF InsertKey, Places
  <2>2. pc \in Nat /\ pc \in 0..Len(q.program)
    BY <1>1, <2>0
  <2>3. Len(r.program) = m + 1
    <3>1. word \in SUBSET (0..63)
      <4>1. PICK D \in SUBSET Nat : p.warnings \in [D -> InfoWord]
        BY DEF PassType, WarningMaps
      <4> QED BY <1>5, <2>0, <4>1 DEF InfoWord
    <3>2. Len(InsertWarning(q, pc, word).program) = Len(q.program) + 1
      BY <2>2, <3>1, Inserted
    <3> QED BY <1>1, <2>0, <3>2
  <2>4. ASSUME NEW i \in 1..n
        PROVE  /\ e[i] \in 1..m /\ f[i] \in Int
               /\ i > k  => e[i] > pc /\ f[i] = e[i] + 1
               /\ i <= k => e[i] <= pc /\ f[i] = e[i]
    BY <1>1, <1>2, <2>0
  <2>5. ASSUME NEW b \in DOMAIN p.branches PROVE r.branches[f[b + 1] - 1] = p.branches[b]
    <3>1. b + 1 \in 1..n
      BY <1>0, <1>1
    <3>2. PICK c : c = e[b + 1] - 1
      OBVIOUS
    <3>3. c \in DOMAIN q.branches /\ c \in Nat /\ e[b + 1] = c + 1
      BY <1>2, <2>4, <3>1, <3>2
    <3>4. (IF c >= pc THEN c + 1 ELSE c) = f[b + 1] - 1
      <4>1. CASE b + 1 > k
        <5>1. c >= pc /\ f[b + 1] = c + 2
          BY <2>2, <2>4, <3>1, <3>3, <4>1
        <5> QED BY <3>3, <5>1
      <4>2. CASE b + 1 <= k
        <5>1. ~(c >= pc) /\ f[b + 1] = c + 1
          BY <2>2, <2>4, <3>1, <3>3, <4>2
        <5> QED BY <3>3, <5>1
      <4> QED BY <1>1, <3>1, <4>1, <4>2
    <3>5. r.branches[IF c >= pc THEN c + 1 ELSE c] = q.branches[c]
      BY <2>0, <2>2, <3>3, InsertedTargets
    <3> QED BY <1>3, <3>2, <3>4, <3>5
  <2>6. ASSUME NEW l \in Used(p) PROVE LabelOf(r.labels, l) = Before(f, LabelOf(p.labels, l))
    <3>1. l \in Used(q)
      <4>1. PICK b \in DOMAIN p.branches : l = p.branches[b]
        BY DEF Used
      <4> QED BY <1>2, <1>3, <4>1 DEF Used
    <3>2. PICK L, x : L = LabelOf(p.labels, l) /\ x = LabelOf(q.labels, l)
      OBVIOUS
    <3>3. L \in 0..n
      <4>1. PICK M \in SUBSET Labels : p.labels \in [M -> Nat]
        BY DEF PassType, LabelMaps
      <4> QED BY <1>0, <1>1, <3>2, <4>1 DEF LabelOf
    <3>4. x = Before(e, L)
      BY <1>3, <3>2
    <3>5. LabelOf(r.labels, l) = IF x > pc THEN x + 1 ELSE x
      BY <2>0, <2>2, <3>1, <3>2, InsertedTargets
    <3>6. CASE L = 0
      <4>1. x = 0 /\ ~(x > pc) /\ Before(f, L) = 0
        BY <2>2, <3>4, <3>6 DEF Before
      <4> QED BY <3>2, <3>5, <4>1
    <3>7. CASE L # 0
      <4>1. L \in 1..n /\ x = e[L] /\ Before(f, L) = f[L]
        BY <1>1, <3>3, <3>4, <3>7 DEF Before
      <4>2. CASE L > k
        <5>1. x > pc /\ f[L] = x + 1
          BY <2>4, <4>1, <4>2
        <5> QED BY <3>2, <3>5, <4>1, <5>1
      <4>3. CASE L <= k
        <5>1. ~(x > pc) /\ f[L] = x
          BY <2>2, <2>4, <4>1, <4>3
        <5> QED BY <3>2, <3>5, <4>1, <5>1
      <4> QED BY <1>1, <4>1, <4>2, <4>3
    <3> QED BY <3>6, <3>7
  <2>7. ASSUME NEW i \in 0..n
        PROVE  Gap(f, n, m + 1, i) \in {1, 2} /\ (i >= k + 1 => Gap(f, n, m + 1, i) = 1)
    <3>1. PICK a, b, g, h : /\ a = Before(e, i) /\ b = Before(f, i)
                            /\ g = IF i = n THEN m + 1 ELSE e[i + 1]
                            /\ h = IF i = n THEN (m + 1) + 1 ELSE f[i + 1]
      OBVIOUS
    <3>2. Gap(e, n, m, i) = g - a /\ Gap(f, n, m + 1, i) = h - b
      BY <3>1 DEF Gap
    <3>3. (g - a = 1 \/ g - a = 2) /\ (i >= k => g - a = 1)
      BY <1>3, <3>2
    <3>4. /\ a \in Int /\ b \in Int
          /\ i <= k => b = a
          /\ i > k => b = a + 1
      <4>1. CASE i = 0
        BY <1>1, <3>1, <4>1 DEF Before
      <4>2. CASE i # 0
        <5>1. i \in 1..n /\ a = e[i] /\ b = f[i]
          BY <1>1, <3>1, <4>2 DEF Before
        <5> QED BY <2>4, <5>1
      <4> QED BY <4>1, <4>2
    <3>5. /\ g \in Int /\ h \in Int
          /\ i < k => h = g
          /\ i >= k => h = g + 1
      <4>1. CASE i = n
        BY <1>1, <3>1, <4>1
      <4>2. CASE i # n
        <5>1. i + 1 \in 1..n /\ g = e[i + 1] /\ h = f[i + 1]
          BY <1>1, <3>1, <4>2
        <5>2. i < k => i + 1 <= k
          BY <1>1
        <5>3. i >= k => i + 1 > k
          BY <1>1
        <5> QED BY <1>1, <2>4, <5>1, <5>2, <5>3
      <4> QED BY <4>1, <4>2
    <3>6. (h - b = 1 \/ h - b = 2) /\ (i >= k + 1 => h - b = 1)
      <4>1. CASE i < k
        BY <1>1, <3>3, <3>4, <3>5, <4>1
      <4>2. CASE i = k
        BY <1>1, <3>3, <3>4, <3>5, <4>2
      <4>3. CASE i > k
        BY <1>1, <3>3, <3>4, <3>5, <4>3
      <4> QED BY <1>1, <4>1, <4>2, <4>3
    <3> QED BY <3>2, <3>6
  <2>8. Led(p, r, k + 1, f)
    BY <1>0, <2>3, <2>5, <2>6, <2>7 DEF Led
  <2> QED BY <2>1, <2>8
<1> QED BY <1>4, <1>5

\* One key puts its INFO before its word.
LEMMA KeyHeads ==
  ASSUME NEW p \in PassType, DOMAIN p.warnings \subseteq 0..(Len(p.program) - 1),
         NEW q \in PassType, NEW k \in 0..Len(p.program), NEW e, Spread(p, q, k, e), Headed(p, q, k, e)
  PROVE  Headed(p, InsertKey(q, p, k), k + 1, Places(p, k, e))
<1>0. PICK n, d, m : n = Len(p.program) /\ d = Len(q.program) - n /\ m = n + d
  OBVIOUS
<1>1. n \in Nat /\ d \in Nat /\ m \in Nat /\ m = n + d /\ Len(q.program) = m /\ k \in Nat /\ k <= n
  BY <1>0 DEF PassType, Spread
<1>2. e \in [1..n -> 1..m] /\ \A i \in 1..n : e[i] <= i + d /\ (i >= k => e[i] = i + d)
  BY <1>0 DEF Spread
<1>3. /\ \A j \in 1..m : (\A i \in 1..n : e[i] # j)
           => \E i \in 1..n : i - 1 \in DOMAIN p.warnings /\ i - 1 < k /\ e[i] = j + 1
      /\ \A i \in 1..n : i - 1 \in DOMAIN p.warnings /\ i - 1 < k
           => /\ e[i] > 1 /\ q.program[e[i] - 1] = p.warnings[i - 1]
              /\ \A x \in 1..n : e[x] # e[i] - 1
  BY <1>0, <1>1 DEF Headed
<1>4. CASE k \notin DOMAIN p.warnings
  <2>1. InsertKey(q, p, k) = q /\ Places(p, k, e) = e
    BY <1>4 DEF InsertKey, Places
  <2>2. \A i \in 1..n : i - 1 \in DOMAIN p.warnings => (i - 1 < k + 1 <=> i - 1 < k)
    <3> SUFFICES ASSUME NEW i \in 1..n, i - 1 \in DOMAIN p.warnings PROVE i - 1 < k + 1 <=> i - 1 < k
      OBVIOUS
    <3>1. i - 1 # k
      BY <1>4
    <3> QED BY <1>1, <3>1
  <2>3. Headed(p, q, k + 1, e)
    BY <1>0, <1>1, <1>3, <2>2 DEF Headed
  <2> QED BY <2>1, <2>3
<1>5. CASE k \in DOMAIN p.warnings
  <2>0. PICK pc, word, r, f : /\ pc = k + d /\ word = p.warnings[k] /\ r = InsertWarning(q, pc, word)
                              /\ f = [i \in 1..n |-> IF i > k THEN e[i] + 1 ELSE e[i]]
    OBVIOUS
  <2>1. InsertKey(q, p, k) = r /\ Places(p, k, e) = f
    BY <1>0, <1>5, <2>0 DEF InsertKey, Places
  <2>2. pc \in Nat /\ pc \in 0..Len(q.program) /\ k + 1 \in 1..n /\ (k + 1) - 1 = k
    <3>1. pc \in Nat /\ pc \in 0..Len(q.program)
      BY <1>1, <2>0
    <3>2. k \in 0..(n - 1)
      BY <1>0, <1>5
    <3>3. k + 1 \in 1..n /\ (k + 1) - 1 = k
      BY <1>1, <3>2
    <3> QED BY <3>1, <3>3
  <2>3. /\ Len(r.program) = m + 1
        /\ \A j \in 1..(m + 1) :
             r.program[j] = IF j < pc + 1 THEN q.program[j] ELSE IF j = pc + 1 THEN word ELSE q.program[j - 1]
    <3>1. word \in SUBSET (0..63)
      <4>1. PICK D \in SUBSET Nat : p.warnings \in [D -> InfoWord]
        BY DEF PassType, WarningMaps
      <4> QED BY <1>5, <2>0, <4>1 DEF InfoWord
    <3>2. Len(InsertWarning(q, pc, word).program) = Len(q.program) + 1
      BY <2>2, <3>1, Inserted
    <3>3. \A j \in 1..(Len(q.program) + 1) :
            InsertWarning(q, pc, word).program[j] =
              IF j < pc + 1 THEN q.program[j] ELSE IF j = pc + 1 THEN word ELSE q.program[j - 1]
      BY <2>2, <3>1, Inserted
    <3> QED BY <1>1, <2>0, <3>2, <3>3
  <2>4. ASSUME NEW i \in 1..n
        PROVE  /\ e[i] \in 1..m /\ f[i] \in Int
               /\ i > k  => e[i] > pc /\ f[i] = e[i] + 1
               /\ i <= k => e[i] <= pc /\ f[i] = e[i]
               /\ i = k + 1 => e[i] = pc + 1 /\ f[i] = pc + 2
    <3>1. i \in Nat /\ e[i] \in 1..m /\ e[i] <= i + d /\ (i >= k => e[i] = i + d)
      BY <1>1, <1>2
    <3>2. f[i] = IF i > k THEN e[i] + 1 ELSE e[i]
      BY <2>0
    <3>3. PICK x, y : x = e[i] /\ y = f[i]
      OBVIOUS
    <3>4. x \in Int /\ x <= i + d /\ (i >= k => x = i + d) /\ y = IF i > k THEN x + 1 ELSE x
      BY <1>1, <3>1, <3>2, <3>3
    <3>5. /\ y \in Int
          /\ i > k  => x > pc /\ y = x + 1
          /\ i <= k => x <= pc /\ y = x
          /\ i = k + 1 => x = pc + 1 /\ y = pc + 2
      BY <1>1, <2>0, <3>1, <3>4
    <3> QED BY <3>1, <3>3, <3>5
  <2>5. ASSUME NEW j \in 1..(m + 1), \A i \in 1..n : f[i] # j
        PROVE  \E i \in 1..n : i - 1 \in DOMAIN p.warnings /\ i - 1 < k + 1 /\ f[i] = j + 1
    <3>1. CASE j = pc + 1
      <4>1. PICK i : i = k + 1
        OBVIOUS
      <4>2. i \in 1..n /\ i - 1 = k
        BY <2>2, <4>1
      <4>3. f[i] = pc + 2
        BY <2>4, <4>1, <4>2
      <4>4. f[i] = j + 1 /\ k < k + 1
        BY <1>1, <2>2, <3>1, <4>3
      <4> QED BY <1>5, <4>2, <4>4
    <3>2. CASE j < pc + 1
      <4>1. j \in 1..m /\ \A i \in 1..n : e[i] # j
        <5>1. j \in 1..m
          BY <1>1, <2>0, <3>2
        <5>2. ASSUME NEW i \in 1..n, e[i] = j PROVE FALSE
          <6>1. i <= k
            BY <1>1, <2>2, <2>4, <3>2, <5>2
          <6> QED BY <2>4, <2>5, <5>2, <6>1
        <5> QED BY <5>1, <5>2
      <4>2. PICK i \in 1..n : i - 1 \in DOMAIN p.warnings /\ i - 1 < k /\ e[i] = j + 1
        BY <1>3, <4>1
      <4>3. i <= k /\ i - 1 < k + 1
        BY <1>1, <4>2
      <4> QED BY <2>4, <4>2, <4>3
    <3>3. CASE j > pc + 1
      <4>1. j - 1 \in 1..m /\ j - 1 > pc /\ (j - 1) + 1 = j
        BY <1>1, <2>2, <3>3
      <4>2. ASSUME NEW i \in 1..n, e[i] = j - 1 PROVE FALSE
        <5>1. i > k
          BY <1>1, <2>2, <2>4, <4>1, <4>2
        <5> QED BY <2>4, <2>5, <4>1, <4>2, <5>1
      <4>3. PICK i \in 1..n : i - 1 < k /\ e[i] = j
        BY <1>3, <4>1, <4>2
      <4>4. i <= k
        BY <1>1, <4>3
      <4> QED BY <2>2, <2>4, <3>3, <4>3, <4>4
    <3>4. j = pc + 1 \/ j < pc + 1 \/ j > pc + 1
      BY <1>1, <2>2
    <3> QED BY <3>1, <3>2, <3>3, <3>4
  <2>6. ASSUME NEW i \in 1..n, i - 1 \in DOMAIN p.warnings, i - 1 < k + 1
        PROVE  f[i] > 1 /\ r.program[f[i] - 1] = p.warnings[i - 1] /\ \A x \in 1..n : f[x] # f[i] - 1
    <3>1. CASE i = k + 1
      <4>1. f[i] = pc + 2 /\ f[i] - 1 = pc + 1 /\ pc + 1 \in 1..(m + 1) /\ i - 1 = k
        BY <1>1, <2>2, <2>0, <2>4, <3>1
      <4>2. r.program[pc + 1] = word
        BY <2>2, <2>3, <4>1
      <4>3. ASSUME NEW x \in 1..n PROVE f[x] # pc + 1
        <5>1. x > k \/ x <= k
          BY <1>1
        <5> QED BY <2>2, <2>4, <5>1
      <4> QED BY <2>0, <2>2, <4>1, <4>2, <4>3
    <3>2. CASE i # k + 1
      <4>1. i <= k /\ i - 1 < k
        BY <1>1, <2>6, <3>2
      <4>2. /\ e[i] > 1 /\ q.program[e[i] - 1] = p.warnings[i - 1] /\ f[i] = e[i] /\ e[i] <= pc
            /\ \A x \in 1..n : e[x] # e[i] - 1
        BY <1>3, <2>4, <2>6, <4>1
      <4>3. e[i] - 1 \in 1..(m + 1) /\ e[i] - 1 < pc + 1
        <5>1. e[i] \in 1..m
          BY <2>4
        <5> QED BY <1>1, <2>2, <4>2, <5>1
      <4>4. r.program[e[i] - 1] = q.program[e[i] - 1]
        BY <2>3, <4>3
      <4>5. ASSUME NEW x \in 1..n PROVE f[x] # e[i] - 1
        <5>1. x > k \/ x <= k
          BY <1>1
        <5> QED BY <2>2, <2>4, <4>2, <4>3, <5>1
      <4> QED BY <4>2, <4>4, <4>5
    <3> QED BY <3>1, <3>2
  <2>7. Headed(p, r, k + 1, f)
    BY <1>0, <2>3, <2>5, <2>6 DEF Headed
  <2> QED BY <2>1, <2>7
<1> QED BY <1>4, <1>5

\* One key keeps a program in the passes one.
LEMMA KeyTyped ==
  ASSUME NEW p \in PassType, NEW q \in PassType, Len(q.program) >= Len(p.program),
         NEW key \in 0..Len(p.program)
  PROVE  InsertKey(q, p, key) \in PassType /\ Len(InsertKey(q, p, key).program) >= Len(p.program)
<1>1. Len(p.program) \in Nat /\ Len(q.program) \in Nat
  BY DEF PassType
<1>2. CASE key \notin DOMAIN p.warnings
  BY <1>2 DEF InsertKey
<1>3. CASE key \in DOMAIN p.warnings
  <2>0. PICK pc, word : pc = key + (Len(q.program) - Len(p.program)) /\ word = p.warnings[key]
    OBVIOUS
  <2>1. pc \in 0..Len(q.program)
    <3>1. PICK n, m : n = Len(p.program) /\ m = Len(q.program)
      OBVIOUS
    <3>2. n \in Nat /\ m \in Nat /\ key \in 0..n /\ m >= n /\ pc = key + (m - n)
      BY <1>1, <2>0, <3>1
    <3>3. pc \in 0..m
      BY <3>2
    <3> QED BY <3>1, <3>3
  <2>2. word \in SUBSET (0..63)
    <3>1. PICK D \in SUBSET Nat : p.warnings \in [D -> InfoWord]
      BY DEF PassType, WarningMaps
    <3> QED BY <1>3, <2>0, <3>1 DEF InfoWord
  <2>3. InsertKey(q, p, key) = InsertWarning(q, pc, word)
    BY <1>3, <2>0 DEF InsertKey
  <2>4. InsertWarning(q, pc, word) \in PassType
    BY <2>1, <2>2, Inserted
  <2>5. Len(InsertWarning(q, pc, word).program) = Len(q.program) + 1
    BY <2>1, <2>2, Inserted
  <2> QED BY <1>1, <2>3, <2>4, <2>5
<1> QED BY <1>2, <1>3

\* insert_generated spreads the words and puts INFO words between them.
LEMMA Generated ==
  ASSUME NEW p \in PassType, DOMAIN p.branches \subseteq 0..(Len(p.program) - 1),
         DOMAIN p.warnings \subseteq 0..(Len(p.program) - 1),
         \A l \in DOMAIN p.labels : p.labels[l] <= Len(p.program)
  PROVE  /\ InsertGenerated(p) \in PassType
         /\ \E e : /\ Spread(p, InsertGenerated(p), Len(p.program) + 1, e)
                  /\ Led(p, InsertGenerated(p), Len(p.program) + 1, e)
                  /\ Headed(p, InsertGenerated(p), Len(p.program) + 1, e)
<1> DEFINE n     == Len(p.program)
           Is(f) == f = [k \in 0..(n + 1) |-> IF k = 0 THEN p ELSE InsertKey(f[k - 1], p, k - 1)]
           upTo  == CHOOSE f : Is(f)
           S     == {q \in PassType : Len(q.program) >= n}
           step  == [k \in 1..(n + 1) |-> [q \in S |-> InsertKey(q, p, k - 1)]]
<1>1. n \in Nat /\ n + 1 \in Nat /\ \A k \in 1..(n + 1) : k - 1 \in 0..n
  BY DEF PassType
<1>2. p \in S
  BY <1>1
<1>3. InsertGenerated(p) = upTo[n + 1]
  BY DEF InsertGenerated
<1>4. ASSUME NEW q \in S, NEW k \in 1..(n + 1) PROVE InsertKey(q, p, k - 1) \in S
  BY <1>1, KeyTyped
<1> HIDE DEF n, S
<1>5. step \in [1..(n + 1) -> [S -> S]]
  BY <1>4
<1>6. PICK f \in [0..(n + 1) -> S] : f[0] = p /\ \A k \in 1..(n + 1) : f[k] = step[k][f[k - 1]]
  <2> HIDE DEF step
  <2>1. Iterations(S, n + 1, p, step) # {}
    BY <1>1, <1>2, <1>5, Iterates
  <2> QED BY <2>1 DEF Iterations
<1>7. ASSUME NEW k \in 1..(n + 1) PROVE f[k] = InsertKey(f[k - 1], p, k - 1)
  <2>1. k - 1 \in 0..(n + 1)
    BY <1>1
  <2>2. f[k - 1] \in S
    BY <1>6, <2>1
  <2> QED BY <1>6, <2>2
<1>8. Is(f)
  BY <1>1, <1>6, <1>7
<1>9. Is(upTo)
  <2> HIDE DEF Is
  <2> QED BY <1>8
<1>10. upTo[0] = p /\ \A k \in 1..(n + 1) : upTo[k] = InsertKey(upTo[k - 1], p, k - 1)
  <2> HIDE DEF upTo
  <2> QED BY <1>1, <1>9
<1> HIDE DEF upTo
<1> DEFINE T == {k \in Nat : k <= n + 1 => /\ upTo[k] \in PassType
                                          /\ \E e : /\ Spread(p, upTo[k], k, e) /\ Led(p, upTo[k], k, e)
                                                   /\ Headed(p, upTo[k], k, e)}
<1>11. 0 \in T
  <2> DEFINE e == [i \in 1..n |-> i]
  <2>1. Len(p.program) - n = 0 /\ n + 0 = n
    BY <1>1 DEF n
  <2>2. e \in [1..n -> 1..n] /\ \A i \in 1..n : e[i] = i /\ i \in Int /\ i + 0 = i
    OBVIOUS
  <2>3. DOMAIN p.branches = {e[b + 1] - 1 : b \in DOMAIN p.branches}
    <3>1. \A b \in DOMAIN p.branches : b \in Int /\ b + 1 \in 1..n
      BY <1>1 DEF n
    <3>2. \A b \in DOMAIN p.branches : e[b + 1] - 1 = b
      BY <2>2, <3>1
    <3> HIDE DEF e
    <3> QED BY <3>2
  <2>4. \A j \in 1..n : ~(\A i \in 1..n : e[i] # j)
    OBVIOUS
  <2>5. Led(p, p, 0, e)
    <3>1. \A b \in DOMAIN p.branches : b \in Int /\ b + 1 \in 1..n
      BY <1>1 DEF n
    <3>2. \A b \in DOMAIN p.branches : e[b + 1] - 1 = b
      BY <2>2, <3>1
    <3>3. ASSUME NEW l \in Used(p) PROVE LabelOf(p.labels, l) = Before(e, LabelOf(p.labels, l))
      <4>1. PICK M \in SUBSET Labels : p.labels \in [M -> Nat]
        BY DEF PassType, LabelMaps
      <4>2. LabelOf(p.labels, l) \in 0..n
        BY <1>1, <4>1 DEF LabelOf, n
      <4> HIDE DEF e
      <4> QED BY <1>1, <2>2, <4>2 DEF Before
    <3>4. ASSUME NEW i \in 0..n PROVE Gap(e, n, n, i) = 1
      <4>1. Before(e, i) = i
        BY <1>1, <2>2 DEF Before
      <4>2. (IF i = n THEN n + 1 ELSE e[i + 1]) = i + 1
        BY <1>1, <2>2
      <4> HIDE DEF e
      <4> QED BY <4>1, <4>2 DEF Gap
    <3> HIDE DEF e
    <3>5. n = Len(p.program)
      BY DEF n
    <3> QED BY <3>2, <3>3, <3>4, <3>5 DEF Led
  <2> HIDE DEF e
  <2>6. Spread(p, p, 0, e)
    <3>1. PICK d : d = Len(p.program) - Len(p.program)
      OBVIOUS
    <3>2. d = 0 /\ d \in Nat /\ n = Len(p.program)
      BY <1>1, <3>1 DEF n
    <3>3. \A i, j \in 1..n : i < j => e[i] < e[j]
      BY <2>2
    <3>4. \A i \in 1..n : p.program[e[i]] = p.program[i] /\ e[i] <= i + d /\ (i >= 0 => e[i] = i + d)
      BY <2>2, <3>2
    <3>5. \A l \in DOMAIN p.labels : p.labels[l] <= n + d
      BY <1>1, <3>2
    <3>6. n + d = n
      BY <1>1, <3>2
    <3> QED BY <2>2, <2>3, <2>4, <3>1, <3>2, <3>3, <3>4, <3>5, <3>6 DEF Spread
  <2>7. Headed(p, p, 0, e)
    <3>1. \A i \in 1..n : ~(i - 1 < 0)
      OBVIOUS
    <3>2. n = Len(p.program)
      BY DEF n
    <3> QED BY <2>4, <3>1, <3>2 DEF Headed
  <2> QED BY <1>10, <2>5, <2>6, <2>7
<1>12. ASSUME NEW k \in Nat, k \in T PROVE k + 1 \in T
  <2> SUFFICES ASSUME k + 1 <= n + 1
               PROVE  /\ upTo[k + 1] \in PassType
                      /\ \E e : /\ Spread(p, upTo[k + 1], k + 1, e) /\ Led(p, upTo[k + 1], k + 1, e)
                               /\ Headed(p, upTo[k + 1], k + 1, e)
    OBVIOUS
  <2>1. k \in 0..n /\ k + 1 \in 1..(n + 1) /\ (k + 1) - 1 = k /\ k <= n + 1
    BY <1>1
  <2>2. /\ upTo[k] \in PassType
        /\ \E e : Spread(p, upTo[k], k, e) /\ Led(p, upTo[k], k, e) /\ Headed(p, upTo[k], k, e)
    BY <1>12, <2>1
  <2>3. PICK e : Spread(p, upTo[k], k, e) /\ Led(p, upTo[k], k, e) /\ Headed(p, upTo[k], k, e)
    BY <2>2
  <2>4. upTo[k + 1] = InsertKey(upTo[k], p, k)
    BY <1>10, <2>1
  <2>5. k \in 0..Len(p.program)
    BY <2>1 DEF n
  <2> HIDE DEF T
  <2>6. Spread(p, InsertKey(upTo[k], p, k), k + 1, Places(p, k, e))
    BY <2>2, <2>3, <2>5, KeySpreads
  <2>7. Led(p, InsertKey(upTo[k], p, k), k + 1, Places(p, k, e))
    BY <2>2, <2>3, <2>5, KeyLeads
  <2>8. Len(upTo[k].program) >= Len(p.program)
    BY <1>1, <2>2, <2>3 DEF Spread, PassType
  <2>9. InsertKey(upTo[k], p, k) \in PassType
    BY <2>2, <2>5, <2>8, KeyTyped
  <2>10. Headed(p, InsertKey(upTo[k], p, k), k + 1, Places(p, k, e))
    BY <2>2, <2>3, <2>5, KeyHeads
  <2> QED BY <2>4, <2>6, <2>7, <2>9, <2>10
<1>13. Nat \subseteq T
  <2> HIDE DEF T
  <2> QED BY <1>11, <1>12, InductionBySet
<1>14. n + 1 \in T
  <2> HIDE DEF T
  <2> QED BY <1>1, <1>13
<1>15. /\ upTo[n + 1] \in PassType
       /\ \E e : /\ Spread(p, upTo[n + 1], n + 1, e) /\ Led(p, upTo[n + 1], n + 1, e)
                /\ Headed(p, upTo[n + 1], n + 1, e)
  BY <1>1, <1>14
<1> QED BY <1>3, <1>15 DEF n

-----------------------------------------------------------------------------
(* Where the words are after the passes *)

\* The numbers of s are those of e.
FoundAt(s, n, e) == Len(s) = n /\ \A i \in 1..n : s[i] = e[i]

\* If e has where the words that are no INFO are, Kept finds them there.
LEMMA KeptAreSpread ==
  ASSUME NEW words, NEW n \in Nat, NEW m \in Nat, Len(words) = m,
         NEW e \in [1..n -> 1..m], \A i, j \in 1..n : i < j => e[i] < e[j],
         \A i \in 1..n : ~IsInfo(words[e[i]]),
         \A j \in 1..m : (\A i \in 1..n : e[i] # j) => IsInfo(words[j])
  PROVE  FoundAt(Kept(words), n, e)
<1> DEFINE Next1(s, k) == IF IsInfo(words[k]) THEN s ELSE Append(s, k)
           Is(f) == f = [k \in 0..m |-> IF k = 0 THEN <<>> ELSE Next1(f[k - 1], k)]
           upTo  == CHOOSE f : Is(f)
           step  == [k \in 1..m |-> [s \in Seq(Nat) |-> Next1(s, k)]]
<1>1. Kept(words) = upTo[m]
  BY DEF Kept
<1>2. <<>> \in Seq(Nat)
  OBVIOUS
<1>3. step \in [1..m -> [Seq(Nat) -> Seq(Nat)]]
  <2>1. \A k \in 1..m, s \in Seq(Nat) : Next1(s, k) \in Seq(Nat)
    BY AppendProperties
  <2> HIDE DEF Next1
  <2> QED BY <2>1
<1> HIDE DEF step
<1>4. PICK S, base : S = Seq(Nat) /\ base = <<>>
  OBVIOUS
<1>5. Iterations(S, m, base, step) # {}
  <2>1. base \in S /\ step \in [1..m -> [S -> S]]
    BY <1>2, <1>3, <1>4
  <2> QED BY <2>1, Iterates
<1>6. PICK f \in Iterations(S, m, base, step) : TRUE
  BY <1>5, Zenon
<1>7. f \in [0..m -> S] /\ f[0] = base /\ \A k \in 1..m : f[k] = step[k][f[k - 1]]
  BY Zenon DEF Iterations
<1>8. ASSUME NEW k \in 1..m PROVE f[k] = Next1(f[k - 1], k)
  <2>1. k - 1 \in 0..m
    OBVIOUS
  <2>2. f[k - 1] \in Seq(Nat)
    BY <1>7, <1>4, <2>1
  <2> HIDE DEF Next1
  <2> QED BY <1>7, <2>2 DEF step
<1>9. Is(f)
  <2> HIDE DEF Next1
  <2> QED BY <1>4, <1>7, <1>8
<1>10. Is(upTo)
  <2> HIDE DEF Is
  <2> QED BY <1>9
<1>11. upTo[0] = <<>> /\ \A k \in 1..m : upTo[k] = Next1(upTo[k - 1], k)
  <2> HIDE DEF upTo, Next1
  <2> QED BY <1>10
<1> HIDE DEF upTo
<1> DEFINE Shows(s, k, c) == /\ s \in Seq(Nat) /\ Len(s) = c
                             /\ \A i \in 1..n : e[i] <= k <=> i <= c
                             /\ \A i \in 1..c : s[i] = e[i]
           T == {k \in Nat : k <= m => \E c \in 0..n : Shows(upTo[k], k, c)}
<1>12. 0 \in T
  <2>1. \A i \in 1..n : ~(e[i] <= 0) /\ ~(i <= 0)
    OBVIOUS
  <2>2. Shows(<<>>, 0, 0)
    BY <2>1
  <2> HIDE DEF Shows
  <2>3. 0 \in 0..n
    OBVIOUS
  <2> QED BY <1>11, <2>2, <2>3
<1>13. ASSUME NEW k \in Nat, k \in T PROVE k + 1 \in T
  <2> SUFFICES ASSUME k + 1 <= m PROVE \E c \in 0..n : Shows(upTo[k + 1], k + 1, c)
    BY DEF T
  <2>1. k + 1 \in 1..m /\ (k + 1) - 1 = k /\ k <= m
    OBVIOUS
  <2>2. PICK c \in 0..n : Shows(upTo[k], k, c)
    BY <1>13, <2>1
  <2>3. PICK s, t : s = upTo[k] /\ t = upTo[k + 1]
    OBVIOUS
  <2>4. t = Next1(s, k + 1)
    BY <1>11, <2>1, <2>3
  <2>5. /\ s \in Seq(Nat) /\ Len(s) = c /\ \A i \in 1..n : e[i] <= k <=> i <= c
        /\ \A i \in 1..c : s[i] = e[i]
    BY <2>2, <2>3
  <2>6. CASE IsInfo(words[k + 1])
    <3>1. t = s
      BY <2>4, <2>6
    <3>2. \A i \in 1..n : e[i] # k + 1
      BY <2>6
    <3>3. \A i \in 1..n : e[i] <= k + 1 <=> e[i] <= k
      BY <3>2
    <3>4. Shows(t, k + 1, c)
      BY <2>5, <3>1, <3>3
    <3> QED BY <2>3, <3>4
  <2>7. CASE ~IsInfo(words[k + 1])
    <3>1. t = Append(s, k + 1)
      BY <2>4, <2>7
    <3>2. PICK x \in 1..n : e[x] = k + 1
      BY <2>1, <2>7
    <3>3. x = c + 1
      <4>1. ~(x <= c)
        BY <2>5, <3>2
      <4>2. ASSUME c + 1 < x PROVE FALSE
        <5>1. c + 1 \in 1..n
          BY <4>2
        <5>2. e[c + 1] < e[x]
          BY <4>2, <5>1
        <5>3. e[c + 1] <= k
          BY <3>2, <5>1, <5>2
        <5> QED BY <2>5, <5>1, <5>3
      <4> QED BY <4>1, <4>2
    <3>4. ASSUME NEW i \in 1..n PROVE e[i] <= k + 1 <=> i <= c + 1
      <4>1. CASE i < x
        <5>1. e[i] < e[x]
          BY <4>1
        <5> QED BY <3>2, <3>3, <4>1, <5>1
      <4>2. CASE i = x
        BY <3>2, <3>3, <4>2
      <4>3. CASE i > x
        <5>1. e[x] < e[i]
          BY <4>3
        <5> QED BY <3>2, <3>3, <4>3, <5>1
      <4> QED BY <4>1, <4>2, <4>3
    <3>5. /\ t \in Seq(Nat) /\ Len(t) = c + 1 /\ t[c + 1] = k + 1
          /\ \A i \in 1..c : t[i] = s[i]
      <4>1. Len(s) = c /\ c \in Nat /\ k + 1 \in Nat
        BY <2>5
      <4>2. t \in Seq(Nat) /\ Len(t) = Len(s) + 1 /\ t[Len(s) + 1] = k + 1
        BY <2>5, <3>1, <4>1, AppendProperties
      <4>3. \A i \in 1..Len(s) : t[i] = s[i]
        BY <2>5, <3>1, <4>1, AppendProperties
      <4> QED BY <4>1, <4>2, <4>3
    <3>6. ASSUME NEW i \in 1..(c + 1) PROVE t[i] = e[i]
      <4>1. CASE i = c + 1
        BY <3>2, <3>3, <3>5, <4>1
      <4>2. CASE i # c + 1
        <5>1. i \in 1..c
          BY <4>2
        <5> QED BY <2>5, <3>5, <5>1
      <4> QED BY <4>1, <4>2
    <3>7. Shows(t, k + 1, c + 1) /\ c + 1 \in 0..n
      BY <3>3, <3>4, <3>5, <3>6
    <3> HIDE DEF Shows
    <3> QED BY <2>3, <3>7
  <2> QED BY <2>6, <2>7
<1>14. Nat \subseteq T
  <2> HIDE DEF T
  <2> QED BY <1>12, <1>13, InductionBySet
<1>15. PICK c \in 0..n : Shows(upTo[m], m, c)
  BY <1>14
<1>16. c = n
  <2>1. \A i \in 1..n : i <= c
    BY <1>15
  <2> QED BY <2>1
<1> QED BY <1>1, <1>15, <1>16 DEF FoundAt

\* The words that are no INFO are at e, and Kept finds them.
StandAt(words, n, m, e) ==
  /\ n \in Nat /\ m \in Nat /\ Len(words) = m
  /\ e \in [1..n -> 1..m] /\ \A i, j \in 1..n : i < j => e[i] < e[j]
  /\ \A i \in 1..n : ~IsInfo(words[e[i]])
  /\ \A j \in 1..m : (\A i \in 1..n : e[i] # j) => IsInfo(words[j])
  /\ FoundAt(Kept(words), n, e)

\* The words that were added, as many as spc says, are in p.
Whole(p, added) ==
  p.spc = Len(added) /\ \E e : StandAt(p.program, Len(added), Len(p.program), e)

\* So the INFO words are what a program has more than spc.
LEMMA InfosBeyond ==
  ASSUME NEW words, NEW n, NEW m, NEW e, StandAt(words, n, m, e)
  PROVE  m - Cardinality({k \in 1..Len(words) : IsInfo(words[k])}) = n
<1>1. /\ n \in Nat /\ m \in Nat /\ Len(words) = m
      /\ e \in [1..n -> 1..m] /\ \A i, j \in 1..n : i < j => e[i] < e[j]
      /\ \A i \in 1..n : ~IsInfo(words[e[i]])
      /\ \A j \in 1..m : (\A i \in 1..n : e[i] # j) => IsInfo(words[j])
  BY DEF StandAt
<1> DEFINE R     == {e[i] : i \in 1..n}
           infos == {k \in 1..m : IsInfo(words[k])}
           all   == 1..m
<1>2. infos = all \ R /\ all \cap R = R
  BY <1>1
<1>3. ExistsBijection(1..n, R)
  <2>1. e \in [1..n -> R]
    BY <1>1
  <2>2. \A i, j \in 1..n : e[i] = e[j] => i = j
    <3> SUFFICES ASSUME NEW i \in 1..n, NEW j \in 1..n, e[i] = e[j] PROVE i = j
      OBVIOUS
    <3>1. e[i] \in 1..m /\ e[j] \in 1..m
      BY <1>1
    <3>2. ~(i < j) /\ ~(j < i)
      BY <1>1, <3>1
    <3> QED BY <1>1, <3>2
  <2>3. \A x \in R : \E i \in 1..n : e[i] = x
    OBVIOUS
  <2> HIDE DEF R
  <2>4. e \in Bijection(1..n, R)
    BY <2>1, <2>2, <2>3 DEF Bijection, Injection, Surjection, IsInjective
  <2> QED BY <2>4 DEF ExistsBijection
<1> HIDE DEF R
<1>4. Cardinality(R) = n
  BY <1>1, <1>3, FS_CountingElements
<1>5. IsFiniteSet(all) /\ Cardinality(all) = m
  <2>1. 1 \in Int /\ m \in Int
    BY <1>1
  <2>2. IsFiniteSet(1..m) /\ Cardinality(1..m) = IF 1 > m THEN 0 ELSE m - 1 + 1
    BY <2>1, FS_Interval
  <2>3. (IF 1 > m THEN 0 ELSE m - 1 + 1) = m
    BY <1>1
  <2> QED BY <2>2, <2>3
<1> HIDE DEF all
<1>6. Cardinality(all \ R) = Cardinality(all) - Cardinality(all \cap R)
  BY <1>5, FS_Difference
<1>7. Cardinality(infos) = m - n
  BY <1>2, <1>4, <1>5, <1>6
<1> HIDE DEF infos
<1>8. m - Cardinality(infos) = n
  BY <1>1, <1>7
<1> QED BY <1>1, <1>8 DEF infos

\* A label that is behind the first i words is before the next one, or before its INFO.
LEMMA LabelSits ==
  ASSUME NEW words, NEW n, NEW m, NEW e, StandAt(words, n, m, e), NEW added, Len(added) = n,
         NEW l \in 0..n, Gap(e, n, m, l) \in {1, 2}
  PROVE  LabelAt(words, added, l + 1) - 1 = Before(e, l)
<1>0. /\ n \in Nat /\ m \in Nat /\ Len(words) = m
      /\ e \in [1..n -> 1..m] /\ \A i, j \in 1..n : i < j => e[i] < e[j]
      /\ \A i \in 1..n : ~IsInfo(words[e[i]])
      /\ \A j \in 1..m : (\A i \in 1..n : e[i] # j) => IsInfo(words[j])
      /\ FoundAt(Kept(words), n, e)
  BY DEF StandAt
<1>1. PICK at, x : at = (IF l = n THEN m + 1 ELSE e[l + 1]) /\ x = Before(e, l)
  OBVIOUS
<1>2. /\ l < n => l + 1 \in 1..n /\ at = e[l + 1] /\ at \in 1..m
      /\ l = n => at = m + 1
  BY <1>0, <1>1
<1>3. /\ l = 0 => x = 0
      /\ l > 0 => l \in 1..n /\ x = e[l] /\ x \in 1..m
  BY <1>0, <1>1 DEF Before
<1>4. at \in Nat /\ x \in Nat /\ (at - x = 1 \/ at - x = 2)
  <2>1. Gap(e, n, m, l) = at - x
    BY <1>1 DEF Gap
  <2>2. l < n \/ l = n
    BY <1>0
  <2>3. l = 0 \/ l > 0
    BY <1>0
  <2> QED BY <1>0, <1>2, <1>3, <2>1, <2>2, <2>3
<1>5. LabelAt(words, added, l + 1) = IF at > 1 /\ IsInfo(words[at - 1]) THEN at - 1 ELSE at
  <2>1. (IF l + 1 > Len(added) THEN Len(words) + 1 ELSE Kept(words)[l + 1]) = at
    <3>1. CASE l = n
      BY <1>0, <1>2, <3>1
    <3>2. CASE l < n
      BY <1>0, <1>2, <3>2 DEF FoundAt
    <3> QED BY <1>0, <3>1, <3>2
  <2> QED BY <2>1 DEF LabelAt
<1>6. CASE at - x = 1
  <2>1. CASE l = 0
    <3>1. at = 1
      BY <1>3, <1>4, <1>6, <2>1
    <3> QED BY <1>1, <1>3, <1>5, <2>1, <3>1
  <2>2. CASE l > 0
    <3>1. at - 1 = x /\ at = x + 1
      BY <1>4, <1>6
    <3>2. ~IsInfo(words[x])
      BY <1>0, <1>3, <2>2
    <3> QED BY <1>1, <1>4, <1>5, <3>1, <3>2
  <2> QED BY <1>0, <2>1, <2>2
<1>7. CASE at - x = 2
  <2>1. at - 1 = x + 1 /\ at > 1
    BY <1>4, <1>7
  <2>2. x + 1 \in 1..m
    BY <1>0, <1>2, <1>4, <1>7
  <2>3. ASSUME NEW i \in 1..n PROVE e[i] # x + 1
    <3>1. e[i] \in 1..m
      BY <1>0
    <3>2. CASE i <= l
      <4>1. l > 0 /\ l \in 1..n
        BY <1>0, <3>2
      <4>2. e[i] <= e[l]
        <5>1. CASE i = l
          BY <3>1, <5>1
        <5>2. CASE i < l
          BY <1>0, <3>1, <4>1, <5>2
        <5> QED BY <1>0, <3>2, <5>1, <5>2
      <4> QED BY <1>3, <1>4, <3>1, <4>1, <4>2
    <3>3. CASE i > l
      <4>1. l < n /\ l + 1 \in 1..n
        BY <1>0, <3>3
      <4>2. e[l + 1] <= e[i]
        <5>1. CASE i = l + 1
          BY <3>1, <5>1
        <5>2. CASE l + 1 < i
          BY <1>0, <3>1, <4>1, <5>2
        <5> QED BY <1>0, <3>3, <5>1, <5>2
      <4> QED BY <1>2, <1>4, <1>7, <3>1, <4>1, <4>2
    <3> QED BY <1>0, <3>2, <3>3
  <2>4. IsInfo(words[x + 1])
    BY <1>0, <2>2, <2>3
  <2> QED BY <1>1, <1>4, <1>5, <2>1, <2>4
<1> QED BY <1>4, <1>6, <1>7

-----------------------------------------------------------------------------
(* The runs after the passes *)

\* new is old with words between its words that end every run, each before a word that starts one:
\* e has where the words of old are, and the runs are the same.
Stretched(old, new, n, m, e) ==
  /\ n \in Nat /\ m \in Nat /\ Len(old) = n /\ Len(new) = m
  /\ e \in [1..n -> 1..m] /\ \A i, j \in 1..n : i < j => e[i] < e[j]
  /\ \A i \in 1..n : /\ GoesOn(old[i]) => new[e[i]] = old[i]
                     /\ GoesOn(new[e[i]]) => new[e[i]] = old[i]
  /\ \A j \in 1..m : (\A i \in 1..n : e[i] # j)
       => /\ ~GoesOn(new[j])
          /\ \E i \in 1..n : e[i] = j + 1 /\ ~InRun(old, i - 1)

\* Nothing is put in within a run, nor right after it.
LEMMA RunsStayWhole ==
  ASSUME NEW old, NEW new, NEW n, NEW m, NEW e, Stretched(old, new, n, m, e)
  PROVE  /\ \A i \in 1..n : InRun(old, i) /\ i + 1 <= n => e[i + 1] = e[i] + 1
         /\ \A i, x \in 1..n : i <= x /\ is_ddr(old[i]) /\ (\A k \in i..x : GoesOn(old[k]))
              => \A k \in i..x : e[k] = e[i] + (k - i) /\ new[e[k]] = old[k]
<1>1. /\ n \in Nat /\ m \in Nat /\ e \in [1..n -> 1..m] /\ \A i, j \in 1..n : i < j => e[i] < e[j]
      /\ \A i \in 1..n : GoesOn(old[i]) => new[e[i]] = old[i]
      /\ \A j \in 1..m : (\A i \in 1..n : e[i] # j) => \E i \in 1..n : e[i] = j + 1 /\ ~InRun(old, i - 1)
  BY DEF Stretched
<1>2. ASSUME NEW i \in 1..n, InRun(old, i), i + 1 <= n PROVE e[i + 1] = e[i] + 1
  <2> SUFFICES ASSUME e[i + 1] # e[i] + 1 PROVE FALSE
    OBVIOUS
  <2>1. i + 1 \in 1..n /\ (i + 1) - 1 = i
    BY <1>1, <1>2
  <2>2. PICK x, y : x = e[i] /\ y = e[i + 1]
    OBVIOUS
  <2>3. x \in 1..m /\ y \in 1..m /\ x < y /\ y # x + 1
    BY <1>1, <2>1, <2>2
  <2>4. y - 1 \in 1..m /\ x < y - 1 /\ (y - 1) + 1 = y
    BY <1>1, <2>3
  <2>5. ASSUME NEW j \in 1..n PROVE e[j] # y - 1
    <3>1. e[j] \in 1..m
      BY <1>1
    <3>2. CASE j <= i
      <4>1. e[j] <= x
        BY <1>1, <2>2, <3>1, <3>2
      <4> QED BY <2>3, <2>4, <3>1, <4>1
    <3>3. CASE j >= i + 1
      <4>1. j = i + 1 \/ i + 1 < j
        BY <3>3
      <4>2. e[j] >= y
        BY <1>1, <2>1, <2>2, <2>3, <3>1, <4>1
      <4> QED BY <2>3, <2>4, <3>1, <4>2
    <3> QED BY <3>2, <3>3
  <2>6. PICK j \in 1..n : e[j] = y /\ ~InRun(old, j - 1)
    BY <1>1, <2>4, <2>5
  <2>7. j = i + 1
    <3>1. ~(j < i + 1) /\ ~(i + 1 < j)
      BY <1>1, <2>1, <2>2, <2>3, <2>6
    <3> QED BY <3>1
  <2> QED BY <1>2, <2>1, <2>6, <2>7
<1>3. ASSUME NEW i \in 1..n, NEW x \in 1..n, i <= x, is_ddr(old[i]), \A k \in i..x : GoesOn(old[k])
      PROVE  \A k \in i..x : e[k] = e[i] + (k - i) /\ new[e[k]] = old[k]
  <2> DEFINE T == {d \in Nat : i + d <= x => e[i + d] = e[i] + d}
  <2>0. e[i] \in Nat /\ i \in Nat /\ i >= 1 /\ x \in Nat /\ x <= n /\ n \in Nat
    BY <1>1
  <2>1. 0 \in T
    BY <2>0
  <2>2. ASSUME NEW d \in Nat, d \in T PROVE d + 1 \in T
    <3> SUFFICES ASSUME i + (d + 1) <= x PROVE e[i + (d + 1)] = e[i] + (d + 1)
      OBVIOUS
    <3>1. e[i + d] = e[i] + d
      BY <2>0, <2>2
    <3>2. i + d \in 1..n /\ (i + d) + 1 = i + (d + 1) /\ (i + d) + 1 <= n
      BY <2>0
    <3>3. InRun(old, i + d)
      <4>1. i \in 1..(i + d) /\ \A k \in i..(i + d) : k \in i..x
        BY <2>0
      <4> QED BY <1>3, <4>1 DEF InRun
    <3>4. e[(i + d) + 1] = e[i + d] + 1
      BY <1>2, <3>2, <3>3
    <3> QED BY <2>0, <3>1, <3>2, <3>4
  <2> HIDE DEF T
  <2>3. Nat \subseteq T
    BY <2>1, <2>2, InductionBySet
  <2>4. ASSUME NEW k \in i..x PROVE e[k] = e[i] + (k - i) /\ new[e[k]] = old[k]
    <3>1. k - i \in Nat /\ i + (k - i) = k /\ k <= x /\ k \in 1..n
      BY <2>0
    <3>2. k - i \in T
      BY <2>3, <3>1
    <3>3. e[k] = e[i] + (k - i)
      BY <3>1, <3>2 DEF T
    <3> QED BY <1>1, <1>3, <3>1, <3>3
  <2> QED BY <2>4
<1> QED BY <1>2, <1>3

\* A word is in a run where it is now if it was in one.
LEMMA InRunStays ==
  ASSUME NEW old, NEW new, NEW n, NEW m, NEW e, Stretched(old, new, n, m, e), NEW i \in 1..n
  PROVE  /\ InRun(new, e[i]) <=> InRun(old, i)
         /\ InRun(new, e[i] - 1) <=> InRun(old, i - 1)
<1>1. /\ n \in Nat /\ m \in Nat /\ e \in [1..n -> 1..m] /\ \A x, y \in 1..n : x < y => e[x] < e[y]
      /\ \A x \in 1..n : /\ GoesOn(old[x]) => new[e[x]] = old[x]
                         /\ GoesOn(new[e[x]]) => new[e[x]] = old[x]
      /\ \A j \in 1..m : (\A x \in 1..n : e[x] # j)
           => ~GoesOn(new[j]) /\ \E x \in 1..n : e[x] = j + 1 /\ ~InRun(old, x - 1)
  BY DEF Stretched
<1>2. ASSUME NEW x \in 1..n, InRun(new, e[x]) PROVE InRun(old, x)
  <2>1. PICK j \in 1..e[x] : is_ddr(new[j]) /\ \A k \in j..e[x] : GoesOn(new[k])
    BY <1>2 DEF InRun
  <2>2. e[x] \in 1..m /\ j \in 1..m
    BY <1>1
  <2>3. PICK y \in 1..n : e[y] = j
    <3>1. GoesOn(new[j])
      BY <2>1 DEF GoesOn
    <3> QED BY <1>1, <2>2, <3>1
  <2>4. y <= x
    BY <1>1, <2>1, <2>2, <2>3
  <2>5. is_ddr(old[y])
    <3>1. GoesOn(new[e[y]])
      BY <2>1, <2>3 DEF GoesOn
    <3> QED BY <1>1, <2>1, <2>3, <3>1
  <2>6. ASSUME NEW k \in y..x PROVE GoesOn(old[k])
    <3>1. k \in 1..n /\ e[k] \in 1..m
      BY <1>1
    <3>2. e[k] \in j..e[x]
      <4>1. (y = k \/ y < k) /\ (k = x \/ k < x)
        BY <1>1
      <4>2. e[y] <= e[k] /\ e[k] <= e[x]
        BY <1>1, <2>2, <2>3, <3>1, <4>1
      <4> QED BY <2>2, <2>3, <3>1, <4>2
    <3>3. GoesOn(new[e[k]])
      BY <2>1, <3>2
    <3> QED BY <1>1, <3>1, <3>3
  <2>7. y \in 1..x
    BY <2>4
  <2> QED BY <2>5, <2>6, <2>7 DEF InRun
<1>3. ASSUME NEW x \in 1..n, InRun(old, x) PROVE InRun(new, e[x])
  <2>1. PICK y \in 1..x : is_ddr(old[y]) /\ \A k \in y..x : GoesOn(old[k])
    BY <1>3 DEF InRun
  <2>2. y \in 1..n /\ y <= x
    BY <1>1
  <2>3. \A k \in y..x : e[k] = e[y] + (k - y) /\ new[e[k]] = old[k]
    BY <2>1, <2>2, RunsStayWhole
  <2>4. e[x] \in 1..m /\ e[y] \in 1..m /\ e[x] = e[y] + (x - y)
    BY <1>1, <2>2, <2>3
  <2>5. is_ddr(new[e[y]])
    <3>1. y \in y..x
      BY <2>2
    <3> QED BY <2>1, <2>3, <3>1
  <2>6. ASSUME NEW j \in e[y]..e[x] PROVE GoesOn(new[j])
    <3>1. PICK k : k = y + (j - e[y])
      OBVIOUS
    <3>2. k \in y..x /\ e[y] + (k - y) = j
      BY <2>2, <2>4, <3>1
    <3>3. e[k] = j /\ new[j] = old[k]
      BY <2>3, <3>2
    <3> QED BY <2>1, <3>2, <3>3
  <2>7. e[y] \in 1..e[x]
    BY <2>2, <2>4
  <2> QED BY <2>5, <2>6, <2>7 DEF InRun
<1>4. InRun(new, e[i] - 1) <=> InRun(old, i - 1)
  <2>0. e[i] \in 1..m /\ i \in Nat
    BY <1>1
  <2>1. CASE \E x \in 1..n : e[x] = e[i] - 1
    <3>1. PICK x \in 1..n : e[x] = e[i] - 1
      BY <2>1
    <3>2. x = i - 1
      <4>1. x < i
        BY <1>1, <2>0, <3>1
      <4>2. ASSUME x < i - 1 PROVE FALSE
        <5>1. i - 1 \in 1..n /\ e[i - 1] \in 1..m
          BY <1>1, <4>2
        <5>2. e[x] < e[i - 1] /\ e[i - 1] < e[i]
          BY <1>1, <4>2, <5>1
        <5> QED BY <1>1, <2>0, <3>1, <5>1, <5>2
      <4> QED BY <4>1, <4>2
    <3> QED BY <1>2, <1>3, <3>1, <3>2
  <2>2. CASE \A x \in 1..n : e[x] # e[i] - 1
    <3>1. CASE e[i] = 1
      <4>1. i = 1
        <5>1. ASSUME i # 1 PROVE FALSE
          <6>1. 1 \in 1..n /\ 1 < i
            BY <1>1, <5>1
          <6>2. e[1] < e[i] /\ e[1] \in 1..m
            BY <1>1, <6>1
          <6> QED BY <1>1, <3>1, <6>2
        <5> QED BY <5>1
      <4>2. e[i] - 1 = 0 /\ i - 1 = 0
        BY <3>1, <4>1
      <4>3. ~InRun(new, 0) /\ ~InRun(old, 0)
        BY RunNext
      <4> QED BY <4>2, <4>3
    <3>2. CASE e[i] # 1
      <4>1. e[i] - 1 \in 1..m /\ e[i] - 1 \in Nat /\ (e[i] - 1) + 1 = e[i]
        BY <1>1, <2>0, <3>2
      <4>2. ~InRun(new, e[i] - 1)
        <5>1. ~GoesOn(new[e[i] - 1])
          BY <1>1, <2>2, <4>1
        <5> QED BY <4>1, <5>1, RunNext
      <4>3. PICK x \in 1..n : e[x] = e[i] /\ ~InRun(old, x - 1)
        BY <1>1, <2>2, <4>1
      <4>4. x = i
        <5>1. ~(x < i) /\ ~(i < x)
          BY <1>1, <2>0, <4>3
        <5> QED BY <5>1
      <4> QED BY <4>2, <4>3, <4>4
    <3> QED BY <3>1, <3>2
  <2> QED BY <2>1, <2>2
<1> QED BY <1>2, <1>3, <1>4

\* A run moves with its words, its reads are the same, and there are no other runs.
LEMMA RunsMove ==
  ASSUME NEW old, NEW new, NEW n, NEW m, NEW e, Stretched(old, new, n, m, e)
  PROVE  /\ \A s, t \in 1..n : IsRun(old, n, s, t)
              => /\ IsRun(new, m, e[s], e[t])
                 /\ Reads(new, <<e[s], e[t]>>) = Reads(old, <<s, t>>)
         /\ \A x, y \in 1..m : IsRun(new, m, x, y)
              => \E s, t \in 1..n : x = e[s] /\ y = e[t] /\ IsRun(old, n, s, t)
<1>1. /\ n \in Nat /\ m \in Nat /\ e \in [1..n -> 1..m] /\ \A x, y \in 1..n : x < y => e[x] < e[y]
      /\ \A x \in 1..n : /\ GoesOn(old[x]) => new[e[x]] = old[x]
                         /\ GoesOn(new[e[x]]) => new[e[x]] = old[x]
      /\ \A j \in 1..m : (\A x \in 1..n : e[x] # j)
           => ~GoesOn(new[j]) /\ \E x \in 1..n : e[x] = j + 1 /\ ~InRun(old, x - 1)
  BY DEF Stretched
<1>2. ASSUME NEW s \in 1..n, NEW t \in 1..n, IsRun(old, n, s, t)
      PROVE  IsRun(new, m, e[s], e[t]) /\ Reads(new, <<e[s], e[t]>>) = Reads(old, <<s, t>>)
  <2>1. /\ s \in Nat /\ t \in Nat /\ 1 <= s /\ s <= t /\ t < n /\ is_ddr(old[s]) /\ ~InRun(old, s - 1)
        /\ (\A k \in s..t : GoesOn(old[k])) /\ ~GoesOn(old[t + 1])
    BY <1>2 DEF IsRun, Starts
  <2>2. \A k \in s..t : e[k] = e[s] + (k - s) /\ new[e[k]] = old[k]
    BY <2>1, RunsStayWhole
  <2>3. /\ e[s] \in 1..m /\ e[t] \in 1..m /\ e[t] = e[s] + (t - s) /\ e[s] <= e[t]
    <3>1. e[s] \in 1..m /\ e[t] \in 1..m /\ t \in s..t
      BY <1>1, <2>1
    <3>2. e[t] = e[s] + (t - s)
      BY <2>2, <3>1
    <3> QED BY <2>1, <3>1, <3>2
  <2>4. is_ddr(new[e[s]]) /\ ~InRun(new, e[s] - 1)
    <3>1. s \in s..t
      BY <2>1
    <3>2. new[e[s]] = old[s]
      BY <2>2, <3>1
    <3>3. ~InRun(new, e[s] - 1)
      BY <2>1, InRunStays
    <3> QED BY <2>1, <3>2, <3>3
  <2>5. ASSUME NEW j \in e[s]..e[t] PROVE GoesOn(new[j])
    <3>1. PICK k : k = s + (j - e[s])
      OBVIOUS
    <3>2. k \in s..t /\ e[s] + (k - s) = j
      BY <2>1, <2>3, <3>1
    <3>3. e[k] = j /\ new[j] = old[k]
      BY <2>2, <3>2
    <3> QED BY <2>1, <3>2, <3>3
  <2>6. t + 1 \in 1..n /\ e[t + 1] = e[t] + 1 /\ e[t + 1] \in 1..m
    <3>1. t + 1 \in 1..n /\ t + 1 <= n
      BY <1>1, <2>1
    <3>2. InRun(old, t)
      <4>1. s \in 1..t
        BY <2>1
      <4> QED BY <2>1, <4>1 DEF InRun
    <3>3. e[t + 1] = e[t] + 1
      BY <3>1, <3>2, RunsStayWhole
    <3> QED BY <1>1, <3>1, <3>3
  <2>7. ~GoesOn(new[e[t] + 1]) /\ e[t] < m
    BY <1>1, <2>1, <2>3, <2>6
  <2>8. IsRun(new, m, e[s], e[t])
    BY <2>3, <2>4, <2>5, <2>7 DEF IsRun, Starts
  <2>9. Reads(new, <<e[s], e[t]>>) = Reads(old, <<s, t>>)
    <3>1. PICK k, x, y : k = t - s + 1 /\ x = e[s] /\ y = e[t]
      OBVIOUS
    <3>2. k \in Nat /\ x \in Nat /\ y \in Nat /\ t = s + k - 1 /\ y = x + k - 1
      BY <2>1, <2>3, <3>1
    <3>3. \A j \in 1..k : new[x + j - 1] = old[s + j - 1]
      <4> TAKE j \in 1..k
      <4>1. s + j - 1 \in s..t /\ e[s] + ((s + j - 1) - s) = x + j - 1
        BY <2>1, <3>1, <3>2
      <4> QED BY <2>2, <4>1
    <3>4. SameWords(new, x, old, s, k)
      BY <3>3 DEF SameWords
    <3>5. Reads(new, <<x, y>>) = Reads(old, <<s, t>>)
      BY <2>1, <3>2, <3>4, ReadsMove
    <3> QED BY <3>1, <3>5
  <2> QED BY <2>8, <2>9
<1>3. ASSUME NEW x \in 1..m, NEW y \in 1..m, IsRun(new, m, x, y)
      PROVE  \E s, t \in 1..n : x = e[s] /\ y = e[t] /\ IsRun(old, n, s, t)
  <2>1. /\ x \in Nat /\ y \in Nat /\ 1 <= x /\ x <= y /\ y < m /\ is_ddr(new[x]) /\ ~InRun(new, x - 1)
        /\ (\A k \in x..y : GoesOn(new[k])) /\ ~GoesOn(new[y + 1])
    BY <1>3 DEF IsRun, Starts
  <2>2. \A j \in x..y : \E s \in 1..n : e[s] = j
    BY <1>1, <2>1
  <2>3. PICK s \in 1..n : e[s] = x
    BY <2>1, <2>2
  <2>4. PICK t \in 1..n : e[t] = y
    BY <2>1, <2>2
  <2>5. s <= t
    BY <1>1, <2>1, <2>3, <2>4
  <2>6. ASSUME NEW k \in s..t PROVE GoesOn(old[k]) /\ new[e[k]] = old[k]
    <3>1. k \in 1..n /\ e[k] \in 1..m /\ s <= k /\ k <= t
      BY <1>1
    <3>2. e[s] <= e[k] /\ e[k] <= e[t]
      BY <1>1, <2>1, <2>3, <2>4, <3>1
    <3>3. e[k] \in x..y
      BY <2>3, <2>4, <3>1, <3>2
    <3>4. GoesOn(new[e[k]])
      BY <2>1, <3>3
    <3> QED BY <1>1, <3>1, <3>4
  <2>7. is_ddr(old[s]) /\ ~InRun(old, s - 1)
    <3>1. s \in s..t
      BY <2>5
    <3>2. new[x] = old[s]
      BY <2>3, <2>6, <3>1
    <3>3. ~InRun(old, s - 1)
      BY <2>1, <2>3, InRunStays
    <3> QED BY <2>1, <3>2, <3>3
  <2>8. InRun(old, t)
    <3>1. s \in 1..t
      BY <2>5
    <3> QED BY <2>6, <2>7, <3>1 DEF InRun
  <2>9. t < n
    <3> SUFFICES ASSUME t = n PROVE FALSE
      BY <1>1
    <3>1. y + 1 \in 1..m
      BY <1>1, <2>1
    <3>2. \A k \in 1..n : e[k] <= y
      BY <1>1, <2>1, <2>4
    <3>3. \A k \in 1..n : e[k] # y + 1 /\ e[k] # (y + 1) + 1
      <4> SUFFICES ASSUME NEW k \in 1..n PROVE e[k] # y + 1 /\ e[k] # (y + 1) + 1
        OBVIOUS
      <4>1. e[k] \in 1..m /\ e[k] <= y
        BY <1>1, <3>2
      <4> QED BY <2>1, <4>1
    <3> QED BY <1>1, <3>1, <3>3
  <2>10. ~GoesOn(old[t + 1])
    <3>1. t + 1 <= n /\ t + 1 \in 1..n
      BY <1>1, <2>9
    <3>2. e[t + 1] = y + 1
      BY <2>4, <2>8, <3>1, RunsStayWhole
    <3>3. ~GoesOn(new[e[t + 1]])
      BY <2>1, <3>2
    <3> QED BY <1>1, <3>1, <3>3
  <2>11. IsRun(old, n, s, t)
    BY <2>5, <2>6, <2>7, <2>9, <2>10 DEF IsRun, Starts
  <2> QED BY <2>3, <2>4, <2>11
<1> QED BY <1>2, <1>3

\* Runs has the runs that another word ends.
LEMMA RunsAreRuns ==
  ASSUME NEW words, Len(words) \in Nat
  PROVE  /\ \A r \in Runs(words) : /\ r = <<r[1], r[2]>> /\ r[1] \in 1..Len(words) /\ r[2] \in 1..Len(words)
                                   /\ IsRun(words, Len(words), r[1], r[2])
         /\ \A s, t : IsRun(words, Len(words), s, t) => <<s, t>> \in Runs(words)
<1>1. ASSUME NEW r \in Runs(words)
      PROVE  /\ r = <<r[1], r[2]>> /\ r[1] \in 1..Len(words) /\ r[2] \in 1..Len(words)
             /\ IsRun(words, Len(words), r[1], r[2])
  <2>1. /\ r = <<r[1], r[2]>> /\ r[1] \in 1..Len(words) /\ r[2] \in 1..Len(words)
        /\ r[1] <= r[2] /\ r[2] < Len(words)
        /\ is_ddr(words[r[1]]) /\ ~InRun(words, r[1] - 1)
        /\ \A k \in r[1]..r[2] : GoesOn(words[k])
        /\ ~GoesOn(words[r[2] + 1])
    BY DEF Runs
  <2> QED BY <2>1 DEF IsRun, Starts
<1>2. ASSUME NEW s, NEW t, IsRun(words, Len(words), s, t) PROVE <<s, t>> \in Runs(words)
  <2>1. /\ s \in Nat /\ t \in Nat /\ 1 <= s /\ s <= t /\ t < Len(words)
        /\ is_ddr(words[s]) /\ ~InRun(words, s - 1)
        /\ (\A k \in s..t : GoesOn(words[k])) /\ ~GoesOn(words[t + 1])
    BY <1>2 DEF IsRun, Starts
  <2>2. s \in 1..Len(words) /\ t \in 1..Len(words)
    BY <2>1
  <2>3. PICK r : r = <<s, t>>
    OBVIOUS
  <2>4. r \in (1..Len(words)) \X (1..Len(words)) /\ r[1] = s /\ r[2] = t
    BY <2>2, <2>3
  <2>5. r \in Runs(words)
    BY <2>1, <2>4 DEF Runs
  <2> QED BY <2>3, <2>5
<1> QED BY <1>1, <1>2

\* What InfoAccurate says of a program.
Accurate(words) ==
  LET Announced == {r \in Runs(words) : Reads(words, r) \in 1..MaxInfoReads}
  IN  /\ {k \in 1..Len(words) : IsInfo(words[k])} = {r[1] - 1 : r \in Announced}
      /\ \A r \in Announced : words[r[1] - 1] = SMC_INFO(Reads(words, r))

\* The INFO words of words are the warnings, each before the word with its key.
HeadedBy(words, n, m, e, warnings) ==
  /\ \A i \in 1..n : ~IsInfo(words[e[i]])
  /\ \A j \in 1..m : (\A i \in 1..n : e[i] # j)
       => \E i \in 1..n : i - 1 \in DOMAIN warnings /\ e[i] = j + 1
  /\ \A i \in 1..n : i - 1 \in DOMAIN warnings
       => e[i] > 1 /\ words[e[i] - 1] = warnings[i - 1] /\ IsInfo(words[e[i] - 1])

\* Words that were stretched by the warnings of their runs announce the runs they have now.
LEMMA StretchedTell ==
  ASSUME NEW old, NEW new, NEW n, NEW m, NEW e, Stretched(old, new, n, m, e),
         NEW warnings, Told(old, n, warnings), HeadedBy(new, n, m, e, warnings)
  PROVE  Accurate(new)
<1>1. n \in Nat /\ m \in Nat /\ Len(new) = m /\ e \in [1..n -> 1..m]
  BY DEF Stretched
<1>2. /\ \A key \in DOMAIN warnings :
           \E s, t \in Nat : IsRun(old, n, s, t) /\ Reads(old, <<s, t>>) \in 1..MaxInfoReads /\ key = s - 1
      /\ \A s, t \in Nat : IsRun(old, n, s, t) /\ Reads(old, <<s, t>>) \in 1..MaxInfoReads
           => s - 1 \in DOMAIN warnings /\ warnings[s - 1] = SMC_INFO(Reads(old, <<s, t>>))
  BY DEF Told
<1>3. /\ \A i \in 1..n : ~IsInfo(new[e[i]])
      /\ \A j \in 1..m : (\A i \in 1..n : e[i] # j)
           => \E i \in 1..n : i - 1 \in DOMAIN warnings /\ e[i] = j + 1
      /\ \A i \in 1..n : i - 1 \in DOMAIN warnings
           => e[i] > 1 /\ new[e[i] - 1] = warnings[i - 1] /\ IsInfo(new[e[i] - 1])
  BY DEF HeadedBy
<1> DEFINE Announced == {r \in Runs(new) : Reads(new, r) \in 1..MaxInfoReads}
<1>4. ASSUME NEW k \in 1..m, IsInfo(new[k]) PROVE \E r \in Announced : k = r[1] - 1
  <2>1. \A i \in 1..n : e[i] # k
    BY <1>3, <1>4
  <2>2. PICK i \in 1..n : i - 1 \in DOMAIN warnings /\ e[i] = k + 1
    BY <1>3, <2>1
  <2>3. PICK s \in Nat, t \in Nat :
          IsRun(old, n, s, t) /\ Reads(old, <<s, t>>) \in 1..MaxInfoReads /\ i - 1 = s - 1
    BY <1>2, <2>2
  <2>4. s = i /\ s \in 1..n /\ t \in 1..n
    BY <1>1, <2>3 DEF IsRun, Starts
  <2>5. IsRun(new, m, e[s], e[t]) /\ Reads(new, <<e[s], e[t]>>) = Reads(old, <<s, t>>)
    BY <2>3, <2>4, RunsMove
  <2>6. <<e[s], e[t]>> \in Runs(new)
    BY <1>1, <2>5, RunsAreRuns
  <2>7. PICK r : r = <<e[s], e[t]>>
    OBVIOUS
  <2>8. r \in Announced /\ r[1] = e[s]
    BY <2>3, <2>5, <2>6, <2>7
  <2>9. k = e[s] - 1
    BY <2>2, <2>4
  <2> HIDE DEF Announced
  <2> QED BY <2>8, <2>9
<1>5. ASSUME NEW r \in Announced
      PROVE  /\ r[1] - 1 \in 1..m /\ IsInfo(new[r[1] - 1])
             /\ new[r[1] - 1] = SMC_INFO(Reads(new, r))
  <2>1. PICK x, y : x = r[1] /\ y = r[2]
    OBVIOUS
  <2>2. r = <<x, y>> /\ x \in 1..m /\ y \in 1..m /\ IsRun(new, m, x, y)
    <3>1. r \in Runs(new)
      OBVIOUS
    <3> QED BY <1>1, <2>1, <3>1, RunsAreRuns
  <2>3. PICK s \in 1..n, t \in 1..n : x = e[s] /\ y = e[t] /\ IsRun(old, n, s, t)
    BY <2>2, RunsMove
  <2>4. Reads(new, <<e[s], e[t]>>) = Reads(old, <<s, t>>)
    BY <2>3, RunsMove
  <2>5. Reads(new, r) = Reads(old, <<s, t>>) /\ Reads(new, r) \in 1..MaxInfoReads
    BY <2>2, <2>3, <2>4
  <2>6. s - 1 \in DOMAIN warnings /\ warnings[s - 1] = SMC_INFO(Reads(new, r))
    BY <1>2, <2>3, <2>5
  <2>7. e[s] > 1 /\ new[e[s] - 1] = warnings[s - 1] /\ IsInfo(new[e[s] - 1])
    BY <1>3, <2>6
  <2>8. e[s] - 1 \in 1..m
    <3>1. e[s] \in 1..m
      BY <1>1
    <3> QED BY <1>1, <2>7, <3>1
  <2> QED BY <2>1, <2>3, <2>6, <2>7, <2>8
<1> HIDE DEF Announced
<1>6. {k \in 1..Len(new) : IsInfo(new[k])} = {r[1] - 1 : r \in Announced}
  BY <1>1, <1>4, <1>5
<1> QED BY <1>5, <1>6 DEF Accurate, Announced

-----------------------------------------------------------------------------
(* preprocess_branches *)

\* The field of the target, which the passes may change.
TargetField(word) == IF is_conditional(word) THEN 8..26 ELSE 0..26

\* A branch that gets a target is still no INFO, and only its target is new.
LEMMA TargetBits ==
  ASSUME NEW word \in Word, is_branch(word), NEW lbl \in Nat
  PROVE  /\ ~IsInfo(WithTarget(word, lbl))
         /\ word \subseteq WithTarget(word, lbl)
         /\ lbl < 2^19 => WithTarget(word, lbl) \ word \subseteq TargetField(word)
         /\ lbl < 2^19 /\ TargetOf(word) = {} => TargetOf(WithTarget(word, lbl)) = Bits(lbl)
<1> DEFINE new   == WithTarget(word, lbl)
           field == Inst(Bits(lbl), BR_TGT)
<1>1. Bits(lbl) \subseteq 0..30
  BY DEF Bits
<1>2. field \subseteq 0..63 /\ \A c \in field : \E b \in Bits(lbl) : c = b + 8
  BY DEF Inst, Shl, BR_TGT
<1> HIDE DEF field
<1>3. new = word \cup field \/ new = word \cup Bits(lbl)
  BY DEF WithTarget, field
<1>4. new \in SUBSET (0..63) /\ word \subseteq new
  <2>1. word \in SUBSET (0..63)
    BY DEF Word
  <2>2. Bits(lbl) \subseteq 0..63
    BY <1>1
  <2> HIDE DEF new
  <2> QED BY <1>2, <1>3, <2>1, <2>2
<1>5. ~IsInfo(new)
  <2>1. 62 \in word
    BY BranchUnit DEF Word
  <2> QED BY <1>4, <2>1, NoInfo
<1>6. ASSUME lbl < 2^19 PROVE new \ word \subseteq TargetField(word)
  <2>1. Bits(lbl) \subseteq 0..18
    BY <1>6, LabelBits
  <2>2. CASE is_conditional(word)
    <3>1. new = word \cup field
      BY <2>2 DEF WithTarget, field
    <3>2. field \subseteq 8..26
      <4>1. ASSUME NEW c \in field PROVE c \in 8..26
        <5>1. PICK b \in Bits(lbl) : c = b + 8
          BY <1>2
        <5>2. b \in 0..18
          BY <2>1
        <5> QED BY <5>1, <5>2
      <4> QED BY <4>1
    <3> HIDE DEF new
    <3> QED BY <2>2, <3>1, <3>2 DEF TargetField
  <2>3. CASE ~is_conditional(word)
    <3>1. new = word \cup Bits(lbl)
      BY <2>3 DEF WithTarget
    <3>2. 0..18 \subseteq 0..26
      OBVIOUS
    <3> HIDE DEF new
    <3> QED BY <2>1, <2>3, <3>1, <3>2 DEF TargetField
  <2> QED BY <2>2, <2>3
<1>7. ASSUME lbl < 2^19, TargetOf(word) = {} PROVE TargetOf(new) = Bits(lbl)
  <2>1. Bits(lbl) \subseteq 0..18
    BY <1>7, LabelBits
  <2>2. word \in SUBSET (0..63)
    BY DEF Word
  <2>3. \A c \in new : c \in word \/ c <= 38
    <3>1. \A c \in field : c <= 38
      <4>1. ASSUME NEW c \in field PROVE c <= 38
        <5>1. PICK b \in Bits(lbl) : c = b + 8
          BY <1>2
        <5> QED BY <1>1, <5>1
      <4> QED BY <4>1
    <3>2. \A c \in Bits(lbl) : c <= 38
      BY <1>1
    <3> HIDE DEF new
    <3> QED BY <1>3, <3>1, <3>2
  <2>4. is_conditional(new) <=> is_conditional(word)
    <3> HIDE DEF new
    <3>1. FunctionCode(new) = FunctionCode(word)
      <4>1. \A i : FunctionCode(i) = {b \in 0..10 : \E c \in i : c >= 48 /\ b = c - 48}
        BY DEF FunctionCode, Shr, FU_CODE
      <4>2. ASSUME NEW c PROVE (c \in new /\ c >= 48) <=> (c \in word /\ c >= 48)
        <5>1. ASSUME c \in new, c >= 48 PROVE c \in word
          <6>1. c \in Int /\ ~(c <= 38)
            BY <1>4, <5>1
          <6> QED BY <2>3, <5>1, <6>1
        <5> QED BY <1>4, <5>1
      <4> QED BY <4>1, <4>2
    <3> QED BY <3>1 DEF is_conditional
  <2>5. CASE is_conditional(word)
    <3>1. new = word \cup field
      BY <2>5 DEF WithTarget, field
    <3>2. \A b : b \in 0..18 => b + 8 \notin word
      BY <1>7, <2>2, <2>5, TargetBit DEF TargetOf
    <3>3. \A b \in 0..18 : b + 8 \in field <=> b \in Bits(lbl)
      <4>1. \A x : x \in field <=> \E c \in Bits(lbl) : x = c + 8 /\ x \in 0..63
        BY DEF field, Inst, Shl, BR_TGT
      <4>2. ASSUME NEW b \in 0..18 PROVE b + 8 \in field <=> b \in Bits(lbl)
        <5>1. ASSUME b \in Bits(lbl) PROVE b + 8 \in field
          BY <4>1, <5>1
        <5>2. ASSUME b + 8 \in field PROVE b \in Bits(lbl)
          <6>1. PICK c \in Bits(lbl) : b + 8 = c + 8
            BY <4>1, <5>2
          <6>2. c \in 0..18
            BY <2>1
          <6>3. b = c
            BY <6>1, <6>2
          <6> QED BY <6>3
        <5> QED BY <5>1, <5>2
      <4> QED BY <4>2
    <3>4. TargetOf(new) = Field(new, BR_TGT, 19)
      BY <2>4, <2>5 DEF TargetOf
    <3> HIDE DEF new
    <3>5. \A b : b \in Field(new, BR_TGT, 19) <=> b \in 0..18 /\ b + 8 \in new
      BY <1>4, TargetBit
    <3>6. \A b : b \in Field(new, BR_TGT, 19) <=> b \in Bits(lbl)
      BY <2>1, <3>1, <3>2, <3>3, <3>5
    <3> QED BY <3>4, <3>6
  <2>6. CASE ~is_conditional(word)
    <3>1. new = word \cup Bits(lbl)
      BY <2>6 DEF WithTarget
    <3>2. \A b : b \in 0..26 => b \notin word
      BY <1>7, <2>2, <2>6, TargetBit DEF TargetOf
    <3>3. TargetOf(new) = Field(new, 0, 27)
      BY <2>4, <2>6 DEF TargetOf
    <3> HIDE DEF new
    <3>4. \A b : b \in Field(new, 0, 27) <=> b \in 0..26 /\ b \in new
      BY <1>4, TargetBit
    <3>5. \A b \in Bits(lbl) : b \in 0..26
      BY <2>1
    <3>6. \A b : b \in Field(new, 0, 27) <=> b \in Bits(lbl)
      BY <3>1, <3>2, <3>4, <3>5
    <3> QED BY <3>3, <3>6
  <2> QED BY <2>5, <2>6
<1> QED BY <1>4, <1>5, <1>6, <1>7

\* An INFO word ends a run, and so does a branch, whatever its target is.
LEMMA NoSleep ==
  ASSUME NEW i, i \in SUBSET (0..63), 61 \in i \/ 62 \in i
  PROVE  ~is_sleep(i)
<1>1. 13 \in Shr(i, FU_CODE) \/ 14 \in Shr(i, FU_CODE)
  <2>1. 61 >= 48 /\ 61 - 48 = 13 /\ 62 >= 48 /\ 62 - 48 = 14
    OBVIOUS
  <2> QED BY <2>1 DEF Shr, FU_CODE
<1>2. 2^13 = 8192 /\ 2^14 = 16384
  BY SMT
<1>3. 13 \notin Bits(19) /\ 14 \notin Bits(19)
  <2>1. 19 \in Nat /\ 13 \in 0..30 /\ 14 \in 0..30 /\ 8192 > 19 /\ 16384 > 19
    OBVIOUS
  <2>2. 2^13 > 19 /\ 2^14 > 19
    BY <1>2, <2>1
  <2> QED BY <2>1, <2>2, HighBits
<1> QED BY <1>1, <1>3 DEF is_sleep

LEMMA InfoStops ==
  ASSUME NEW i \in SUBSET (0..63), IsInfo(i)
  PROVE  ~GoesOn(i)
<1>1. Shr(i, OP_CODE) = {2}
  BY InfoUnit
<1>2. \A b \in 0..4 : b \in Shr(i, OP_CODE) <=> b + 59 \in i
  BY UnitBits
<1>3. 2 + 59 = 61 /\ 4 + 59 = 63 /\ 2 \in 0..4 /\ 4 \in 0..4
  OBVIOUS
<1>4. 61 \in i /\ 63 \notin i
  BY <1>1, <1>2, <1>3
<1> QED BY <1>4, NoSleep DEF GoesOn, is_ddr, IS_DDR

LEMMA BranchStops ==
  ASSUME NEW word \in Word, is_branch(word), NEW lbl \in Nat
  PROVE  ~GoesOn(word) /\ ~GoesOn(WithTarget(word, lbl))
<1>1. word \in SUBSET (0..63) /\ 62 \in word /\ 63 \notin word
  BY BranchUnit DEF Word
<1>2. PICK field, new : field = Inst(Bits(lbl), BR_TGT) /\ new = WithTarget(word, lbl)
  OBVIOUS
<1>3. Bits(lbl) \subseteq 0..30
  BY DEF Bits
<1>4. field \subseteq 0..63 /\ 63 \notin field
  <2>1. \A c \in field : c \in 0..63 /\ \E b \in Bits(lbl) : c = b + 8
    BY <1>2 DEF Inst, Shl, BR_TGT
  <2>2. \A b \in Bits(lbl) : b + 8 # 63
    BY <1>3
  <2> QED BY <2>1, <2>2
<1>5. new = word \cup field \/ new = word \cup Bits(lbl)
  BY <1>2 DEF WithTarget
<1>6. new \in SUBSET (0..63) /\ 62 \in new /\ 63 \notin new
  <2>1. Bits(lbl) \subseteq 0..63 /\ 63 \notin Bits(lbl)
    BY <1>3
  <2> QED BY <1>1, <1>4, <1>5, <2>1
<1>7. ~GoesOn(word)
  BY <1>1, NoSleep DEF GoesOn, is_ddr, IS_DDR
<1>8. ~GoesOn(new)
  BY <1>6, NoSleep DEF GoesOn, is_ddr, IS_DDR
<1> QED BY <1>2, <1>7, <1>8

\* What the passes make of a program that is in step with src.
Passed(p) == InsertGenerated(LinearAnalysis(p))

\* The value of a label is where one of its marks is.
MarksAgree(labels, set) ==
  /\ \A l \in DOMAIN labels : \E mark \in set : mark.label = l /\ mark.at = labels[l] + 1
  /\ \A mark \in set : mark.label \in DOMAIN labels

\* The passes do not fail, keep the words of src, announce their runs and send every branch to
\* its label.
LEMMA PassesKeep ==
  ASSUME NEW p \in BuildType, NEW src \in Seq(Item), InStep(p, src), NEW set, MarksAgree(p.labels, set)
  PROVE  /\ BranchesAreBranches(Passed(p))
         /\ Whole(PreprocessBranches(Passed(p)), src)
         /\ Accurate(PreprocessBranches(Passed(p)).program)
         /\ Len(PreprocessBranches(Passed(p)).program) < 2^19
              => /\ Keeps(PreprocessBranches(Passed(p)).program, src)
                 /\ Resolves(PreprocessBranches(Passed(p)).program, src, set)
<1> DEFINE a == LinearAnalysis(p)
           q == InsertGenerated(a)
<1>1. PICK n : n = Len(p.program)
  OBVIOUS
<1>2. /\ p.program \in Seq(Word) /\ n \in Nat /\ Len(src) = n
      /\ \A k \in 1..n : p.program[k] = src[k].word /\ src[k] \in Item
  <2>1. p.program \in Seq(Word)
    BY DEF BuildType
  <2>2. n \in Nat
    BY <1>1, <2>1
  <2>3. Len(src) = n /\ \A k \in 1..n : p.program[k] = src[k].word
    BY <1>1 DEF InStep
  <2>4. \A k \in 1..n : src[k] \in Item
    BY <2>3, ElementOfSeq
  <2> QED BY <2>1, <2>2, <2>3, <2>4
<1>3. PICK w \in WarningMaps : a = [p EXCEPT !.warnings = w] /\ Told(p.program, n, w)
  <2>1. p.warnings = Nowhere
    BY DEF BuildType
  <2> QED BY <1>1, <1>2, <2>1, Analysed
<1> HIDE DEF a
<1>4. a \in PassType /\ a.program = p.program /\ a.branches = p.branches /\ a.labels = p.labels /\ a.spc = p.spc
  <2>1. p.program \in Seq(SUBSET (0..63))
    <3> DEFINE prog == p.program
    <3>1. prog \in Seq(Word) /\ Len(prog) \in Nat /\ prog = [k \in 1..Len(prog) |-> prog[k]]
      BY <1>2
    <3> HIDE DEF prog
    <3>2. \A k \in 1..Len(prog) : prog[k] \in Word
      BY <3>1, ElementOfSeq
    <3>3. \A k \in 1..Len(prog) : prog[k] \in SUBSET (0..63)
      BY <3>2 DEF Word
    <3>4. prog \in Seq(SUBSET (0..63))
      <4>1. PICK S : S = SUBSET (0..63)
        OBVIOUS
      <4>2. \A k \in 1..Len(prog) : prog[k] \in S
        BY <3>3, <4>1
      <4>3. prog \in Seq(S)
        BY <3>1, <4>2, IsASeq
      <4> QED BY <4>1, <4>3
    <3> QED BY <3>4 DEF prog
  <2> QED BY <1>3, <2>1 DEF BuildType, PassType
<1>5. /\ \A b \in DOMAIN p.branches : b + 1 \in 1..n /\ src[b + 1].tgt # NoTarget /\ b \in Int
      /\ \A k \in 1..n : src[k].tgt # NoTarget => k - 1 \in DOMAIN p.branches
  <2>1. DOMAIN p.branches = {k - 1 : k \in {i \in 1..n : src[i].tgt # NoTarget}}
    BY <1>2 DEF InStep
  <2> QED BY <2>1, <1>2
<1>6. \A l \in DOMAIN a.labels : a.labels[l] <= n
  <2>1. p.spc = n /\ \A l \in DOMAIN p.labels : p.labels[l] \in 0..p.spc
    BY <1>1 DEF InStep
  <2> QED BY <1>2, <1>4, <2>1
<1>7. DOMAIN a.branches \subseteq 0..(n - 1)
  BY <1>2, <1>4, <1>5
<1>28. a.warnings = w /\ DOMAIN a.warnings \subseteq 0..(n - 1)
  <2>1. a.warnings = w
    BY <1>3 DEF BuildType
  <2>2. ASSUME NEW key \in DOMAIN w PROVE key \in 0..(n - 1)
    <3>1. PICK s, t \in Nat : IsRun(p.program, n, s, t) /\ key = s - 1
      BY <1>3 DEF Told
    <3>2. 1 <= s /\ s <= t /\ t < n
      BY <3>1 DEF IsRun, Starts
    <3> QED BY <1>2, <3>1, <3>2
  <2> QED BY <2>1, <2>2
<1>8. q \in PassType /\ \E e : Spread(a, q, n + 1, e) /\ Led(a, q, n + 1, e) /\ Headed(a, q, n + 1, e)
  BY <1>1, <1>4, <1>6, <1>7, <1>28, Generated
<1> HIDE DEF q
<1>9. PICK e : Spread(a, q, n + 1, e) /\ Led(a, q, n + 1, e) /\ Headed(a, q, n + 1, e)
  BY <1>8
<1>10. PICK m : m = Len(q.program)
  OBVIOUS
<1>11. /\ m \in Nat /\ e \in [1..n -> 1..m]
       /\ \A i, j \in 1..n : i < j => e[i] < e[j]
       /\ \A i \in 1..n : q.program[e[i]] = src[i].word
       /\ \A j \in 1..m : (\A i \in 1..n : e[i] # j) => IsInfo(q.program[j])
       /\ DOMAIN q.branches = {e[b + 1] - 1 : b \in DOMAIN p.branches}
       /\ \A l \in DOMAIN q.labels : q.labels[l] <= m
  <2>1. PICK d : d = m - n
    OBVIOUS
  <2>2. n = Len(a.program) /\ m \in Nat
    BY <1>1, <1>4, <1>8, <1>10 DEF PassType
  <2>3. m = n + d
    BY <1>2, <2>1, <2>2
  <2>4. \A i \in 1..n : q.program[e[i]] = a.program[i]
    BY <1>9, <2>2 DEF Spread
  <2>5. /\ e \in [1..n -> 1..m] /\ \A i, j \in 1..n : i < j => e[i] < e[j]
        /\ \A j \in 1..m : (\A i \in 1..n : e[i] # j) => IsInfo(q.program[j])
        /\ DOMAIN q.branches = {e[b + 1] - 1 : b \in DOMAIN p.branches}
        /\ \A l \in DOMAIN q.labels : q.labels[l] <= m
    BY <1>4, <1>9, <1>10, <2>1, <2>2, <2>3 DEF Spread
  <2> QED BY <1>2, <1>4, <2>2, <2>4, <2>5
<1>12. ASSUME NEW i \in 1..n
       PROVE  /\ e[i] \in 1..m /\ src[i].word \in Word
              /\ e[i] - 1 \in DOMAIN q.branches <=> src[i].tgt # NoTarget
              /\ src[i].tgt # NoTarget => IsOpen(src[i].word)
  <2>1. src[i].word \in Word /\ (src[i].tgt # NoTarget => IsOpen(src[i].word))
    BY <1>2 DEF Item
  <2>2. e[i] \in 1..m
    BY <1>11
  <2>3. ASSUME src[i].tgt # NoTarget PROVE e[i] - 1 \in DOMAIN q.branches
    <3>1. i - 1 \in DOMAIN p.branches /\ (i - 1) + 1 = i
      BY <1>5, <2>3
    <3> QED BY <1>11, <3>1
  <2>4. ASSUME e[i] - 1 \in DOMAIN q.branches PROVE src[i].tgt # NoTarget
    <3>1. PICK b \in DOMAIN p.branches : e[i] - 1 = e[b + 1] - 1
      BY <1>11, <2>4
    <3>2. b + 1 \in 1..n /\ src[b + 1].tgt # NoTarget
      BY <1>5
    <3>3. e[b + 1] \in 1..m /\ e[i] = e[b + 1]
      BY <1>11, <2>2, <3>1, <3>2
    <3>4. i = b + 1
      <4>1. ~(i < b + 1) /\ ~(b + 1 < i)
        BY <1>11, <2>2, <3>2, <3>3
      <4> QED BY <3>2, <4>1
    <3> QED BY <3>2, <3>4
  <2> QED BY <2>1, <2>2, <2>3, <2>4
<1>13. BranchesAreBranches(q)
  <2> SUFFICES ASSUME NEW pc \in DOMAIN q.branches PROVE is_branch(q.program[pc + 1])
    BY DEF BranchesAreBranches, At
  <2>1. PICK b \in DOMAIN p.branches : pc = e[b + 1] - 1
    BY <1>11
  <2>2. b + 1 \in 1..n /\ src[b + 1].tgt # NoTarget
    BY <1>5
  <2>3. e[b + 1] \in 1..m
    BY <1>11, <2>2
  <2>4. pc + 1 = e[b + 1]
    BY <2>1, <2>3
  <2> QED BY <1>11, <1>12, <2>2, <2>4 DEF IsOpen
<1> DEFINE r == PreprocessBranches(q)
           W(k) == IF k - 1 \in DOMAIN q.branches
                   THEN WithTarget(q.program[k], LabelOf(q.labels, q.branches[k - 1]))
                   ELSE q.program[k]
<1>14. r.program = [k \in 1..m |-> W(k)]
  <2>1. DOMAIN q.program = 1..m
    BY <1>8, <1>10 DEF PassType
  <2> QED BY <1>8, <2>1 DEF PreprocessBranches, PassType
<1>15. r.spc = n
  <2>1. q.spc = a.spc
    BY <1>9 DEF Spread
  <2>2. p.spc = n
    BY <1>1 DEF InStep
  <2>3. r.spc = q.spc
    BY <1>8 DEF PreprocessBranches, PassType
  <2> QED BY <1>4, <2>1, <2>2, <2>3
<1> HIDE DEF r
<1>16. PICK words : words = r.program
  OBVIOUS
<1>17. Len(words) = m /\ \A k \in 1..m : words[k] = W(k)
  <2> HIDE DEF W
  <2>1. Len([k \in 1..m |-> W(k)]) = m
    BY <1>11
  <2> QED BY <1>14, <1>16, <2>1
<1>18. \A l : LabelOf(q.labels, l) \in Nat /\ LabelOf(q.labels, l) <= m
  <2>1. PICK L \in SUBSET Labels : q.labels \in [L -> Nat]
    BY <1>8 DEF PassType, LabelMaps
  <2> QED BY <1>11, <2>1 DEF LabelOf
<1>19. /\ \A b \in DOMAIN p.branches : q.branches[e[b + 1] - 1] = p.branches[b]
       /\ \A l \in Used(p) : LabelOf(q.labels, l) = Before(e, LabelOf(p.labels, l))
       /\ \A i \in 0..n : Gap(e, n, m, i) \in {1, 2}
  <2>1. n = Len(a.program) /\ Used(a) = Used(p)
    BY <1>1, <1>4 DEF Used
  <2> QED BY <1>4, <1>9, <1>10, <2>1 DEF Led
<1>20. ASSUME NEW i \in 1..n
       PROVE  /\ ~IsInfo(words[e[i]])
              /\ src[i].tgt = NoTarget => words[e[i]] = src[i].word
              /\ src[i].word \subseteq words[e[i]]
              /\ m < 2^19 => words[e[i]] \ src[i].word \subseteq TargetField(src[i].word)
  <2>1. PICK lbl : lbl = LabelOf(q.labels, q.branches[e[i] - 1])
    OBVIOUS
  <2>2. lbl \in Nat /\ lbl <= m
    BY <1>18, <2>1
  <2>3. CASE src[i].tgt = NoTarget
    <3>1. words[e[i]] = src[i].word
      BY <1>11, <1>12, <1>17, <2>3
    <3>2. ~IsInfo(src[i].word)
      BY <1>12 DEF Word
    <3> QED BY <3>1, <3>2
  <2>4. CASE src[i].tgt # NoTarget
    <3>1. words[e[i]] = WithTarget(src[i].word, lbl)
      BY <1>11, <1>12, <1>17, <2>1, <2>4
    <3>2. src[i].word \in Word /\ is_branch(src[i].word)
      BY <1>12, <2>4 DEF IsOpen
    <3>3. m < 2^19 => lbl < 2^19
      <4>1. PICK z : z = 2^19
        OBVIOUS
      <4>2. z \in Int
        BY <4>1, Powers
      <4>3. m < z => lbl < z
        BY <1>11, <2>2, <4>2
      <4> QED BY <4>1, <4>3
    <3>4. ~IsInfo(WithTarget(src[i].word, lbl)) /\ src[i].word \subseteq WithTarget(src[i].word, lbl)
      BY <2>2, <3>2, TargetBits
    <3>5. m < 2^19 => WithTarget(src[i].word, lbl) \ src[i].word \subseteq TargetField(src[i].word)
      BY <2>2, <3>2, <3>3, TargetBits
    <3> QED BY <2>4, <3>1, <3>4, <3>5
  <2> QED BY <2>3, <2>4
<1>29. ASSUME NEW i \in 1..n
       PROVE  /\ GoesOn(src[i].word) => words[e[i]] = src[i].word
              /\ GoesOn(words[e[i]]) => words[e[i]] = src[i].word
  <2>1. CASE src[i].tgt = NoTarget
    BY <1>20, <2>1
  <2>2. CASE src[i].tgt # NoTarget
    <3>1. PICK lbl : lbl = LabelOf(q.labels, q.branches[e[i] - 1])
      OBVIOUS
    <3>2. words[e[i]] = WithTarget(src[i].word, lbl)
      BY <1>11, <1>12, <1>17, <2>2, <3>1
    <3>3. lbl \in Nat /\ src[i].word \in Word /\ is_branch(src[i].word)
      BY <1>12, <1>18, <2>2, <3>1 DEF IsOpen
    <3> QED BY <3>2, <3>3, BranchStops
  <2> QED BY <2>1, <2>2
<1>21. ASSUME NEW j \in 1..m, \A i \in 1..n : e[i] # j
       PROVE  IsInfo(words[j]) /\ words[j] = q.program[j]
  <2>1. j - 1 \notin DOMAIN q.branches
    <3> SUFFICES ASSUME j - 1 \in DOMAIN q.branches PROVE FALSE
      OBVIOUS
    <3>1. PICK b \in DOMAIN p.branches : j - 1 = e[b + 1] - 1
      BY <1>11
    <3>2. b + 1 \in 1..n
      BY <1>5
    <3>3. e[b + 1] \in 1..m
      BY <1>11, <3>2
    <3>4. e[b + 1] = j
      BY <3>1, <3>3
    <3> QED BY <1>21, <3>2, <3>4
  <2>2. words[j] = q.program[j]
    BY <1>17, <2>1
  <2> QED BY <1>11, <1>21, <2>2
<1> HIDE DEF W
<1>22. Len(Kept(words)) = n /\ \A i \in 1..n : Kept(words)[i] = e[i]
  <2>1. n \in Nat /\ m \in Nat /\ Len(words) = m
    BY <1>2, <1>11, <1>17
  <2>2. e \in [1..n -> 1..m] /\ \A i, j \in 1..n : i < j => e[i] < e[j]
    BY <1>11
  <2>3. \A i \in 1..n : ~IsInfo(words[e[i]])
    BY <1>20
  <2>4. \A j \in 1..m : (\A i \in 1..n : e[i] # j) => IsInfo(words[j])
    BY <1>21
  <2>5. FoundAt(Kept(words), n, e)
    BY <2>1, <2>2, <2>3, <2>4, KeptAreSpread
  <2> QED BY <2>5 DEF FoundAt
<1>23. StandAt(words, n, m, e)
  <2>1. n \in Nat /\ m \in Nat /\ Len(words) = m
    BY <1>2, <1>11, <1>17
  <2>2. e \in [1..n -> 1..m] /\ \A i, j \in 1..n : i < j => e[i] < e[j]
    BY <1>11
  <2>3. \A i \in 1..n : ~IsInfo(words[e[i]])
    BY <1>20
  <2>4. \A j \in 1..m : (\A i \in 1..n : e[i] # j) => IsInfo(words[j])
    BY <1>21
  <2>5. FoundAt(Kept(words), n, e)
    BY <1>22 DEF FoundAt
  <2> QED BY <2>1, <2>2, <2>3, <2>4, <2>5 DEF StandAt
<1>30. /\ \A j \in 1..m : (\A i \in 1..n : e[i] # j)
            => \E i \in 1..n : i - 1 \in DOMAIN w /\ e[i] = j + 1
       /\ \A i \in 1..n : i - 1 \in DOMAIN w
            => e[i] > 1 /\ q.program[e[i] - 1] = w[i - 1] /\ \A x \in 1..n : e[x] # e[i] - 1
  <2>1. \A i \in 1..n : i - 1 < n + 1
    BY <1>2
  <2>2. n = Len(a.program)
    BY <1>1, <1>4
  <2> QED BY <1>9, <1>10, <1>28, <2>1, <2>2 DEF Headed
<1>31. HeadedBy(words, n, m, e, w)
  <2>1. ASSUME NEW i \in 1..n, i - 1 \in DOMAIN w
        PROVE  e[i] > 1 /\ words[e[i] - 1] = w[i - 1] /\ IsInfo(words[e[i] - 1])
    <3>1. e[i] > 1 /\ q.program[e[i] - 1] = w[i - 1] /\ \A x \in 1..n : e[x] # e[i] - 1
      BY <1>30, <2>1
    <3>2. e[i] - 1 \in 1..m
      BY <1>11, <3>1
    <3> QED BY <1>21, <3>1, <3>2
  <2> QED BY <1>20, <1>30, <2>1 DEF HeadedBy
<1>32. Stretched(p.program, words, n, m, e)
  <2>1. ASSUME NEW j \in 1..m, \A i \in 1..n : e[i] # j
        PROVE  ~GoesOn(words[j]) /\ \E i \in 1..n : e[i] = j + 1 /\ ~InRun(p.program, i - 1)
    <3>1. IsInfo(words[j]) /\ words[j] = q.program[j]
      BY <1>21, <2>1
    <3>2. words[j] \in SUBSET (0..63)
      <4>1. q.program \in Seq(SUBSET (0..63))
        BY <1>8 DEF PassType
      <4>2. q.program[j] \in SUBSET (0..63)
        BY <1>10, <4>1, ElementOfSeq
      <4> QED BY <3>1, <4>2
    <3>3. ~GoesOn(words[j])
      BY <3>1, <3>2, InfoStops
    <3>4. PICK i \in 1..n : i - 1 \in DOMAIN w /\ e[i] = j + 1
      BY <1>30, <2>1
    <3>5. ~InRun(p.program, i - 1)
      <4>1. PICK s \in Nat, t \in Nat : IsRun(p.program, n, s, t) /\ i - 1 = s - 1
        BY <1>3, <3>4 DEF Told
      <4> QED BY <4>1 DEF IsRun, Starts
    <3> QED BY <3>3, <3>4, <3>5
  <2>2. \A i \in 1..n : /\ GoesOn(p.program[i]) => words[e[i]] = p.program[i]
                        /\ GoesOn(words[e[i]]) => words[e[i]] = p.program[i]
    BY <1>2, <1>29
  <2> QED BY <1>1, <1>2, <1>11, <1>17, <2>1, <2>2 DEF Stretched
<1>33. Accurate(words)
  BY <1>3, <1>31, <1>32, StretchedTell
<1>24. Whole(r, src)
  <2>1. Len(src) = n /\ Len(r.program) = m /\ StandAt(r.program, n, m, e)
    BY <1>2, <1>16, <1>17, <1>23
  <2> QED BY <1>15, <2>1 DEF Whole
<1>25. m < 2^19 => Keeps(words, src)
  <2> SUFFICES ASSUME m < 2^19 PROVE Keeps(words, src)
    OBVIOUS
  <2>1. ASSUME NEW i \in 1..n
        PROVE  /\ src[i].tgt = NoTarget => words[Kept(words)[i]] = src[i].word
               /\ src[i].word \subseteq words[Kept(words)[i]]
               /\ words[Kept(words)[i]] \ src[i].word \subseteq TargetField(src[i].word)
    BY <1>20, <1>22
  <2> QED BY <1>2, <1>22, <2>1 DEF Keeps, TargetField
<1>26. ASSUME m < 2^19, NEW i \in 1..n, NEW mark \in set, src[i].tgt = mark.label,
              \A other \in set : other.label = mark.label => other = mark
       PROVE  TargetOf(words[Kept(words)[i]]) = Bits(LabelAt(words, src, mark.at) - 1)
  <2>1. PICK l, lbl : l = mark.label /\ lbl = p.labels[l]
    OBVIOUS
  <2>2. l \in DOMAIN p.labels /\ mark.at = lbl + 1
    BY <1>26, <2>1 DEF MarksAgree
  <2>3. lbl \in 0..n /\ LabelOf(p.labels, l) = lbl
    <3>1. p.spc = n /\ \A x \in DOMAIN p.labels : p.labels[x] \in 0..p.spc
      BY <1>1 DEF InStep
    <3> QED BY <2>1, <2>2, <3>1 DEF LabelOf
  <2>4. src[i].tgt # NoTarget
    <3>1. l \in Labels
      <4>1. PICK M \in SUBSET Labels : p.labels \in [M -> Nat]
        BY DEF BuildType, LabelMaps
      <4> QED BY <2>2, <4>1
    <3> QED BY <1>26, <2>1, <3>1, LabelsAssumption
  <2>5. PICK b : b = i - 1
    OBVIOUS
  <2>6. b \in DOMAIN p.branches /\ b + 1 = i
    BY <1>5, <2>4, <2>5
  <2>7. p.branches[b] = l
    <3>1. \A c \in DOMAIN p.branches : p.branches[c] = src[c + 1].tgt
      BY DEF InStep
    <3> QED BY <1>26, <2>1, <2>6, <3>1
  <2>8. q.branches[e[i] - 1] = l /\ l \in Used(p)
    BY <1>19, <2>6, <2>7 DEF Used
  <2>9. LabelOf(q.labels, l) = Before(e, lbl)
    BY <1>19, <2>3, <2>8
  <2>10. PICK x : x = Before(e, lbl)
    OBVIOUS
  <2>11. x \in Nat /\ x <= m
    BY <1>18, <2>9, <2>10
  <2>12. words[e[i]] = WithTarget(src[i].word, x)
    <3>1. words[e[i]] = W(e[i])
      BY <1>12, <1>17
    <3>2. W(e[i]) = WithTarget(q.program[e[i]], LabelOf(q.labels, q.branches[e[i] - 1]))
      BY <1>12, <2>4 DEF W
    <3> QED BY <1>11, <2>8, <2>9, <2>10, <3>1, <3>2
  <2>13. TargetOf(WithTarget(src[i].word, x)) = Bits(x)
    <3>1. src[i].word \in Word /\ is_branch(src[i].word) /\ TargetOf(src[i].word) = {}
      BY <1>12, <2>4 DEF IsOpen
    <3>2. x < 2^19
      <4>1. PICK z : z = 2^19
        OBVIOUS
      <4>2. z \in Int
        BY <4>1, Powers
      <4>3. m < z
        BY <1>26, <4>1
      <4> QED BY <1>11, <2>11, <4>1, <4>2, <4>3
    <3> QED BY <2>11, <3>1, <3>2, TargetBits
  <2>14. LabelAt(words, src, lbl + 1) - 1 = x
    <3>1. n \in Nat /\ m \in Nat /\ Len(words) = m /\ Len(src) = n
      BY <1>2, <1>11, <1>17
    <3>6. Gap(e, n, m, lbl) \in {1, 2}
      BY <1>19, <2>3
    <3>8. LabelAt(words, src, lbl + 1) - 1 = Before(e, lbl)
      BY <2>3, <3>1, <3>6, <1>23, LabelSits
    <3> QED BY <2>10, <3>8
  <2>15. Kept(words)[i] = e[i]
    BY <1>22
  <2> QED BY <2>2, <2>12, <2>13, <2>14, <2>15
<1>27. m < 2^19 => Resolves(words, src, set)
  BY <1>2, <1>26 DEF Resolves
<1> QED BY <1>13, <1>16, <1>17, <1>25, <1>27, <1>24, <1>33 DEF Passed, q, r, a

-----------------------------------------------------------------------------
(* Conclude and the calls that run the passes *)

\* A program that was in step is whole after the passes, and they do not fail on it.
Fits    == Len(this.program) < 2^19
Marked  == stage = "building" => MarksAgree(this.labels, marks)
Shaped  == stage \in {"building", "processed", "reworked"} /\ (stage = "processed" => Whole(this, source))
Settled ==
  IInv /\ Marked /\ Shaped /\ OnlyReworkedFails /\ InfoAccurate /\ (Fits => SourceKept /\ BranchesResolve)

LEMMA InitSettled == Init => Settled
<1> SUFFICES ASSUME Init PROVE Settled
  OBVIOUS
<1>1. IInv
  BY InitBuilding
<1>2. ended # "assert" /\ stage = "building"
  BY DEF Init
<1>3. MarksAgree(this.labels, marks)
  <2>1. IInv /\ stage = "building"
    BY <1>1 DEF Init
  <2>2. PICK M \in SUBSET Labels : this.labels \in [M -> Nat]
    BY <2>1 DEF IInv, Building, BuildType, LabelMaps
  <2>3. marks = {[label |-> l, at |-> 0 + this.labels[l] + 1, unit |-> 0] : l \in DOMAIN this.labels}
    BY DEF Init, LabelsOf
  <2>4. ASSUME NEW l \in DOMAIN this.labels PROVE 0 + this.labels[l] + 1 = this.labels[l] + 1
    <3>1. this.labels[l] \in Nat
      BY <2>2
    <3>2. PICK x : x = this.labels[l]
      OBVIOUS
    <3>3. x \in Nat
      BY <3>1, <3>2
    <3> QED BY <3>2, <3>3
  <2>5. PICK lbs : lbs = this.labels
    OBVIOUS
  <2>6. \A l \in DOMAIN lbs : \E mark \in marks : mark.label = l /\ mark.at = lbs[l] + 1
    <3> SUFFICES ASSUME NEW l \in DOMAIN lbs
                 PROVE  \E mark \in marks : mark.label = l /\ mark.at = lbs[l] + 1
      OBVIOUS
    <3>1. PICK mark : mark = [label |-> l, at |-> 0 + lbs[l] + 1, unit |-> 0]
      OBVIOUS
    <3>2. mark \in marks /\ mark.label = l /\ mark.at = 0 + lbs[l] + 1
      BY <2>3, <2>5, <3>1
    <3> QED BY <2>4, <2>5, <3>2
  <2>7. \A mark \in marks : mark.label \in DOMAIN this.labels
    BY <2>3
  <2> QED BY <2>5, <2>6, <2>7 DEF MarksAgree
<1> QED BY <1>1, <1>2, <1>3 DEF Settled, Shaped, Marked, OnlyReworkedFails, InfoAccurate, SourceKept, BranchesResolve

\* A label and its mark are added together.
LEMMA StepMarked == IInv /\ Marked /\ [Next]_vars => Marked'
<1> SUFFICES ASSUME IInv, Marked, [Next]_vars, stage' = "building"
             PROVE  MarksAgree(this.labels, marks)'
  BY DEF Marked
<1>1. stage = "building"
  BY DEF Next, vars, AddInst, AddInst4, AddMininst, PackMinprogram, AddLabel, AddBranch, AddBelow,
     DumpRegisters, DumpRefused, Conclude, GetInstArray, SaveBin, RunPasses, Adds, history
<1>2. this \in BuildType /\ InStep(this, source) /\ MarksAgree(this.labels, marks)
  BY <1>1 DEF IInv, Building, Marked
<1>3. PICK M \in SUBSET Labels : this.labels \in [M -> Nat]
  BY <1>2 DEF BuildType, LabelMaps
<1>4. Len(source) = this.spc /\ this.spc \in Nat
  BY <1>2 DEF InStep, BuildType
<1>5. ASSUME this'.labels = this.labels, marks' = marks PROVE MarksAgree(this.labels, marks)'
  BY <1>2, <1>5
<1>6. ASSUME NEW name \in Labels, AddLabel(name) PROVE MarksAgree(this.labels, marks)'
  <2>1. PICK lbs, new : /\ lbs = Put(this.labels, name, this.spc)
                        /\ new = [label |-> name, at |-> Len(source) + 1, unit |-> 0]
    OBVIOUS
  <2>2. this'.labels = lbs /\ marks' = marks \cup {new}
    BY <1>2, <1>6, <2>1 DEF AddLabel, BuildType
  <2>3. DOMAIN lbs = M \cup {name} /\ \A l \in DOMAIN lbs : lbs[l] = IF l = name THEN this.spc ELSE this.labels[l]
    BY <1>3, <2>1 DEF Put
  <2>4. new.label = name /\ new.at = this.spc + 1
    BY <1>4, <2>1
  <2>5. ASSUME NEW l \in DOMAIN lbs PROVE \E mark \in marks \cup {new} : mark.label = l /\ mark.at = lbs[l] + 1
    <3>1. CASE l = name
      BY <2>3, <2>4, <3>1
    <3>2. CASE l # name
      <4>1. l \in DOMAIN this.labels /\ lbs[l] = this.labels[l]
        BY <1>3, <2>3, <3>2
      <4>2. PICK mark \in marks : mark.label = l /\ mark.at = this.labels[l] + 1
        BY <1>2, <4>1 DEF MarksAgree
      <4> QED BY <4>1, <4>2
    <3> QED BY <3>1, <3>2
  <2>6. \A mark \in marks \cup {new} : mark.label \in DOMAIN lbs
    BY <1>2, <1>3, <2>3, <2>4 DEF MarksAgree
  <2> QED BY <2>2, <2>5, <2>6 DEF MarksAgree
<1>7. ASSUME NEW q \in Others, AddBelow(q) PROVE MarksAgree(this.labels, marks)'
  <2>1. DOMAIN q.labels \subseteq Labels /\ \A l \in DOMAIN q.labels : q.labels[l] \in Nat
    <3>1. Built(q)
      BY OthersAssumption
    <3>2. q.spc \in Nat /\ \A l \in DOMAIN q.labels : q.labels[l] \in 0..q.spc
      BY <3>1, BuiltMaps
    <3> QED BY <3>1, <3>2, BuiltMaps
  <2>2. PICK lbs, new : /\ lbs = [l \in DOMAIN this.labels \cup DOMAIN q.labels |->
                                    IF l \in DOMAIN q.labels THEN q.labels[l] + this.spc ELSE this.labels[l]]
                        /\ new = LabelsOf(q, Len(source), calls')
    OBVIOUS
  <2>3. this'.labels = lbs /\ marks' = marks \cup new
    BY <1>2, <1>7, <2>2 DEF AddBelow, Below, BuildType
  <2>4. ASSUME NEW l \in DOMAIN lbs PROVE \E mark \in marks \cup new : mark.label = l /\ mark.at = lbs[l] + 1
    <3>1. CASE l \in DOMAIN q.labels
      <4>1. PICK mark : mark = [label |-> l, at |-> Len(source) + q.labels[l] + 1, unit |-> calls']
        OBVIOUS
      <4>2. mark \in new
        BY <2>2, <3>1, <4>1 DEF LabelsOf
      <4>3. mark.label = l /\ mark.at = lbs[l] + 1
        BY <1>4, <2>1, <2>2, <3>1, <4>1
      <4> QED BY <4>2, <4>3
    <3>2. CASE l \notin DOMAIN q.labels
      <4>1. l \in DOMAIN this.labels /\ lbs[l] = this.labels[l]
        BY <2>2, <3>2
      <4>2. PICK mark \in marks : mark.label = l /\ mark.at = this.labels[l] + 1
        BY <1>2, <4>1 DEF MarksAgree
      <4> QED BY <4>1, <4>2
    <3> QED BY <3>1, <3>2
  <2>5. ASSUME NEW mark \in marks \cup new PROVE mark.label \in DOMAIN lbs
    <3>1. CASE mark \in marks
      BY <1>2, <2>2, <3>1 DEF MarksAgree
    <3>2. CASE mark \in new
      BY <2>2, <3>2 DEF LabelsOf
    <3> QED BY <3>1, <3>2
  <2> QED BY <2>3, <2>4, <2>5 DEF MarksAgree
<1>8. CASE UNCHANGED <<this, marks>>
  BY <1>5, <1>8
<1>9. ASSUME NEW ws, this' = AddWords(this, ws), marks' = marks PROVE MarksAgree(this.labels, marks)'
  BY <1>2, <1>5, <1>9 DEF AddWords, BuildType
<1>10. CASE \/ \E i \in {SMC_LI(Bits(Len(source)), 1)} \cup Insts : AddInst(i)
            \/ \E slots \in Slots : AddInst4(slots)
  BY <1>9, <1>10 DEF AddInst, AddInst4
<1>11. ASSUME NEW minis, NEW wait, AddMininst(minis, wait) PROVE MarksAgree(this.labels, marks)'
  BY <1>2, <1>5, <1>11 DEF AddMininst, BuildType
<1>12. CASE PackMinprogram \/ DumpRegisters
  BY <1>2, <1>5, <1>12 DEF PackMinprogram, DumpRegisters, AddWords, BuildType
<1>13. ASSUME NEW word, NEW name, AddBranch(word, name) PROVE MarksAgree(this.labels, marks)'
  BY <1>2, <1>5, <1>13 DEF AddBranch, AddBranchWord, AddWords, BuildType
<1>14. CASE Conclude \/ GetInstArray
  BY <1>1, <1>14 DEF Conclude, GetInstArray, RunPasses
<1>15. CASE DumpRefused \/ SaveBin \/ UNCHANGED vars
  BY <1>8, <1>15 DEF DumpRefused, SaveBin, history, vars
<1> QED
  BY <1>6, <1>7, <1>10, <1>11, <1>12, <1>13, <1>14, <1>15 DEF Next

LEMMA StepSettled == Settled /\ [Next]_vars => Settled'
<1> SUFFICES ASSUME Settled, [Next]_vars PROVE Settled'
  OBVIOUS
<1>1. IInv' /\ Marked'
  BY StepBuilding, StepMarked DEF Settled
<1>2. ASSUME NEW p \in BuildType, NEW src \in Seq(Item), InStep(p, src), MarksAgree(p.labels, marks),
             RunPasses(p), source' = src, marks' = marks, stage = "building"
      PROVE  /\ Shaped' /\ OnlyReworkedFails' /\ InfoAccurate'
             /\ Fits' => SourceKept' /\ BranchesResolve'
  <2>1. BranchesAreBranches(Passed(p))
    BY <1>2, PassesKeep
  <2>2. Len(PreprocessBranches(Passed(p)).program) < 2^19
          => /\ Keeps(PreprocessBranches(Passed(p)).program, src)
             /\ Resolves(PreprocessBranches(Passed(p)).program, src, marks)
    BY <1>2, PassesKeep
  <2>3. Whole(PreprocessBranches(Passed(p)), src)
    BY <1>2, PassesKeep
  <2>4. this' = PreprocessBranches(Passed(p)) /\ ended' = ended /\ ended = "no" /\ stage' = "processed"
    BY <1>2, <2>1 DEF RunPasses, Passed, Called
  <2>5. Fits' => Keeps(this.program, source)' /\ Resolves(this.program, source, marks)'
    BY <1>2, <2>2, <2>4 DEF Fits
  <2>6. Whole(this, source)'
    BY <1>2, <2>4, <2>3
  <2>7. InfoAccurate'
    <3>1. Accurate(PreprocessBranches(Passed(p)).program)
      BY <1>2, PassesKeep
    <3>2. Accurate(this.program)'
      BY <2>4, <3>1
    <3> QED BY <3>2 DEF Accurate, InfoAccurate
  <2> QED BY <2>4, <2>5, <2>6, <2>7 DEF Shaped, OnlyReworkedFails, SourceKept, BranchesResolve
<1>3. CASE Conclude
  <2> DEFINE p   == AddWords(this, <<SMC_END>>)
             src == source \o Words(<<SMC_END>>, 0)
             q   == [p EXCEPT !.concluded = TRUE]
  <2>1. CASE stage = "building"
    <3>1. this \in BuildType /\ source \in Seq(Item) /\ InStep(this, source) /\ MarksAgree(this.labels, marks)
      BY <2>1 DEF Settled, IInv, Building, Marked
    <3>2. <<SMC_END>> \in Seq(Word)
      <4>1. SMC_END \in SUBSET (0..63) /\ 61 \notin SMC_END
        BY DEF SMC_END
      <4>2. SMC_END \in Word
        BY <4>1, NoInfo DEF Word
      <4> QED BY <4>2
    <3>3. p \in BuildType /\ src \in Seq(Item) /\ InStep(p, src)
      BY <3>1, <3>2, AddWordsInStep
    <3>4. RunPasses(q) /\ source' = src /\ marks' = marks
      BY <1>3 DEF Conclude
    <3>5. p.labels = this.labels
      BY <3>1 DEF AddWords, BuildType
    <3> HIDE DEF p, src
    <3>6. q \in BuildType
      BY <3>3 DEF BuildType
    <3>7. /\ q.program = p.program /\ q.spc = p.spc /\ q.branches = p.branches /\ q.labels = p.labels
      BY <3>3 DEF BuildType
    <3>8. InStep(q, src)
      BY <3>3, <3>7, InStepSame
    <3>9. MarksAgree(q.labels, marks)
      BY <3>1, <3>5, <3>7
    <3> HIDE DEF q
    <3> QED BY <1>1, <1>2, <2>1, <3>3, <3>4, <3>6, <3>8, <3>9 DEF Settled
  <2>2. CASE stage # "building"
    <3>1. stage' = "reworked"
      BY <1>3, <2>2 DEF Conclude, RunPasses
    <3> QED BY <1>1, <3>1 DEF Settled, Shaped, OnlyReworkedFails, InfoAccurate, SourceKept, BranchesResolve
  <2> QED BY <2>1, <2>2
<1>4. CASE GetInstArray
  <2>1. CASE stage = "building"
    <3>1. this \in BuildType /\ source \in Seq(Item) /\ InStep(this, source) /\ MarksAgree(this.labels, marks)
      BY <2>1 DEF Settled, IInv, Building, Marked
    <3>2. RunPasses(this) /\ source' = source /\ marks' = marks
      BY <1>4 DEF GetInstArray
    <3> QED BY <1>1, <1>2, <2>1, <3>1, <3>2 DEF Settled
  <2>2. CASE stage # "building"
    <3>1. stage' = "reworked"
      BY <1>4, <2>2 DEF GetInstArray, RunPasses
    <3> QED BY <1>1, <3>1 DEF Settled, Shaped, OnlyReworkedFails, InfoAccurate, SourceKept, BranchesResolve
  <2> QED BY <2>1, <2>2
<1>5. CASE Adds /\ ended' = ended
  <2>1. ended' # "assert" /\ stage' \in {"building", "reworked"}
    BY <1>5 DEF Settled, Shaped, Adds, Called
  <2> QED BY <1>1, <2>1 DEF Settled, Shaped, OnlyReworkedFails, InfoAccurate, SourceKept, BranchesResolve
<1>6. CASE DumpRefused \/ SaveBin \/ UNCHANGED vars
  <2>1. this' = this /\ source' = source /\ stage' = stage /\ marks' = marks
    BY <1>6 DEF DumpRefused, SaveBin, history, vars
  <2>2. ended' = "assert" => ended = "assert"
    BY <1>6 DEF DumpRefused, SaveBin, vars
  <2>3. Fits' = Fits /\ SourceKept' = SourceKept /\ BranchesResolve' = BranchesResolve
    BY <2>1 DEF Fits, SourceKept, BranchesResolve
  <2>4. Shaped' /\ InfoAccurate'
    BY <2>1 DEF Settled, Shaped, InfoAccurate
  <2> QED BY <1>1, <2>1, <2>2, <2>3, <2>4 DEF Settled, OnlyReworkedFails
<1> QED
  BY <1>3, <1>4, <1>5, <1>6 DEF Next, AddInst, AddInst4, AddMininst, PackMinprogram, AddLabel,
     AddBranch, AddBelow, DumpRegisters

\* Of the programs a client may build, for all labels, words and appended programs, none
\* fails the assertion of preprocess_branches when the passes run the first time: what is at
\* the pc of a branch is a branch (program.cpp:239).
THEOREM OnlyReworkedAsserts == Spec => []OnlyReworkedFails
<1>1. Settled => OnlyReworkedFails
  BY DEF Settled
<1> QED BY <1>1, InitSettled, StepSettled, PTL DEF Spec

\* The passes put INFO words between the words that were added and targets into the branches,
\* and change nothing else, however many words they put in, as long as the pcs fit the 19 bits
\* that a conditional branch has for its target (program.cpp:232-350).
THEOREM PassesKeepWords == Spec => [](Len(this.program) < 2^19 => SourceKept)
<1>1. Settled => (Len(this.program) < 2^19 => SourceKept)
  BY DEF Settled, Fits
<1> QED BY <1>1, InitSettled, StepSettled, PTL DEF Spec

\* In every program that went through the passes once, of whatever length and words, an INFO
\* word stands right before each run of DDR words that another word ends and that reads, up to the
\* cap, it counts the reads of that run, and there is no other (program.cpp:252-298, 300-350).
THEOREM InfosAnnounceRuns == Spec => []InfoAccurate
<1>1. Settled => InfoAccurate
  BY DEF Settled
<1> QED BY <1>1, InitSettled, StepSettled, PTL DEF Spec

\* In a program that went through the passes once, each branch to a label that was set once
\* goes to the word that the label was set before, or to the INFO of that word, wherever INFO
\* words were put in (program.cpp:232-246, 317-348).
THEOREM BranchesGoWhereAsked == Spec => [](Len(this.program) < 2^19 => BranchesResolve)
<1>1. Settled => (Len(this.program) < 2^19 => BranchesResolve)
  BY DEF Settled, Fits
<1> QED BY <1>1, InitSettled, StepSettled, PTL DEF Spec

\* How far save_bin departs from saving the whole: it writes spc words. While a program is
\* built these are all its words, and after the passes went over it once they are its first
\* words, short of as many of the last as there are INFO words, of which insert_generated
\* counts none in spc (program.cpp:317-348, 398).
THEOREM SavesFirstWords ==
  Spec => [][SaveBin /\ stage # "reworked" =>
               LET infos == {k \in 1..Len(this.program) : IsInfo(this.program[k])}
               IN  saved' = SubSeq(this.program, 1, Len(this.program) - Cardinality(infos))]_vars
<1>1. ASSUME Settled, SaveBin, stage # "reworked"
      PROVE  LET infos == {k \in 1..Len(this.program) : IsInfo(this.program[k])}
             IN  saved' = SubSeq(this.program, 1, Len(this.program) - Cardinality(infos))
  <2> DEFINE infos == {k \in 1..Len(this.program) : IsInfo(this.program[k])}
  <2>1. saved' = SubSeq(this.program, 1, this.spc)
    BY <1>1 DEF SaveBin
  <2>2. CASE stage = "building"
    <3>1. this \in BuildType /\ InStep(this, source) /\ source \in Seq(Item)
      BY <1>1, <2>2 DEF Settled, IInv, Building
    <3>2. this.spc = Len(this.program) /\ Len(this.program) \in Nat
      BY <3>1 DEF InStep, BuildType
    <3>3. infos = {}
      <4>1. \A k \in 1..Len(this.program) : this.program[k] \in Word
        BY <3>1, ElementOfSeq DEF BuildType
      <4> QED BY <4>1 DEF Word
    <3>4. Cardinality(infos) = 0
      BY <3>3, FS_EmptySet
    <3> HIDE DEF infos
    <3>5. Len(this.program) - Cardinality(infos) = this.spc
      BY <3>2, <3>4
    <3> QED BY <2>1, <3>5 DEF infos
  <2>3. CASE stage = "processed"
    <3>1. Whole(this, source)
      BY <1>1, <2>3 DEF Settled, Shaped
    <3>2. PICK e : StandAt(this.program, Len(source), Len(this.program), e)
      BY <3>1 DEF Whole
    <3>3. Len(this.program) - Cardinality(infos) = Len(source)
      BY <3>2, InfosBeyond
    <3> QED BY <2>1, <3>1, <3>3 DEF Whole
  <2> QED BY <1>1, <2>2, <2>3 DEF Settled, Shaped
<1>2. Settled /\ [Next]_vars
        => [SaveBin /\ stage # "reworked" =>
             LET infos == {k \in 1..Len(this.program) : IsInfo(this.program[k])}
             IN  saved' = SubSeq(this.program, 1, Len(this.program) - Cardinality(infos))]_vars
  BY <1>1
<1> QED BY <1>2, InitSettled, StepSettled, PTL DEF Spec

=============================================================================
