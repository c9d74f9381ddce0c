------------------------- MODULE InstructionProofs -------------------------
(***************************************************************************)
(* DecodesToItself and ClassifiersAgree, for all registers, immediates,    *)
(* targets, flags and slots.                                               *)
(***************************************************************************)
EXTENDS MCInstruction, BitFacts, FiniteSetTheorems

\* A word: the bits of its unit, its function code, and what lies below.
Made(i, unit, code, low) ==
  /\ i \in SUBSET (0..63) /\ Shr(i, OP_CODE) = unit /\ FunctionCode(i) = code
  /\ \A b \in 0..47 : b \in i <=> b \in low

LEMMA WordParts ==
  ASSUME NEW unit \in SUBSET (0..4), NEW code \in SUBSET (0..10), NEW low \in SUBSET (0..47), NEW i,
         i = Placed(unit, 59) \cup Placed(code, 48) \cup low
  PROVE  Made(i, unit, code, low)
<1>1. \A x \in Int : x \in Placed(unit, 59) <=> x - 59 \in unit
  BY PlacedHas
<1>2. \A x \in Int : x \in Placed(code, 48) <=> x - 48 \in code
  BY PlacedHas
<1>3. Placed(unit, 59) \subseteq 59..63 /\ Placed(code, 48) \subseteq 48..58
  BY DEF Placed
<1>4. i \in SUBSET (0..63)
  <2>1. 59..63 \subseteq 0..63 /\ 48..58 \subseteq 0..63 /\ 0..47 \subseteq 0..63
    OBVIOUS
  <2> QED BY <1>3, <2>1
<1>5. \A b \in 0..47 : b \in i <=> b \in low
  BY <1>3
<1>6. Shr(i, OP_CODE) = unit
  <2>1. Shr(i, OP_CODE) \subseteq 0..4 /\ \A b \in 0..4 : b \in Shr(i, OP_CODE) <=> b + 59 \in i
    BY <1>4, UnitBits
  <2>2. ASSUME NEW b \in 0..4 PROVE b + 59 \in i <=> b \in unit
    <3>1. b + 59 \in Int /\ (b + 59) - 59 = b /\ b + 59 \notin 0..58
      OBVIOUS
    <3>2. b + 59 \in Placed(unit, 59) <=> b \in unit
      BY <1>1, <3>1
    <3> QED BY <1>3, <3>1, <3>2
  <2> QED BY <2>1, <2>2
<1>7. FunctionCode(i) = code
  <2>1. FunctionCode(i) = Field(i, 48, 11)
    BY DEF FunctionCode, Field, FU_CODE
  <2>2. ASSUME NEW b \in 0..10 PROVE b + 48 \in i <=> b \in code
    <3>1. b + 48 \in Int /\ (b + 48) - 48 = b /\ b + 48 \notin 59..63 /\ b + 48 \notin 0..47
      OBVIOUS
    <3>2. b + 48 \in Placed(code, 48) <=> b \in code
      BY <1>2, <3>1
    <3> QED BY <1>3, <3>1, <3>2
  <2>3. HasField(i, 48, 11, code)
    BY <2>2 DEF HasField
  <2>4. i \in SUBSET Int
    BY <1>4
  <2>5. Field(i, 48, 11) = code
    BY <2>3, <2>4, FieldIs
  <2> QED BY <2>1, <2>5
<1> QED BY <1>4, <1>5, <1>6, <1>7 DEF Made

\* A field below the function code.
LEMMA LowField ==
  ASSUME NEW i, NEW unit, NEW code, NEW low, Made(i, unit, code, low),
         NEW at \in Nat, NEW width \in Nat, at + width <= 48, NEW w, HasField(low, at, width, w)
  PROVE  Field(i, at, width) = w
<1>1. i \in SUBSET Int
  BY DEF Made
<1>2. \A b \in 0..(width - 1) : b + at \in 0..47
  OBVIOUS
<1>3. HasField(i, at, width, w)
  BY <1>2 DEF Made, HasField
<1> QED BY <1>1, <1>3, FieldIs

\* Two registers, and a third or an immediate between them.
Operands(rs1, mid, rt) == rs1 \cup Placed(mid, 4) \cup Placed(rt, 20)

LEMMA OperandFields ==
  ASSUME NEW rs1 \in SUBSET (0..3), NEW mid \in SUBSET (0..15), NEW rt \in SUBSET (0..3),
         NEW i, NEW unit, NEW code, Made(i, unit, code, Operands(rs1, mid, rt))
  PROVE  /\ Field(i, 0, 4) = rs1 /\ Field(i, 20, 4) = rt /\ Field(i, 4, 16) = mid
         /\ mid \subseteq 0..3 => Field(i, 4, 4) = mid
<1> DEFINE low == Operands(rs1, mid, rt)
<1>1. /\ \A x \in Int : x \in Placed(mid, 4) <=> x - 4 \in mid
      /\ \A x \in Int : x \in Placed(rt, 20) <=> x - 20 \in rt
  BY PlacedHas
<1>2. \A x \in Int : x \in low <=> x \in rs1 \/ x - 4 \in mid \/ x - 20 \in rt
  BY <1>1 DEF Operands
<1> HIDE DEF low
<1>3. Field(i, 0, 4) = rs1
  <2>1. ASSUME NEW b \in 0..3 PROVE b + 0 \in low <=> b \in rs1
    <3>1. b + 0 = b /\ b \in Int /\ b - 4 \notin 0..15 /\ b - 20 \notin 0..3
      OBVIOUS
    <3> QED BY <1>2, <3>1
  <2>2. HasField(low, 0, 4, rs1)
    BY <2>1 DEF HasField
  <2> QED BY <2>2, LowField DEF low
<1>4. Field(i, 20, 4) = rt
  <2>1. ASSUME NEW b \in 0..3 PROVE b + 20 \in low <=> b \in rt
    <3>1. b + 20 \in Int /\ (b + 20) - 4 \notin 0..15 /\ (b + 20) - 20 = b /\ b + 20 \notin 0..3
      OBVIOUS
    <3> QED BY <1>2, <3>1
  <2>2. HasField(low, 20, 4, rt)
    BY <2>1 DEF HasField
  <2> QED BY <2>2, LowField DEF low
<1>5. Field(i, 4, 16) = mid
  <2>1. ASSUME NEW b \in 0..15 PROVE b + 4 \in low <=> b \in mid
    <3>1. b + 4 \in Int /\ (b + 4) - 4 = b /\ (b + 4) - 20 \notin 0..3 /\ b + 4 \notin 0..3
      OBVIOUS
    <3> QED BY <1>2, <3>1
  <2>2. HasField(low, 4, 16, mid)
    BY <2>1 DEF HasField
  <2> QED BY <2>2, LowField DEF low
<1>6. ASSUME mid \subseteq 0..3 PROVE Field(i, 4, 4) = mid
  <2>1. ASSUME NEW b \in 0..3 PROVE b + 4 \in low <=> b \in mid
    <3>1. b + 4 \in Int /\ (b + 4) - 4 = b /\ (b + 4) - 20 \notin 0..3 /\ b + 4 \notin 0..3
      OBVIOUS
    <3> QED BY <1>2, <3>1
  <2>2. HasField(low, 4, 4, mid)
    BY <1>6, <2>1 DEF HasField
  <2> QED BY <2>2, LowField DEF low
<1> QED BY <1>3, <1>4, <1>5, <1>6

-----------------------------------------------------------------------------
(* Codes *)

\* Every code fits its field.
LEMMA CodesFit ==
  /\ \A op \in DOMAIN ArithCodes : ArithCodes[op] \in Nat /\ ArithCodes[op] < 2^11
  /\ \A op \in DOMAIN BranchCodes : BranchCodes[op] \in Nat /\ BranchCodes[op] < 2^11
  /\ \A op \in DOMAIN BitwiseCodes : BitwiseCodes[op] \in Nat /\ BitwiseCodes[op] < 2^11
  /\ \A op \in DOMAIN MemoryCodes : MemoryCodes[op] \in Nat /\ MemoryCodes[op] < 2^11
  /\ \A op \in DOMAIN DDRCodes : DDRCodes[op] \in 0..15
<1>1. \A n \in 0..257 : n < 2^11
  BY SMT
<1>2. \A op \in DOMAIN ArithCodes : ArithCodes[op] \in 0..257
  BY SMT DEF ArithCodes
<1>3. \A op \in DOMAIN BranchCodes : BranchCodes[op] \in 0..257
  BY SMT DEF BranchCodes
<1>4. \A op \in DOMAIN BitwiseCodes : BitwiseCodes[op] \in 0..257
  BY SMT DEF BitwiseCodes
<1>5. \A op \in DOMAIN MemoryCodes : MemoryCodes[op] \in 0..257
  BY SMT DEF MemoryCodes
<1>6. \A op \in DOMAIN DDRCodes : DDRCodes[op] \in 0..15
  BY SMT DEF DDRCodes
<1>7. \A n \in 0..257 : n \in Nat
  OBVIOUS
<1> QED BY <1>1, <1>2, <1>3, <1>4, <1>5, <1>6, <1>7

\* No number below 2^11 is too large for Value.
LEMMA CodesArePositive == \A n \in Nat : n < 2^11 \/ n < 2^19 => n \in Positive
<1>1. 2^11 = 2048 /\ 2^19 = 524288 /\ 2^31 = 2147483648
  BY SMT
<1> QED BY <1>1, SMT DEF Positive

\* No two operations of a unit have the same code.
LEMMA CodesTell ==
  /\ \A m, n \in DOMAIN ArithCodes : ArithCodes[m] = ArithCodes[n] => m = n
  /\ \A m, n \in DOMAIN BranchCodes : BranchCodes[m] = BranchCodes[n] => m = n
  /\ \A m, n \in DOMAIN BitwiseCodes : BitwiseCodes[m] = BitwiseCodes[n] => m = n
  /\ \A m, n \in DOMAIN MemoryCodes : MemoryCodes[m] = MemoryCodes[n] => m = n
  /\ \A m, n \in DOMAIN DDRCodes : DDRCodes[m] = DDRCodes[n] => m = n
<1>1. \A m, n \in DOMAIN ArithCodes : ArithCodes[m] = ArithCodes[n] => m = n
  BY SMTT(30) DEF ArithCodes
<1>2. \A m, n \in DOMAIN BranchCodes : BranchCodes[m] = BranchCodes[n] => m = n
  BY SMT DEF BranchCodes
<1>3. \A m, n \in DOMAIN BitwiseCodes : BitwiseCodes[m] = BitwiseCodes[n] => m = n
  BY SMT DEF BitwiseCodes
<1>4. \A m, n \in DOMAIN MemoryCodes : MemoryCodes[m] = MemoryCodes[n] => m = n
  BY SMT DEF MemoryCodes
<1>5. \A m, n \in DOMAIN DDRCodes : DDRCodes[m] = DDRCodes[n] => m = n
  BY SMTT(30) DEF DDRCodes
<1> QED BY <1>1, <1>2, <1>3, <1>4, <1>5

\* So the decoder finds the name of each.
LEMMA NamesFound ==
  /\ \A op \in DOMAIN ArithCodes : NameOf(ArithCodes, Bits(ArithCodes[op])) = op
  /\ \A op \in DOMAIN BranchCodes : NameOf(BranchCodes, Bits(BranchCodes[op])) = op
  /\ \A op \in DOMAIN BitwiseCodes : NameOf(BitwiseCodes, Bits(BitwiseCodes[op])) = op
  /\ \A op \in DOMAIN MemoryCodes : NameOf(MemoryCodes, Bits(MemoryCodes[op])) = op
  /\ \A op \in DOMAIN DDRCodes : NameOf(DDRCodes, Bits(DDRCodes[op])) = op
<1>1. ASSUME NEW codes \in {ArithCodes, BranchCodes, BitwiseCodes, MemoryCodes, DDRCodes},
             NEW op \in DOMAIN codes
      PROVE  NameOf(codes, Bits(codes[op])) = op
  <2>1. \A n \in DOMAIN codes : codes[n] \in Nat /\ (codes[n] < 2^11 \/ codes[n] \in 0..15)
    BY CodesFit
  <2>2. \A n \in 0..15 : n < 2^11
    BY SMT
  <2>3. \A n \in DOMAIN codes : codes[n] \in Positive
    BY <2>1, <2>2, CodesArePositive
  <2>4. \A n \in DOMAIN codes : codes[n] = codes[op] => n = op
    BY CodesTell
  <2> QED BY <2>3, <2>4, NameIsFound
<1> QED BY <1>1

\* What is decoded as the operation of a word, by its unit.
LEMMA OperationIs ==
  ASSUME NEW i, NEW unit, NEW code, NEW low, Made(i, unit, code, low)
  PROVE  /\ \A op \in DOMAIN ArithCodes :
              unit = {} /\ i # {} /\ code = Bits(ArithCodes[op]) => Operation(i) = op
         /\ \A op \in DOMAIN BranchCodes : unit = {3} /\ code = Bits(BranchCodes[op]) => Operation(i) = op
         /\ \A op \in DOMAIN MemoryCodes : unit = {1} /\ code = Bits(MemoryCodes[op]) => Operation(i) = op
         /\ \A op \in DOMAIN BitwiseCodes : unit = {0} /\ code = Bits(BitwiseCodes[op]) => Operation(i) = op
         /\ unit = {2} /\ code = {} => Operation(i) = "INFO"
<1>1. Shr(i, OP_CODE) = unit /\ FunctionCode(i) = code
  BY DEF Made
<1>2. /\ Bits(0) = {} /\ Bits(1) = {0} /\ Bits(2) = {1} /\ Bits(4) = {2} /\ Bits(8) = {3}
      /\ {0} # {1} /\ {0} # {2} /\ {0} # {3} /\ {1} # {2} /\ {1} # {3} /\ {2} # {3}
      /\ {} # {0} /\ {} # {1} /\ {} # {2} /\ {} # {3}
  BY CodeBits
<1>3. ASSUME unit = {}, i # {} PROVE Operation(i) = NameOf(ArithCodes, code)
  BY <1>1, <1>2, <1>3 DEF Operation, SMC_END
<1>4. ASSUME unit = {3} PROVE Operation(i) = NameOf(BranchCodes, code)
  BY <1>1, <1>2, <1>4 DEF Operation
<1>5. ASSUME unit = {1} PROVE Operation(i) = NameOf(MemoryCodes, code)
  BY <1>1, <1>2, <1>5 DEF Operation
<1>6. ASSUME unit = {0} PROVE Operation(i) = NameOf(BitwiseCodes, code)
  BY <1>1, <1>2, <1>6 DEF Operation
<1>7. ASSUME unit = {2}, code = {} PROVE Operation(i) = "INFO"
  <2>1. NameOf([INFO |-> 0], {}) = "INFO"
    BY CodeBits DEF NameOf
  <2> QED BY <1>1, <1>2, <1>7, <2>1 DEF Operation
<1> QED BY <1>3, <1>4, <1>5, <1>6, <1>7, NamesFound

-----------------------------------------------------------------------------
(* What the encoders make *)

LEMMA RegisterBits ==
  ASSUME NEW r \in 0..15
  PROVE  Bits(r) \in SUBSET (0..3) /\ Value(Bits(r)) = r
<1>1. r \in Nat /\ r < 2^11
  BY SMT
<1>2. r \in Positive
  BY <1>1, CodesArePositive
<1> QED BY <1>2, SmallBits, ValueOfBits

LEMMA FuCodeIs ==
  ASSUME NEW n \in Nat, n < 2^11
  PROVE  FuCode(n) = Placed(Bits(n), 48) /\ Bits(n) \in SUBSET (0..10)
<1>1. Bits(n) \subseteq 0..10
  BY CodeFits
<1>2. 10 + 48 < 64
  OBVIOUS
<1>3. Shl(Bits(n), 48, 64) = Placed(Bits(n), 48)
  BY <1>1, <1>2, ShiftPlaces
<1> QED BY <1>1, <1>3 DEF FuCode, Inst, FU_CODE

LEMMA UnitIs ==
  /\ {IS_BR} = Placed({3}, 59) /\ {IS_MISC} = Placed({2}, 59)
  /\ {IS_MEM} = Placed({1}, 59) /\ {IS_BW} = Placed({0}, 59) /\ {} = Placed({}, 59)
BY DEF IS_BR, IS_MISC, IS_MEM, IS_BW, Placed

LEMMA TargetIs ==
  ASSUME NEW r \in 0..15
  PROVE  Target(r) = Placed(Bits(r), 20)
<1>1. Bits(r) \subseteq 0..3 /\ 3 + 20 < 31
  BY RegisterBits
<1>2. IntShl(Bits(r), 20) = Placed(Bits(r), 20)
  BY <1>1, IntShiftPlaces
<1> QED BY <1>2 DEF Target, RT

LEMMA SourcesAre ==
  ASSUME NEW r \in 0..15, NEW s \in 0..15
  PROVE  Sources(r, s) = Placed(Bits(s), 4) \cup Bits(r)
<1>1. Bits(s) \subseteq 0..3 /\ 3 + 4 < 31
  BY RegisterBits
<1>2. IntShl(Bits(s), 4) = Placed(Bits(s), 4)
  BY <1>1, IntShiftPlaces
<1> QED BY <1>2 DEF Sources, RS2

LEMMA ImmediateIs ==
  ASSUME NEW w \in SUBSET (0..15)
  PROVE  UintShl(w, IMD1) = Placed(w, 4) /\ IntShl(w, IMD1) = Placed(w, 4) /\ Inst(w, IMD3) = Placed(w, 24)
<1>1. w \subseteq 0..15 /\ 15 + 4 < 31 /\ 15 + 4 < 32 /\ 15 + 24 < 64
  OBVIOUS
<1>2. IntShl(w, 4) = Placed(w, 4)
  BY <1>1, IntShiftPlaces
<1>3. Shl(w, 4, 32) = Placed(w, 4)
  BY <1>1, ShiftPlaces
<1>4. Shl(w, 24, 64) = Placed(w, 24)
  BY <1>1, ShiftPlaces
<1> QED BY <1>2, <1>3, <1>4 DEF UintShl, Inst, IMD1, IMD3

\* Operands stay below the function code.
LEMMA OperandsLow ==
  ASSUME NEW rs1 \in SUBSET (0..3), NEW mid \in SUBSET (0..15), NEW rt \in SUBSET (0..3)
  PROVE  Operands(rs1, mid, rt) \in SUBSET (0..47)
<1>1. Placed(mid, 4) \subseteq 0..47 /\ Placed(rt, 20) \subseteq 0..47
  BY DEF Placed
<1>2. rs1 \subseteq 0..47
  OBVIOUS
<1> QED BY <1>1, <1>2 DEF Operands

\* The word of an operation with operands, of one of the three units that have such.
LEMMA OperandWord ==
  ASSUME NEW unit \in SUBSET (0..4), NEW n \in Nat, n < 2^11,
         NEW rs1 \in SUBSET (0..3), NEW mid \in SUBSET (0..15), NEW rt \in SUBSET (0..3), NEW i,
         i = Placed(unit, 59) \cup FuCode(n) \cup rs1 \cup Placed(mid, 4) \cup Placed(rt, 20)
  PROVE  Made(i, unit, Bits(n), Operands(rs1, mid, rt))
<1>1. i = Placed(unit, 59) \cup Placed(Bits(n), 48) \cup Operands(rs1, mid, rt)
  BY FuCodeIs DEF Operands
<1>2. Bits(n) \in SUBSET (0..10)
  BY FuCodeIs
<1> QED BY <1>1, <1>2, OperandsLow, WordParts

LEMMA OperandEncoders ==
  /\ \A op \in DOMAIN ArithCodes, r, s, t \in 0..15 :
       Made(ArithRRR(op, r, s, t), {}, Bits(ArithCodes[op]), Operands(Bits(r), Bits(s), Bits(t)))
  /\ \A op \in DOMAIN ArithCodes, r, t \in 0..15, w \in SUBSET (0..15) :
       Made(ArithRIR(op, r, w, t), {}, Bits(ArithCodes[op]), Operands(Bits(r), w, Bits(t)))
  /\ \A op \in DOMAIN ArithCodes, r, t \in 0..15 :
       Made(ArithRR(op, r, t), {}, Bits(ArithCodes[op]), Operands(Bits(r), {}, Bits(t)))
  /\ \A op \in DOMAIN BitwiseCodes, r, s, t \in 0..15 :
       Made(BitwiseRRR(op, r, s, t), {0}, Bits(BitwiseCodes[op]), Operands(Bits(r), Bits(s), Bits(t)))
  /\ \A op \in DOMAIN MemoryCodes, r, t \in 0..15, w \in SUBSET (0..15) :
       Made(Memory(op, r, w, t), {1}, Bits(MemoryCodes[op]), Operands(Bits(r), w, Bits(t)))
<1>1. /\ \A r \in 0..15 : Bits(r) \in SUBSET (0..3) /\ Bits(r) \in SUBSET (0..15)
      /\ {} \in SUBSET (0..15) /\ {} \in SUBSET (0..4) /\ {0} \in SUBSET (0..4) /\ {1} \in SUBSET (0..4)
  BY RegisterBits
<1>2. \A r, s \in 0..15 : Target(r) = Placed(Bits(r), 20) /\ Sources(r, s) = Placed(Bits(s), 4) \cup Bits(r)
  BY TargetIs, SourcesAre
<1>3. \A w \in SUBSET (0..15) : UintShl(w, IMD1) = Placed(w, 4) /\ IntShl(w, IMD1) = Placed(w, 4)
  BY ImmediateIs
<1>4. ASSUME NEW op \in DOMAIN ArithCodes, NEW r \in 0..15, NEW s \in 0..15, NEW t \in 0..15
      PROVE  Made(ArithRRR(op, r, s, t), {}, Bits(ArithCodes[op]), Operands(Bits(r), Bits(s), Bits(t)))
  <2>1. ArithRRR(op, r, s, t) = Placed({}, 59) \cup FuCode(ArithCodes[op]) \cup Bits(r)
                                  \cup Placed(Bits(s), 4) \cup Placed(Bits(t), 20)
    BY <1>2, UnitIs DEF ArithRRR
  <2> QED BY <1>1, <2>1, CodesFit, OperandWord
<1>5. ASSUME NEW op \in DOMAIN ArithCodes, NEW r \in 0..15, NEW t \in 0..15, NEW w \in SUBSET (0..15)
      PROVE  Made(ArithRIR(op, r, w, t), {}, Bits(ArithCodes[op]), Operands(Bits(r), w, Bits(t)))
  <2>1. ArithRIR(op, r, w, t) = Placed({}, 59) \cup FuCode(ArithCodes[op]) \cup Bits(r)
                                  \cup Placed(w, 4) \cup Placed(Bits(t), 20)
    BY <1>2, <1>3, UnitIs DEF ArithRIR
  <2> QED BY <1>1, <2>1, CodesFit, OperandWord
<1>6. ASSUME NEW op \in DOMAIN ArithCodes, NEW r \in 0..15, NEW t \in 0..15
      PROVE  Made(ArithRR(op, r, t), {}, Bits(ArithCodes[op]), Operands(Bits(r), {}, Bits(t)))
  <2>1. Placed({}, 4) = {}
    BY DEF Placed
  <2>2. ArithRR(op, r, t) = Placed({}, 59) \cup FuCode(ArithCodes[op]) \cup Bits(r)
                              \cup Placed({}, 4) \cup Placed(Bits(t), 20)
    BY <1>2, <2>1, UnitIs DEF ArithRR
  <2> QED BY <1>1, <2>2, CodesFit, OperandWord
<1>7. ASSUME NEW op \in DOMAIN BitwiseCodes, NEW r \in 0..15, NEW s \in 0..15, NEW t \in 0..15
      PROVE  Made(BitwiseRRR(op, r, s, t), {0}, Bits(BitwiseCodes[op]), Operands(Bits(r), Bits(s), Bits(t)))
  <2>1. BitwiseRRR(op, r, s, t) = Placed({0}, 59) \cup FuCode(BitwiseCodes[op]) \cup Bits(r)
                                    \cup Placed(Bits(s), 4) \cup Placed(Bits(t), 20)
    BY <1>2, UnitIs DEF BitwiseRRR
  <2> QED BY <1>1, <2>1, CodesFit, OperandWord
<1>8. ASSUME NEW op \in DOMAIN MemoryCodes, NEW r \in 0..15, NEW t \in 0..15, NEW w \in SUBSET (0..15)
      PROVE  Made(Memory(op, r, w, t), {1}, Bits(MemoryCodes[op]), Operands(Bits(r), w, Bits(t)))
  <2>1. Memory(op, r, w, t) = Placed({1}, 59) \cup FuCode(MemoryCodes[op]) \cup Bits(r)
                                \cup Placed(w, 4) \cup Placed(Bits(t), 20)
    BY <1>2, <1>3, UnitIs DEF Memory
  <2> QED BY <1>1, <2>1, CodesFit, OperandWord
<1> QED BY <1>4, <1>5, <1>6, <1>7, <1>8

\* LI has the halves of its immediate in two fields.
LEMMA LoadImmediate ==
  ASSUME NEW t \in 0..15, NEW w \in SUBSET (0..31)
  PROVE  LET i == SMC_LI(w, t)
         IN  /\ \E low : Made(i, {}, Bits(ArithCodes.LI), low)
             /\ imd_concatOf(i) = w /\ Field(i, RT, 4) = Bits(t)
<1> DEFINE i   == SMC_LI(w, t)
           lo  == {b \in w : b <= 15}
           hi  == Shr(w, 16)
           low == Placed(lo, 4) \cup Placed(hi, 24) \cup Placed(Bits(t), 20)
<1>1. lo \in SUBSET (0..15) /\ hi \in SUBSET (0..15)
  <2>1. \A b \in w : b <= 15 => b \in 0..15
    OBVIOUS
  <2>2. \A b \in w : b >= 16 => b - 16 \in 0..15
    OBVIOUS
  <2> QED BY <2>1, <2>2 DEF Shr
<1>2. Shr(Shl(w, 16, 32), 16) = lo
  <2>1. \A b \in 0..15 : b \in w <=> b + 16 \in Shl(w, 16, 32)
    <3>1. \A b \in 0..15 : b \in w => b + 16 \in Shl(w, 16, 32)
      BY DEF Shl
    <3>2. ASSUME NEW b \in 0..15, b + 16 \in Shl(w, 16, 32) PROVE b \in w
      <4>1. PICK c \in w : b + 16 = c + 16
        BY <3>2 DEF Shl
      <4>2. c = b
        BY <4>1
      <4> QED BY <4>2
    <3> QED BY <3>1, <3>2
  <2>2. \A c \in Shl(w, 16, 32) : c \in 16..31
    BY DEF Shl
  <2>3. Shl(w, 16, 32) \in SUBSET Int
    BY <2>2
  <2>4. Shr(Shl(w, 16, 32), 16) \subseteq 0..15
    BY <2>2 DEF Shr
  <2>5. \A b \in 0..15 : b \in Shr(Shl(w, 16, 32), 16) <=> b + 16 \in Shl(w, 16, 32)
    <3>1. ASSUME NEW b \in 0..15, b + 16 \in Shl(w, 16, 32) PROVE b \in Shr(Shl(w, 16, 32), 16)
      <4>1. b + 16 >= 16 /\ b = (b + 16) - 16
        OBVIOUS
      <4> QED BY <3>1, <4>1 DEF Shr
    <3>2. ASSUME NEW b \in 0..15, b \in Shr(Shl(w, 16, 32), 16) PROVE b + 16 \in Shl(w, 16, 32)
      <4>1. PICK c \in Shl(w, 16, 32) : c >= 16 /\ b = c - 16
        BY <3>2 DEF Shr
      <4>2. c = b + 16
        BY <2>3, <4>1
      <4> QED BY <4>2
    <3> QED BY <3>1, <3>2
  <2>6. \A b \in 0..15 : b \in lo <=> b \in w
    OBVIOUS
  <2> DEFINE back == Shr(Shl(w, 16, 32), 16)
  <2>7. \A b \in 0..15 : b \in back <=> b \in lo
    BY <2>1, <2>5, <2>6
  <2>8. back \subseteq 0..15
    BY <2>4
  <2> HIDE DEF back, lo
  <2>9. back = lo
    BY <1>1, <2>7, <2>8
  <2> QED BY <2>9 DEF back
<1>3. \A x \in Int : x \in Placed(lo, 4) <=> x - 4 \in lo
  BY <1>1, PlacedHas
<1>4. \A x \in Int : x \in Placed(hi, 24) <=> x - 24 \in hi
  BY <1>1, PlacedHas
<1>5. Bits(t) \in SUBSET (0..3)
  BY RegisterBits
<1>6. \A x \in Int : x \in Placed(Bits(t), 20) <=> x - 20 \in Bits(t)
  BY <1>5, PlacedHas
<1>7. ASSUME NEW b \in 0..15 PROVE b \in hi <=> b + 16 \in w
  <2>1. ASSUME b + 16 \in w PROVE b \in hi
    <3>1. b + 16 >= 16 /\ b = (b + 16) - 16
      OBVIOUS
    <3> QED BY <2>1, <3>1 DEF Shr
  <2>2. ASSUME b \in hi PROVE b + 16 \in w
    <3>1. PICK c \in w : c >= 16 /\ b = c - 16
      BY <2>2 DEF Shr
    <3>2. c = b + 16
      BY <3>1
    <3> QED BY <3>2
  <2> QED BY <2>1, <2>2
<1>8. ASSUME NEW b \in 0..15 PROVE b \in lo <=> b \in w
  OBVIOUS
<1> HIDE DEF lo, hi
<1>9. i = Placed({}, 59) \cup FuCode(ArithCodes.LI) \cup low
  <2>1. Target(t) = Placed(Bits(t), 20)
    BY TargetIs
  <2>2. UintShl(lo, IMD1) = Placed(lo, 4) /\ Inst(hi, IMD3) = Placed(hi, 24)
    BY <1>1, ImmediateIs
  <2>3. i = FuCode(ArithCodes.LI) \cup UintShl(lo, IMD1) \cup Inst(hi, IMD3) \cup Target(t)
    BY <1>2 DEF SMC_LI, hi
  <2> QED BY <2>1, <2>2, <2>3, UnitIs
<1>10. \A x \in Int : x \in low <=> x - 4 \in lo \/ x - 24 \in hi \/ x - 20 \in Bits(t)
  BY <1>3, <1>4, <1>6
<1>11. low \in SUBSET (0..47)
  BY <1>1, <1>5 DEF Placed
<1> HIDE DEF low
<1>12. Made(i, {}, Bits(ArithCodes.LI), low)
  <2>0. "LI" \in DOMAIN ArithCodes
    BY DEF ArithCodes
  <2>1. ArithCodes["LI"] \in Nat /\ ArithCodes["LI"] < 2^11
    BY <2>0, CodesFit
  <2>2. FuCode(ArithCodes.LI) = Placed(Bits(ArithCodes.LI), 48) /\ Bits(ArithCodes.LI) \in SUBSET (0..10)
    BY <2>1, FuCodeIs
  <2>3. {} \in SUBSET (0..4)
    OBVIOUS
  <2> HIDE DEF i
  <2> QED BY <1>9, <1>11, <2>2, <2>3, WordParts
<1> HIDE DEF i
<1>13. Field(i, 20, 4) = Bits(t)
  <2>1. ASSUME NEW b \in 0..3 PROVE b + 20 \in low <=> b \in Bits(t)
    <3>1. b + 20 \in Int /\ (b + 20) - 20 = b /\ (b + 20) - 4 \notin 0..15 /\ (b + 20) - 24 \notin 0..15
      OBVIOUS
    <3> QED BY <1>1, <1>10, <3>1
  <2>2. HasField(low, 20, 4, Bits(t))
    BY <1>5, <2>1 DEF HasField
  <2> QED BY <1>12, <2>2, LowField
<1>14. Field(i, 4, 16) = lo
  <2>1. ASSUME NEW b \in 0..15 PROVE b + 4 \in low <=> b \in lo
    <3>1. b + 4 \in Int /\ (b + 4) - 4 = b /\ (b + 4) - 20 \notin 0..3 /\ (b + 4) - 24 \notin 0..15
      OBVIOUS
    <3> QED BY <1>1, <1>5, <1>10, <3>1
  <2>2. HasField(low, 4, 16, lo)
    BY <1>1, <2>1 DEF HasField
  <2> QED BY <1>12, <2>2, LowField
<1>15. Field(i, 24, 16) = hi
  <2>1. ASSUME NEW b \in 0..15 PROVE b + 24 \in low <=> b \in hi
    <3>1. b + 24 \in Int /\ (b + 24) - 24 = b /\ (b + 24) - 20 \notin 0..3 /\ (b + 24) - 4 \notin 0..15
      OBVIOUS
    <3> QED BY <1>1, <1>5, <1>10, <3>1
  <2>2. HasField(low, 24, 16, hi)
    BY <1>1, <2>1 DEF HasField
  <2> QED BY <1>12, <2>2, LowField
<1>16. Shl(hi, 16, 64) \cup lo = w
  <2>1. Shl(hi, 16, 64) = Placed(hi, 16)
    <3>1. hi \subseteq 0..15 /\ 15 + 16 < 64
      BY <1>1
    <3> QED BY <3>1, ShiftPlaces
  <2>2. \A x \in Int : x \in Placed(hi, 16) <=> x - 16 \in hi
    BY <1>1, PlacedHas
  <2>3. Placed(hi, 16) \subseteq 16..31
    BY <1>1 DEF Placed
  <2>4. ASSUME NEW x \in 16..31 PROVE x \in Placed(hi, 16) <=> x \in w
    <3>1. x - 16 \in 0..15 /\ (x - 16) + 16 = x /\ x \in Int
      OBVIOUS
    <3> QED BY <1>7, <2>2, <3>1
  <2>5. \A x \in w : x \in 0..15 \/ x \in 16..31
    OBVIOUS
  <2>6. \A x : x \in Placed(hi, 16) \cup lo <=> x \in w
    BY <1>1, <1>8, <2>3, <2>4, <2>5
  <2> QED BY <2>1, <2>6
<1>17. imd_concatOf(i) = w
  BY <1>14, <1>15, <1>16 DEF imd_concatOf, imd1Of, IMD1, IMD3
<1> QED BY <1>12, <1>13, <1>17 DEF RT, i

\* The words of the conditional branches, and their operands.
BranchWord(i, op, r, s, tgt) ==
  /\ r \in 0..15 /\ s \in 0..15 /\ tgt \in Nat /\ tgt < 2^19 /\ op \in {"BL", "BEQ"}
  /\ i = {IS_BR} \cup FuCode(BranchCodes[op]) \cup Sources(r, s) \cup Inst(Bits(tgt), BR_TGT)

LEMMA BranchWords ==
  ASSUME NEW r, NEW s, NEW tgt, NEW op, NEW i, BranchWord(i, op, r, s, tgt)
  PROVE  /\ \E low : Made(i, {3}, Bits(BranchCodes[op]), low)
         /\ Field(i, 0, 4) = Bits(r) /\ Field(i, 4, 4) = Bits(s) /\ Field(i, 8, 19) = Bits(tgt)
<1> DEFINE low == Bits(r) \cup Placed(Bits(s), 4) \cup Placed(Bits(tgt), 8)
<1>0. r \in 0..15 /\ s \in 0..15 /\ tgt \in Nat /\ tgt < 2^19 /\ op \in {"BL", "BEQ"}
  BY DEF BranchWord
<1>1. Bits(r) \in SUBSET (0..3) /\ Bits(s) \in SUBSET (0..3) /\ Bits(tgt) \in SUBSET (0..18)
  BY <1>0, RegisterBits, LabelBits
<1>2. \A x \in Int : x \in Placed(Bits(s), 4) <=> x - 4 \in Bits(s)
  BY <1>1, PlacedHas
<1>3. \A x \in Int : x \in Placed(Bits(tgt), 8) <=> x - 8 \in Bits(tgt)
  BY <1>1, PlacedHas
<1>4. \A x \in Int : x \in low <=> x \in Bits(r) \/ x - 4 \in Bits(s) \/ x - 8 \in Bits(tgt)
  BY <1>2, <1>3
<1>5. low \in SUBSET (0..47)
  <2>1. Placed(Bits(s), 4) \subseteq 0..47 /\ Placed(Bits(tgt), 8) \subseteq 0..47
    BY <1>1 DEF Placed
  <2>2. Bits(r) \subseteq 0..47
    BY <1>1
  <2> QED BY <2>1, <2>2
<1>6. i = Placed({3}, 59) \cup FuCode(BranchCodes[op]) \cup low
  <2>1. Inst(Bits(tgt), BR_TGT) = Placed(Bits(tgt), 8)
    <3>1. Bits(tgt) \subseteq 0..18 /\ 18 + 8 < 64
      BY <1>1
    <3> QED BY <3>1, ShiftPlaces DEF Inst, BR_TGT
  <2> QED BY <1>0, <2>1, SourcesAre, UnitIs DEF BranchWord
<1> HIDE DEF low
<1>7. Made(i, {3}, Bits(BranchCodes[op]), low)
  <2>1. op \in DOMAIN BranchCodes
    BY <1>0 DEF BranchCodes
  <2>2. BranchCodes[op] \in Nat /\ BranchCodes[op] < 2^11
    BY <2>1, CodesFit
  <2>3. FuCode(BranchCodes[op]) = Placed(Bits(BranchCodes[op]), 48) /\ Bits(BranchCodes[op]) \in SUBSET (0..10)
    BY <2>2, FuCodeIs
  <2>4. {3} \in SUBSET (0..4)
    OBVIOUS
  <2> QED BY <1>5, <1>6, <2>3, <2>4, WordParts
<1>8. Field(i, 0, 4) = Bits(r)
  <2>1. ASSUME NEW b \in 0..3 PROVE b + 0 \in low <=> b \in Bits(r)
    <3>1. b + 0 = b /\ b \in Int /\ b - 4 \notin 0..3 /\ b - 8 \notin 0..18
      OBVIOUS
    <3> QED BY <1>1, <1>4, <3>1
  <2>2. HasField(low, 0, 4, Bits(r))
    BY <1>1, <2>1 DEF HasField
  <2> QED BY <1>7, <2>2, LowField
<1>9. Field(i, 4, 4) = Bits(s)
  <2>1. ASSUME NEW b \in 0..3 PROVE b + 4 \in low <=> b \in Bits(s)
    <3>1. b + 4 \in Int /\ (b + 4) - 4 = b /\ b + 4 \notin 0..3 /\ (b + 4) - 8 \notin 0..18
      OBVIOUS
    <3> QED BY <1>1, <1>4, <3>1
  <2>2. HasField(low, 4, 4, Bits(s))
    BY <1>1, <2>1 DEF HasField
  <2> QED BY <1>7, <2>2, LowField
<1>10. Field(i, 8, 19) = Bits(tgt)
  <2>1. ASSUME NEW b \in 0..18 PROVE b + 8 \in low <=> b \in Bits(tgt)
    <3>1. b + 8 \in Int /\ (b + 8) - 8 = b /\ b + 8 \notin 0..3 /\ (b + 8) - 4 \notin 0..3
      OBVIOUS
    <3> QED BY <1>1, <1>4, <3>1
  <2>2. HasField(low, 8, 19, Bits(tgt))
    BY <1>1, <2>1 DEF HasField
  <2> QED BY <1>7, <2>2, LowField
<1> QED BY <1>7, <1>8, <1>9, <1>10

\* Words with one number in their low bits.
LEMMA NumberWords ==
  ASSUME NEW n \in Nat
  PROVE  /\ Made({IS_BR} \cup FuCode(BranchCodes.JUMP) \cup Bits(n), {3}, Bits(BranchCodes.JUMP), Bits(n))
         /\ Made({IS_BR} \cup FuCode(BranchCodes.SLEEP) \cup Bits(n), {3}, Bits(BranchCodes.SLEEP), Bits(n))
         /\ Made(SMC_INFO(n), {2}, {}, Bits(n))
<1>1. Bits(n) \in SUBSET (0..47)
  BY DEF Bits
<1>2. ASSUME NEW op \in {"JUMP", "SLEEP"}
      PROVE  Made({IS_BR} \cup FuCode(BranchCodes[op]) \cup Bits(n), {3}, Bits(BranchCodes[op]), Bits(n))
  <2>1. op \in DOMAIN BranchCodes
    BY DEF BranchCodes
  <2>2. BranchCodes[op] \in Nat /\ BranchCodes[op] < 2^11
    BY <2>1, CodesFit
  <2>3. FuCode(BranchCodes[op]) = Placed(Bits(BranchCodes[op]), 48) /\ Bits(BranchCodes[op]) \in SUBSET (0..10)
    BY <2>2, FuCodeIs
  <2>4. {3} \in SUBSET (0..4)
    OBVIOUS
  <2>5. {IS_BR} \cup FuCode(BranchCodes[op]) \cup Bits(n)
          = Placed({3}, 59) \cup Placed(Bits(BranchCodes[op]), 48) \cup Bits(n)
    BY <2>3, UnitIs
  <2> QED BY <1>1, <2>3, <2>4, <2>5, WordParts
<1>3. Made(SMC_INFO(n), {2}, {}, Bits(n))
  <2>1. Placed({}, 48) = {} /\ {2} \in SUBSET (0..4) /\ {} \in SUBSET (0..10)
    BY DEF Placed
  <2>2. SMC_INFO(n) = Placed({2}, 59) \cup Placed({}, 48) \cup Bits(n)
    BY <2>1, UnitIs DEF SMC_INFO
  <2> QED BY <1>1, <2>1, <2>2, WordParts
<1> QED BY <1>2, <1>3

\* The two operations without operands besides END.
LEMMA RefreshWords ==
  ASSUME NEW op \in {"SRE", "SRX"}
  PROVE  Made(SelfRefresh(op), {}, Bits(ArithCodes[op]), {})
<1>1. op \in DOMAIN ArithCodes
  BY DEF ArithCodes
<1>2. ArithCodes[op] \in Nat /\ ArithCodes[op] < 2^11
  BY <1>1, CodesFit
<1>3. FuCode(ArithCodes[op]) = Placed(Bits(ArithCodes[op]), 48) /\ Bits(ArithCodes[op]) \in SUBSET (0..10)
  BY <1>2, FuCodeIs
<1>4. 8 \in Bits(ArithCodes[op])
  <2>1. ArithCodes[op] = 256 \/ ArithCodes[op] = 257
    BY DEF ArithCodes
  <2>2. 2^8 = 256
    BY SMT
  <2>3. (256 \div 256) % 2 = 1 /\ (257 \div 256) % 2 = 1
    BY SMT
  <2>4. (ArithCodes[op] \div 2^8) % 2 = 1
    BY <2>1, <2>2, <2>3
  <2>5. 8 \in 0..30
    OBVIOUS
  <2> QED BY <2>4, <2>5, Zenon DEF Bits
<1>5. 56 \in Placed(Bits(ArithCodes[op]), 48)
  <2>1. 56 = 8 + 48
    OBVIOUS
  <2> QED BY <1>4, <2>1 DEF Placed
<1>6. SelfRefresh(op) = Placed({}, 59) \cup Placed(Bits(ArithCodes[op]), 48) \cup {}
  BY <1>3, <1>5, UnitIs DEF SelfRefresh
<1>7. {} \in SUBSET (0..4) /\ {} \in SUBSET (0..47)
  OBVIOUS
<1> QED BY <1>3, <1>6, <1>7, WordParts

-----------------------------------------------------------------------------
(* decode_inst reads back what was encoded *)

\* Only ADD has a word without bits in this unit.
LEMMA NotEnd ==
  ASSUME NEW op \in DOMAIN ArithCodes, NEW i, NEW low, Made(i, {}, Bits(ArithCodes[op]), low), i = {}
  PROVE  ArithCodes[op] = 0
<1>1. FunctionCode(i) = {}
  BY DEF FunctionCode, Shr
<1>2. Bits(ArithCodes[op]) = Bits(0)
  BY <1>1, CodeBits DEF Made
<1>3. ArithCodes[op] \in Positive /\ 0 \in Positive
  <2>1. 0 < 2^11
    BY SMT
  <2> QED BY <2>1, CodesFit, CodesArePositive
<1> QED BY <1>2, <1>3, BitsTell

\* What is read back of the operands of a word.
LEMMA OperandsRead ==
  /\ \A i, unit, code : \A r, s, t \in 0..15 :
       Made(i, unit, code, Operands(Bits(r), Bits(s), Bits(t))) => rs1Of(i) = r /\ rs2Of(i) = s /\ rtOf(i) = t
  /\ \A i, unit, code : \A r, t \in 0..15, w \in SUBSET (0..15) :
       Made(i, unit, code, Operands(Bits(r), w, Bits(t))) => rs1Of(i) = r /\ imd1Of(i) = w /\ rtOf(i) = t
<1>1. \A r \in 0..15 : /\ Bits(r) \in SUBSET (0..3) /\ Bits(r) \in SUBSET (0..15)
                       /\ Bits(r) \subseteq 0..3 /\ Value(Bits(r)) = r
  BY RegisterBits
<1>2. ASSUME NEW i, NEW unit, NEW code, NEW r \in 0..15, NEW s \in 0..15, NEW t \in 0..15,
             Made(i, unit, code, Operands(Bits(r), Bits(s), Bits(t)))
      PROVE  rs1Of(i) = r /\ rs2Of(i) = s /\ rtOf(i) = t
  <2>1. Field(i, 0, 4) = Bits(r) /\ Field(i, 20, 4) = Bits(t) /\ Field(i, 4, 4) = Bits(s)
    BY <1>1, <1>2, OperandFields
  <2> QED BY <1>1, <2>1 DEF rs1Of, rs2Of, rtOf, RS2, RT
<1>3. ASSUME NEW i, NEW unit, NEW code, NEW r \in 0..15, NEW t \in 0..15, NEW w \in SUBSET (0..15),
             Made(i, unit, code, Operands(Bits(r), w, Bits(t)))
      PROVE  rs1Of(i) = r /\ imd1Of(i) = w /\ rtOf(i) = t
  <2>1. Field(i, 0, 4) = Bits(r) /\ Field(i, 20, 4) = Bits(t) /\ Field(i, 4, 16) = w
    BY <1>1, <1>3, OperandFields
  <2> QED BY <1>1, <2>1 DEF rs1Of, imd1Of, rtOf, IMD1, RT
<1> QED BY <1>2, <1>3

LEMMA ThreeRegisters ==
  ASSUME NEW c \in [op : {"ADD", "SUB", "AND", "OR", "XOR"}, rs1 : Registers, rs2 : Registers, rt : Registers],
         ~IsEnd(c)
  PROVE  LET i == Encode(c)
         IN  [op |-> Operation(i), rs1 |-> rs1Of(i), rs2 |-> rs2Of(i), rt |-> rtOf(i)] = c
<1> DEFINE i == Encode(c)
           below == Operands(Bits(c.rs1), Bits(c.rs2), Bits(c.rt))
<1>1. c.rs1 \in 0..15 /\ c.rs2 \in 0..15 /\ c.rt \in 0..15
  BY OperandsAssumption
<1>2. c = [op |-> c.op, rs1 |-> c.rs1, rs2 |-> c.rs2, rt |-> c.rt]
  OBVIOUS
<1>3. CASE c.op \in {"ADD", "SUB"}
  <2>1. c.op \in DOMAIN ArithCodes
    BY <1>3 DEF ArithCodes
  <2>2. i = ArithRRR(c.op, c.rs1, c.rs2, c.rt)
    BY <1>3 DEF Encode
  <2>3. Made(i, {}, Bits(ArithCodes[c.op]), below)
    BY <1>1, <2>1, <2>2, OperandEncoders
  <2> HIDE DEF i
  <2>4. rs1Of(i) = c.rs1 /\ rs2Of(i) = c.rs2 /\ rtOf(i) = c.rt
    BY <1>1, <2>3, OperandsRead
  <2>5. i # {}
    <3> SUFFICES ASSUME i = {} PROVE FALSE
      OBVIOUS
    <3>1. c.op = "ADD"
      BY <1>3, <2>1, <2>3, NotEnd DEF ArithCodes
    <3>2. \A at, width : Field({}, at, width) = {}
      BY DEF Field, Shr
    <3>3. Value({}) = 0
      BY CodeBits, RegisterBits
    <3>4. c.rs1 = 0 /\ c.rs2 = 0 /\ c.rt = 0
      BY <2>4, <3>2, <3>3 DEF rs1Of, rs2Of, rtOf
    <3> QED BY <1>2, <3>1, <3>4 DEF IsEnd
  <2>6. Operation(i) = c.op
    BY <2>1, <2>3, <2>5, OperationIs
  <2> QED BY <1>2, <2>4, <2>6 DEF i
<1>4. CASE c.op \in {"AND", "OR", "XOR"}
  <2>1. c.op \in DOMAIN BitwiseCodes
    BY <1>4 DEF BitwiseCodes
  <2>2. i = BitwiseRRR(c.op, c.rs1, c.rs2, c.rt)
    BY <1>4 DEF Encode
  <2>3. Made(i, {0}, Bits(BitwiseCodes[c.op]), below)
    BY <1>1, <2>1, <2>2, OperandEncoders
  <2> HIDE DEF i
  <2>4. rs1Of(i) = c.rs1 /\ rs2Of(i) = c.rs2 /\ rtOf(i) = c.rt
    BY <1>1, <2>3, OperandsRead
  <2>6. Operation(i) = c.op
    BY <2>1, <2>3, OperationIs
  <2> QED BY <1>2, <2>4, <2>6 DEF i
<1> QED BY <1>3, <1>4

LEMMA WithImmediate ==
  ASSUME NEW c \in [op : {"ADDI", "SUBI"}, rs1 : Registers, imd : Halves, rt : Registers]
                     \cup [op : {"LD", "ST"}, rs1 : Registers, imd : Offsets, rt : Registers]
  PROVE  LET i == Encode(c)
         IN  [op |-> Operation(i), rs1 |-> rs1Of(i), imd |-> imd1Of(i), rt |-> rtOf(i)] = c
<1> DEFINE i == Encode(c)
           below == Operands(Bits(c.rs1), c.imd, Bits(c.rt))
<1>1. c.rs1 \in 0..15 /\ c.imd \in SUBSET (0..15) /\ c.rt \in 0..15
  BY OperandsAssumption
<1>2. c = [op |-> c.op, rs1 |-> c.rs1, imd |-> c.imd, rt |-> c.rt]
  OBVIOUS
<1>3. CASE c.op \in {"ADDI", "SUBI"}
  <2>1. c.op \in DOMAIN ArithCodes /\ ArithCodes[c.op] # 0
    BY <1>3 DEF ArithCodes
  <2>2. i = ArithRIR(c.op, c.rs1, c.imd, c.rt)
    BY <1>3 DEF Encode
  <2>3. Made(i, {}, Bits(ArithCodes[c.op]), below)
    BY <1>1, <2>1, <2>2, OperandEncoders
  <2> HIDE DEF i
  <2>4. rs1Of(i) = c.rs1 /\ imd1Of(i) = c.imd /\ rtOf(i) = c.rt
    BY <1>1, <2>3, OperandsRead
  <2>5. i # {}
    BY <2>1, <2>3, NotEnd
  <2>6. Operation(i) = c.op
    BY <2>1, <2>3, <2>5, OperationIs
  <2> QED BY <1>2, <2>4, <2>6 DEF i
<1>4. CASE c.op \in {"LD", "ST"}
  <2>1. c.op \in DOMAIN MemoryCodes
    BY <1>4 DEF MemoryCodes
  <2>2. i = Memory(c.op, c.rs1, c.imd, c.rt)
    BY <1>4 DEF Encode
  <2>3. Made(i, {1}, Bits(MemoryCodes[c.op]), below)
    BY <1>1, <2>1, <2>2, OperandEncoders
  <2> HIDE DEF i
  <2>4. rs1Of(i) = c.rs1 /\ imd1Of(i) = c.imd /\ rtOf(i) = c.rt
    BY <1>1, <2>3, OperandsRead
  <2>6. Operation(i) = c.op
    BY <2>1, <2>3, OperationIs
  <2> QED BY <1>2, <2>4, <2>6 DEF i
<1> QED BY <1>3, <1>4

LEMMA TwoRegisters ==
  ASSUME NEW c \in [op : {"MV", "SRC", "LDWD"}, rs1 : Registers, rt : Registers]
                     \cup [op : {"LDPC"}, rs1 : 0..6, rt : Registers]
  PROVE  LET i == Encode(c) IN [op |-> Operation(i), rs1 |-> rs1Of(i), rt |-> rtOf(i)] = c
<1> DEFINE i == Encode(c)
           below == Operands(Bits(c.rs1), {}, Bits(c.rt))
<1>1. c.rs1 \in 0..15 /\ c.rt \in 0..15
  <2>1. 0..6 \subseteq 0..15
    OBVIOUS
  <2>2. c.rs1 \in Registers \cup 0..6 /\ c.rt \in Registers
    OBVIOUS
  <2> QED BY <2>1, <2>2, OperandsAssumption
<1>2. c = [op |-> c.op, rs1 |-> c.rs1, rt |-> c.rt] /\ c.op \in {"MV", "SRC", "LDWD", "LDPC"}
  OBVIOUS
<1>3. c.op \in DOMAIN ArithCodes /\ ArithCodes[c.op] # 0
  BY <1>2 DEF ArithCodes
<1>4. i = ArithRR(c.op, c.rs1, c.rt)
  BY <1>2 DEF Encode
<1>5. Made(i, {}, Bits(ArithCodes[c.op]), below)
  BY <1>1, <1>3, <1>4, OperandEncoders
<1> HIDE DEF i
<1>6. rs1Of(i) = c.rs1 /\ rtOf(i) = c.rt
  <2>1. PICK w \in SUBSET (0..15) : w = {}
    OBVIOUS
  <2>2. Made(i, {}, Bits(ArithCodes[c.op]), Operands(Bits(c.rs1), w, Bits(c.rt)))
    BY <1>5, <2>1
  <2> QED BY <1>1, <2>2, OperandsRead
<1>7. i # {}
  BY <1>3, <1>5, NotEnd
<1>8. Operation(i) = c.op
  BY <1>3, <1>5, <1>7, OperationIs
<1> QED BY <1>2, <1>6, <1>8 DEF i

LEMMA LongImmediate ==
  ASSUME NEW c \in [op : {"LI"}, imd : Immediates, rt : Registers]
  PROVE  LET i == Encode(c) IN [op |-> Operation(i), imd |-> imd_concatOf(i), rt |-> rtOf(i)] = c
<1> DEFINE i == Encode(c)
<1>1. c.imd \in SUBSET (0..31) /\ c.rt \in 0..15
  BY OperandsAssumption
<1>2. c = [op |-> "LI", imd |-> c.imd, rt |-> c.rt]
  OBVIOUS
<1>3. i = SMC_LI(c.imd, c.rt)
  BY <1>2 DEF Encode
<1>4. PICK low : Made(i, {}, Bits(ArithCodes["LI"]), low)
  BY <1>1, <1>3, LoadImmediate
<1>5. imd_concatOf(i) = c.imd /\ Field(i, RT, 4) = Bits(c.rt)
  BY <1>1, <1>3, LoadImmediate
<1>6. rtOf(i) = c.rt
  BY <1>1, <1>5, RegisterBits DEF rtOf
<1>7. "LI" \in DOMAIN ArithCodes /\ ArithCodes["LI"] # 0
  BY DEF ArithCodes
<1> HIDE DEF i
<1>8. Operation(i) = "LI"
  BY <1>4, <1>7, NotEnd, OperationIs
<1> QED BY <1>2, <1>5, <1>6, <1>8 DEF i

LEMMA Branches ==
  ASSUME NEW c \in [op : {"BL", "BEQ"}, rs1 : Registers, rs2 : Registers, tgt : Targets]
  PROVE  LET i == Encode(c)
         IN  [op |-> Operation(i), rs1 |-> rs1Of(i), rs2 |-> rs2Of(i), tgt |-> btOf(i)] = c
<1> DEFINE i == Encode(c)
<1>1. c.rs1 \in 0..15 /\ c.rs2 \in 0..15
  BY OperandsAssumption
<1>2. c.tgt \in Nat /\ c.tgt < 2^19
  <2>1. c.tgt \in 0..(2^19 - 1)
    BY OperandsAssumption
  <2>2. PICK m \in Nat : m = 2^19
    BY SMT
  <2> QED BY <2>1, <2>2
<1>3. c = [op |-> c.op, rs1 |-> c.rs1, rs2 |-> c.rs2, tgt |-> c.tgt] /\ c.op \in {"BL", "BEQ"}
  OBVIOUS
<1>4. i = {IS_BR} \cup FuCode(BranchCodes[c.op]) \cup Sources(c.rs1, c.rs2) \cup Inst(Bits(c.tgt), BR_TGT)
  <2>1. i = IF c.op = "BL" THEN SMC_BL(c.rs1, c.rs2, c.tgt) ELSE SMC_BEQ(c.rs1, c.rs2, c.tgt)
    BY <1>3 DEF Encode
  <2> HIDE DEF i
  <2> QED BY <1>3, <2>1 DEF SMC_BL, SMC_BEQ
<1> HIDE DEF i
<1>5. /\ \E low : Made(i, {3}, Bits(BranchCodes[c.op]), low)
      /\ Field(i, 0, 4) = Bits(c.rs1) /\ Field(i, 4, 4) = Bits(c.rs2) /\ Field(i, 8, 19) = Bits(c.tgt)
  <2>1. BranchWord(i, c.op, c.rs1, c.rs2, c.tgt)
    BY <1>1, <1>2, <1>3, <1>4 DEF BranchWord
  <2> QED BY <2>1, BranchWords
<1>6. PICK low : Made(i, {3}, Bits(BranchCodes[c.op]), low)
  BY <1>5
<1>7. rs1Of(i) = c.rs1 /\ rs2Of(i) = c.rs2
  BY <1>1, <1>5, RegisterBits DEF rs1Of, rs2Of, RS2
<1>8. btOf(i) = c.tgt
  BY <1>2, <1>5, CodesArePositive, ValueOfBits DEF btOf, BR_TGT
<1>9. Operation(i) = c.op
  <2>1. c.op \in DOMAIN BranchCodes
    BY <1>3 DEF BranchCodes
  <2> QED BY <1>6, <2>1, OperationIs
<1> QED BY <1>3, <1>7, <1>8, <1>9 DEF i

\* The low bits of the word of a number are its bits.
LEMMA NumberIsRead ==
  ASSUME NEW n \in Nat, NEW i, NEW unit, NEW code, Made(i, unit, code, Bits(n))
  PROVE  /\ n < 2^19 => Field(i, 0, 27) = Bits(n)
         /\ Field(i, 0, 32) = Bits(n)
<1>1. ASSUME n < 2^19 PROVE Field(i, 0, 27) = Bits(n)
  <2>1. Bits(n) \subseteq 0..18
    BY <1>1, LabelBits
  <2>2. HasField(Bits(n), 0, 27, Bits(n))
    BY <2>1 DEF HasField
  <2> QED BY <2>2, LowField
<1>2. Field(i, 0, 32) = Bits(n)
  <2>1. Bits(n) \subseteq 0..30
    BY DEF Bits
  <2>2. HasField(Bits(n), 0, 32, Bits(n))
    BY <2>1 DEF HasField
  <2> QED BY <2>2, LowField
<1> QED BY <1>1, <1>2

LEMMA Jumps ==
  ASSUME NEW c \in [op : {"JUMP"}, tgt : Targets]
  PROVE  LET i == Encode(c) IN [op |-> Operation(i), tgt |-> jtOf(i)] = c
<1> DEFINE i == Encode(c)
<1>1. c.tgt \in Nat /\ c.tgt < 2^19
  <2>1. c.tgt \in 0..(2^19 - 1)
    BY OperandsAssumption
  <2>2. PICK m \in Nat : m = 2^19
    BY SMT
  <2> QED BY <2>1, <2>2
<1>2. c = [op |-> "JUMP", tgt |-> c.tgt]
  OBVIOUS
<1>3. i = SMC_JUMP(c.tgt)
  BY <1>2 DEF Encode
<1> HIDE DEF i
<1>4. Made(i, {3}, Bits(BranchCodes["JUMP"]), Bits(c.tgt))
  BY <1>1, <1>3, NumberWords DEF SMC_JUMP
<1>5. jtOf(i) = c.tgt
  BY <1>1, <1>4, NumberIsRead, CodesArePositive, ValueOfBits DEF jtOf
<1>6. Operation(i) = "JUMP"
  <2>1. "JUMP" \in DOMAIN BranchCodes
    BY DEF BranchCodes
  <2> QED BY <1>4, <2>1, OperationIs
<1> QED BY <1>2, <1>5, <1>6 DEF i

LEMMA SleepsDecode ==
  ASSUME NEW c \in [op : {"SLEEP"}, samt : Cycles]
  PROVE  LET i == Encode(c) IN [op |-> Operation(i), samt |-> samtOf(i) + 2] = c
<1> DEFINE i == Encode(c)
<1>1. c.samt \in Nat /\ 2 < c.samt /\ c.samt < 2^30
  BY OperandsAssumption
<1>2. c = [op |-> "SLEEP", samt |-> c.samt]
  OBVIOUS
<1>3. PICK n \in Nat : n = c.samt - 2
  BY <1>1
<1>4. n \in Positive /\ n + 2 = c.samt
  <2>1. PICK m \in Nat : m = 2^30 /\ m < 2^31
    BY SMT
  <2>2. n < m
    BY <1>1, <1>3, <2>1
  <2> QED BY <1>1, <1>3, <2>1, <2>2, SMT DEF Positive
<1>5. i = SMC_SLEEP(c.samt)
  BY <1>2 DEF Encode
<1> HIDE DEF i
<1>6. Made(i, {3}, Bits(BranchCodes["SLEEP"]), Bits(n))
  BY <1>3, <1>5, NumberWords DEF SMC_SLEEP
<1>7. samtOf(i) = n
  BY <1>4, <1>6, NumberIsRead, ValueOfBits DEF samtOf
<1>8. Operation(i) = "SLEEP"
  <2>1. "SLEEP" \in DOMAIN BranchCodes
    BY DEF BranchCodes
  <2> QED BY <1>6, <2>1, OperationIs
<1> QED BY <1>2, <1>4, <1>7, <1>8 DEF i

LEMMA Others ==
  ASSUME NEW c \in [op : {"INFO"}, rdcnt : Counts] \cup [op : {"END", "SRE", "SRX"}]
  PROVE  Operation(Encode(c)) = c.op
<1>1. CASE c \in [op : {"INFO"}, rdcnt : Counts]
  <2>1. c.op = "INFO" /\ c.rdcnt \in Nat
    BY <1>1, OperandsAssumption
  <2>2. Encode(c) = SMC_INFO(c.rdcnt)
    BY <2>1 DEF Encode
  <2> QED BY <2>1, <2>2, NumberWords, OperationIs
<1>2. CASE c \in [op : {"SRE", "SRX"}]
  <2>1. c.op \in {"SRE", "SRX"} /\ c.op \in DOMAIN ArithCodes /\ ArithCodes[c.op] # 0
    BY <1>2 DEF ArithCodes
  <2>2. Encode(c) = SelfRefresh(c.op)
    BY <2>1 DEF Encode
  <2>3. Made(Encode(c), {}, Bits(ArithCodes[c.op]), {})
    BY <2>1, <2>2, RefreshWords
  <2> QED BY <2>1, <2>3, NotEnd, OperationIs
<1>3. CASE c \in [op : {"END"}]
  <2>1. c.op = "END"
    BY <1>3
  <2>2. Encode(c) = SMC_END
    BY <2>1 DEF Encode
  <2>3. Shr(SMC_END, OP_CODE) = Bits(0)
    BY CodeBits DEF SMC_END, Shr
  <2>4. Bits(0) # Bits(8) /\ Bits(0) # Bits(4) /\ Bits(0) # Bits(2) /\ Bits(0) # Bits(1)
    BY CodeBits
  <2> QED BY <2>1, <2>2, <2>3, <2>4 DEF Operation
<1> QED BY <1>1, <1>2, <1>3

\* Every word that is no command is read back as the call that made it.
LEMMA InstDecodes ==
  ASSUME call \in InstCalls, inst = Encode(call), ~IsEnd(call)
  PROVE  Decoded(inst, call.op) = call
<1>1. CASE call \in [op : {"ADD", "SUB", "AND", "OR", "XOR"}, rs1 : Registers, rs2 : Registers, rt : Registers]
  <2>1. call.op \in {"ADD", "SUB", "AND", "OR", "XOR"}
    BY <1>1
  <2> QED BY <1>1, <2>1, ThreeRegisters DEF Decoded
<1>2. CASE call \in [op : {"ADDI", "SUBI"}, rs1 : Registers, imd : Halves, rt : Registers]
                     \cup [op : {"LD", "ST"}, rs1 : Registers, imd : Offsets, rt : Registers]
  <2>1. call.op \in {"ADDI", "SUBI", "LD", "ST"}
    BY <1>2
  <2> QED BY <1>2, <2>1, WithImmediate DEF Decoded
<1>3. CASE call \in [op : {"MV", "SRC", "LDWD"}, rs1 : Registers, rt : Registers]
                     \cup [op : {"LDPC"}, rs1 : 0..6, rt : Registers]
  <2>1. call.op \in {"MV", "SRC", "LDWD", "LDPC"}
    BY <1>3
  <2> QED BY <1>3, <2>1, TwoRegisters DEF Decoded
<1>4. CASE call \in [op : {"LI"}, imd : Immediates, rt : Registers]
  <2>1. call.op = "LI"
    BY <1>4
  <2> QED BY <1>4, <2>1, LongImmediate DEF Decoded
<1>5. CASE call \in [op : {"BL", "BEQ"}, rs1 : Registers, rs2 : Registers, tgt : Targets]
  <2>1. call.op \in {"BL", "BEQ"}
    BY <1>5
  <2> QED BY <1>5, <2>1, Branches DEF Decoded
<1>6. CASE call \in [op : {"JUMP"}, tgt : Targets]
  <2>1. call.op = "JUMP"
    BY <1>6
  <2> QED BY <1>6, <2>1, Jumps DEF Decoded
<1>7. CASE call \in [op : {"SLEEP"}, samt : Cycles]
  <2>1. call.op = "SLEEP"
    BY <1>7
  <2> QED BY <1>7, <2>1, SleepsDecode DEF Decoded
<1>8. CASE call \in [op : {"INFO"}, rdcnt : Counts] \cup [op : {"END", "SRE", "SRX"}]
  <2>1. call.op \in {"INFO", "END", "SRE", "SRX"}
    BY <1>8
  <2>2. Operation(inst) = call.op
    BY <1>8, Others
  <2>3. [call EXCEPT !.op = call.op] = call
    BY <1>8
  <2>4. Decoded(inst, call.op) = [call EXCEPT !.op = Operation(inst)]
    BY <2>1 DEF Decoded
  <2> QED BY <2>2, <2>3, <2>4
<1> QED BY <1>1, <1>2, <1>3, <1>4, <1>5, <1>6, <1>7, <1>8, Zenon DEF InstCalls

-----------------------------------------------------------------------------
(* DDR commands *)

\* A command: its code, two numbers and four flags.
MiniOf(cmd, bar, addr, ibar, iaddr, rank, ap) ==
  Placed(cmd, 12) \cup bar \cup Placed(addr, 4) \cup Placed(ibar, 10) \cup Placed(iaddr, 11)
    \cup Placed(rank, 8) \cup Placed(ap, 9)

MiniParts(cmd, bar, addr, ibar, iaddr, rank, ap) ==
  /\ cmd \in SUBSET (0..3) /\ bar \in SUBSET (0..3) /\ addr \in SUBSET (0..3)
  /\ ibar \in SUBSET {0} /\ iaddr \in SUBSET {0} /\ rank \in SUBSET {0} /\ ap \in SUBSET {0}

\* The bits of a command, by the fields they are in.
LEMMA MiniBits ==
  ASSUME NEW cmd, NEW bar, NEW addr, NEW ibar, NEW iaddr, NEW rank, NEW ap,
         MiniParts(cmd, bar, addr, ibar, iaddr, rank, ap)
  PROVE  LET m == MiniOf(cmd, bar, addr, ibar, iaddr, rank, ap)
         IN  /\ m \in SUBSET (0..15)
             /\ \A x \in Int :
                  x \in m <=> \/ x - 12 \in cmd \/ x \in bar \/ x - 4 \in addr \/ x - 10 \in ibar
                              \/ x - 11 \in iaddr \/ x - 8 \in rank \/ x - 9 \in ap
<1>0. /\ cmd \in SUBSET (0..3) /\ bar \in SUBSET (0..3) /\ addr \in SUBSET (0..3)
      /\ ibar \in SUBSET {0} /\ iaddr \in SUBSET {0} /\ rank \in SUBSET {0} /\ ap \in SUBSET {0}
  BY DEF MiniParts
<1>1. \A w \in SUBSET Int, at \in Int : \A x \in Int : x \in Placed(w, at) <=> x - at \in w
  BY PlacedHas
<1>2. /\ cmd \in SUBSET Int /\ addr \in SUBSET Int
      /\ ibar \in SUBSET Int /\ iaddr \in SUBSET Int /\ rank \in SUBSET Int /\ ap \in SUBSET Int
  BY <1>0
<1>3. /\ \A x \in Int : x \in Placed(cmd, 12) <=> x - 12 \in cmd
      /\ \A x \in Int : x \in Placed(addr, 4) <=> x - 4 \in addr
      /\ \A x \in Int : x \in Placed(ibar, 10) <=> x - 10 \in ibar
      /\ \A x \in Int : x \in Placed(iaddr, 11) <=> x - 11 \in iaddr
      /\ \A x \in Int : x \in Placed(rank, 8) <=> x - 8 \in rank
      /\ \A x \in Int : x \in Placed(ap, 9) <=> x - 9 \in ap
  BY <1>1, <1>2
<1>4. /\ Placed(cmd, 12) \subseteq 0..15 /\ Placed(addr, 4) \subseteq 0..15
      /\ Placed(ibar, 10) \subseteq 0..15 /\ Placed(iaddr, 11) \subseteq 0..15
      /\ Placed(rank, 8) \subseteq 0..15 /\ Placed(ap, 9) \subseteq 0..15
  BY <1>0 DEF Placed
<1>5. bar \subseteq 0..15
  BY <1>0
<1> QED BY <1>3, <1>4, <1>5 DEF MiniOf

\* No two fields of a command overlap.
LEMMA MiniFields ==
  ASSUME NEW cmd, NEW bar, NEW addr, NEW ibar, NEW iaddr, NEW rank, NEW ap,
         MiniParts(cmd, bar, addr, ibar, iaddr, rank, ap)
  PROVE  LET m == MiniOf(cmd, bar, addr, ibar, iaddr, rank, ap)
         IN  /\ m \in SUBSET (0..15) /\ Shr(m, 12) = cmd
             /\ Field(m, 0, 4) = bar /\ Field(m, 4, 4) = addr /\ Field(m, 10, 1) = ibar
             /\ Field(m, 11, 1) = iaddr /\ Field(m, 9, 1) = ap /\ Field(m, 8, 1) = rank
<1> DEFINE m == MiniOf(cmd, bar, addr, ibar, iaddr, rank, ap)
<1>0. /\ cmd \in SUBSET (0..3) /\ bar \in SUBSET (0..3) /\ addr \in SUBSET (0..3)
      /\ ibar \in SUBSET {0} /\ iaddr \in SUBSET {0} /\ rank \in SUBSET {0} /\ ap \in SUBSET {0}
  BY DEF MiniParts
<1>1. /\ m \in SUBSET (0..15)
      /\ \A x \in Int :
           x \in m <=> \/ x - 12 \in cmd \/ x \in bar \/ x - 4 \in addr \/ x - 10 \in ibar
                       \/ x - 11 \in iaddr \/ x - 8 \in rank \/ x - 9 \in ap
  BY MiniBits
<1> HIDE DEF m
<1>2. m \in SUBSET Int
  BY <1>1
<1>3. Field(m, 0, 4) = bar
  <2>1. HasField(m, 0, 4, bar)
    BY <1>0, <1>1 DEF HasField
  <2> QED BY <1>2, <2>1, FieldIs
<1>4. Field(m, 4, 4) = addr
  <2>1. HasField(m, 4, 4, addr)
    BY <1>0, <1>1 DEF HasField
  <2> QED BY <1>2, <2>1, FieldIs
<1>5. Field(m, 10, 1) = ibar
  <2>1. HasField(m, 10, 1, ibar)
    BY <1>0, <1>1 DEF HasField
  <2> QED BY <1>2, <2>1, FieldIs
<1>6. Field(m, 11, 1) = iaddr
  <2>1. HasField(m, 11, 1, iaddr)
    BY <1>0, <1>1 DEF HasField
  <2> QED BY <1>2, <2>1, FieldIs
<1>7. Field(m, 9, 1) = ap
  <2>1. HasField(m, 9, 1, ap)
    BY <1>0, <1>1 DEF HasField
  <2> QED BY <1>2, <2>1, FieldIs
<1>8. Field(m, 8, 1) = rank
  <2>1. HasField(m, 8, 1, rank)
    BY <1>0, <1>1 DEF HasField
  <2> QED BY <1>2, <2>1, FieldIs
<1>9. Shr(m, 12) = cmd
  <2>1. HasField(m, 12, 4, cmd)
    BY <1>0, <1>1 DEF HasField
  <2>2. Field(m, 12, 4) = cmd
    BY <1>2, <2>1, FieldIs
  <2>3. Shr(m, 12) \subseteq 0..3
    BY <1>1 DEF Shr
  <2>4. Field(m, 12, 4) = Shr(m, 12) \cap 0..3
    BY DEF Field
  <2> QED BY <2>2, <2>3, <2>4
<1> QED BY <1>1, <1>3, <1>4, <1>5, <1>6, <1>7, <1>8, <1>9 DEF m

\* A shift in a command moves bits that stay in it.
LEMMA MiniPlaces ==
  /\ \A w \in SUBSET (0..3) : Mini(w, DDR_CMD) = Placed(w, 12) /\ Mini(w, DDR_ROWCOL) = Placed(w, 4)
  /\ \A w \in SUBSET {0} :
       /\ Mini(w, DDR_IBAR) = Placed(w, 10) /\ Mini(w, DDR_IADDR) = Placed(w, 11)
       /\ Mini(w, DDR_RANK) = Placed(w, 8) /\ Mini(w, DDR_AP) = Placed(w, 9)
<1>1. ASSUME NEW w, w \subseteq 0..3, NEW at \in {4, 8, 9, 10, 11, 12} PROVE Mini(w, at) = Placed(w, at)
  <2>1. 3 + at < 16 /\ at \in Nat
    OBVIOUS
  <2> QED BY <1>1, <2>1, ShiftPlaces DEF Mini
<1>2. \A w \in SUBSET {0} : w \subseteq 0..3
  OBVIOUS
<1> QED BY <1>1, <1>2 DEF DDR_CMD, DDR_ROWCOL, DDR_IBAR, DDR_IADDR, DDR_RANK, DDR_AP

\* What the calls for commands have as operands.
Command7 ==
  [op : DOMAIN DDRCodes, bar : 0..15, ibar : Flags, addr : 0..15, iaddr : Flags, rank : Flags, ap : Flags]

LEMMA CallsAreCommands == DDRCalls \subseteq Command7
<1>1. 0 \in 0..15 /\ 0 \in Flags
  BY DEF Flags
<1>2. {"READ", "WRITE", "ACT", "PRE", "SEL_CH", "REF", "NOP"} \subseteq DOMAIN DDRCodes
  BY DEF DDRCodes
<1>3. Registers \subseteq 0..15
  BY OperandsAssumption
<1>4. ColumnCalls \subseteq Command7
  BY <1>2, <1>3 DEF ColumnCalls, Command7
<1>5. RowCalls \subseteq Command7
  BY <1>1, <1>2, <1>3 DEF RowCalls, Command7
<1>6. CommandCalls \subseteq Command7
  BY <1>1, <1>2 DEF CommandCalls, Command7
<1> QED BY <1>4, <1>5, <1>6 DEF DDRCalls

\* Each encoder puts its operands into the fields.
LEMMA CommandBits ==
  ASSUME NEW c \in DDRCalls
  PROVE  /\ EncodeMini(c) = MiniOf(Bits(DDRCodes[c.op]), Bits(c.bar), Bits(c.addr), Bits(c.ibar),
                                   Bits(c.iaddr), Bits(c.rank), Bits(c.ap))
         /\ MiniParts(Bits(DDRCodes[c.op]), Bits(c.bar), Bits(c.addr), Bits(c.ibar),
                      Bits(c.iaddr), Bits(c.rank), Bits(c.ap))
<1>1. c \in Command7
  BY CallsAreCommands
<1>2. /\ c.op \in DOMAIN DDRCodes /\ c.bar \in 0..15 /\ c.addr \in 0..15
      /\ c.ibar \in {0, 1} /\ c.iaddr \in {0, 1} /\ c.rank \in {0, 1} /\ c.ap \in {0, 1}
  BY <1>1 DEF Command7, Flags
<1>3. /\ Bits(DDRCodes[c.op]) \in SUBSET (0..3) /\ Bits(c.bar) \in SUBSET (0..3) /\ Bits(c.addr) \in SUBSET (0..3)
      /\ Bits(c.ibar) \in SUBSET {0} /\ Bits(c.iaddr) \in SUBSET {0}
      /\ Bits(c.rank) \in SUBSET {0} /\ Bits(c.ap) \in SUBSET {0}
  BY <1>2, CodesFit, RegisterBits, FlagBits
<1>4. Bits(0) = {} /\ \A at : Placed({}, at) = {}
  BY CodeBits DEF Placed
<1>5. /\ Mini(Bits(DDRCodes[c.op]), DDR_CMD) = Placed(Bits(DDRCodes[c.op]), 12)
      /\ Mini(Bits(c.addr), DDR_ROWCOL) = Placed(Bits(c.addr), 4)
      /\ Mini(Bits(c.ibar), DDR_IBAR) = Placed(Bits(c.ibar), 10)
      /\ Mini(Bits(c.iaddr), DDR_IADDR) = Placed(Bits(c.iaddr), 11)
      /\ Mini(Bits(c.rank), DDR_RANK) = Placed(Bits(c.rank), 8)
      /\ Mini(Bits(c.ap), DDR_AP) = Placed(Bits(c.ap), 9)
  BY <1>3, MiniPlaces
<1>6. CASE c \in ColumnCalls
  <2>1. c.op \in {"READ", "WRITE"}
    BY <1>6 DEF ColumnCalls
  <2>2. EncodeMini(c) = Column(c.op, c.bar, c.ibar, c.addr, c.iaddr, c.rank, c.ap)
    BY <2>1 DEF EncodeMini
  <2> QED BY <1>3, <1>5, <2>2 DEF Column, MiniOf, MiniParts
<1>7. CASE c.op = "ACT" /\ c \in RowCalls
  <2>1. c.ap = 0
    BY <1>7 DEF RowCalls
  <2>2. EncodeMini(c) = SMC_ACT(c.bar, c.ibar, c.addr, c.iaddr, c.rank)
    BY <1>7 DEF EncodeMini
  <2> QED BY <1>3, <1>4, <1>5, <1>7, <2>1, <2>2 DEF SMC_ACT, MiniOf, MiniParts
<1>8. CASE c.op = "PRE" /\ c \in RowCalls
  <2>1. c.ap = 0 /\ c.addr = 0
    BY <1>8 DEF RowCalls
  <2>2. EncodeMini(c) = SMC_PRE(c.bar, c.ibar, c.iaddr, c.rank)
    BY <1>8 DEF EncodeMini
  <2> QED BY <1>3, <1>4, <1>5, <1>8, <2>1, <2>2 DEF SMC_PRE, MiniOf, MiniParts
<1>9. CASE c \in CommandCalls
  <2>1. c.ap = 0 /\ c.addr = 0 /\ c.bar = 0 /\ c.ibar = 0 /\ c.iaddr = 0 /\ c.op \in {"SEL_CH", "REF", "NOP"}
    BY <1>9 DEF CommandCalls
  <2>2. EncodeMini(c) = Command(c.op, 0, c.rank)
    BY <2>1 DEF EncodeMini
  <2> QED BY <1>3, <1>4, <1>5, <2>1, <2>2 DEF Command, MiniOf, MiniParts
<1>10. c \in RowCalls => c.op = "ACT" \/ c.op = "PRE"
  BY DEF RowCalls
<1> QED BY <1>6, <1>7, <1>8, <1>9, <1>10 DEF DDRCalls

\* decode_ddr reads back the command and its operands.
LEMMA CommandDecodes ==
  ASSUME NEW c \in DDRCalls
  PROVE  /\ DecodeDDR(EncodeMini(c)) = c /\ EncodeMini(c) \in SUBSET (0..15)
         /\ Shr(EncodeMini(c), DDR_CMD) = Bits(DDRCodes[c.op]) /\ c.op \in DOMAIN DDRCodes
<1> DEFINE m == EncodeMini(c)
<1>1. c \in Command7
  BY CallsAreCommands
<1>2. /\ c.op \in DOMAIN DDRCodes /\ c.bar \in 0..15 /\ c.addr \in 0..15
      /\ c.ibar \in 0..15 /\ c.iaddr \in 0..15 /\ c.rank \in 0..15 /\ c.ap \in 0..15
  BY <1>1 DEF Command7, Flags
<1>3. /\ m \in SUBSET (0..15) /\ Shr(m, 12) = Bits(DDRCodes[c.op])
      /\ Field(m, 0, 4) = Bits(c.bar) /\ Field(m, 4, 4) = Bits(c.addr) /\ Field(m, 10, 1) = Bits(c.ibar)
      /\ Field(m, 11, 1) = Bits(c.iaddr) /\ Field(m, 9, 1) = Bits(c.ap) /\ Field(m, 8, 1) = Bits(c.rank)
  BY CommandBits, MiniFields
<1> HIDE DEF m
<1>4. DDROperation(m) = c.op
  BY <1>2, <1>3, NamesFound DEF DDROperation, DDR_CMD
<1>5. /\ Value(Field(m, 0, 4)) = c.bar /\ Value(Field(m, 4, 4)) = c.addr /\ Value(Field(m, 10, 1)) = c.ibar
      /\ Value(Field(m, 11, 1)) = c.iaddr /\ Value(Field(m, 9, 1)) = c.ap /\ Value(Field(m, 8, 1)) = c.rank
  BY <1>2, <1>3, RegisterBits
<1>6. DecodeDDR(m) = [op |-> c.op, bar |-> c.bar, addr |-> c.addr, ibar |-> c.ibar, iaddr |-> c.iaddr,
                      ap |-> c.ap, rank |-> c.rank]
  BY <1>4, <1>5, Zenon DEF DecodeDDR, DDR_ROWCOL, DDR_IBAR, DDR_IADDR, DDR_AP, DDR_RANK
<1>7. c = [op |-> c.op, bar |-> c.bar, addr |-> c.addr, ibar |-> c.ibar, iaddr |-> c.iaddr,
           ap |-> c.ap, rank |-> c.rank]
  BY <1>1 DEF Command7
<1> QED BY <1>2, <1>3, <1>6, <1>7 DEF m, DDR_CMD

-----------------------------------------------------------------------------
(* The classifiers on the words of the calls *)

LEMMA LoadBits == Bits(4096) = {12}
<1>1. ASSUME NEW b \in 0..30, b < 12 PROVE b \notin Bits(4096)
  <2>0. b = 0 => (4096 \div 2^b) % 2 = 0
    BY SMT
  <2>1. b = 1 => (4096 \div 2^b) % 2 = 0
    BY SMT
  <2>2. b = 2 => (4096 \div 2^b) % 2 = 0
    BY SMT
  <2>3. b = 3 => (4096 \div 2^b) % 2 = 0
    BY SMT
  <2>4. b = 4 => (4096 \div 2^b) % 2 = 0
    BY SMT
  <2>5. b = 5 => (4096 \div 2^b) % 2 = 0
    BY SMT
  <2>6. b = 6 => (4096 \div 2^b) % 2 = 0
    BY SMT
  <2>7. b = 7 => (4096 \div 2^b) % 2 = 0
    BY SMT
  <2>8. b = 8 => (4096 \div 2^b) % 2 = 0
    BY SMT
  <2>9. b = 9 => (4096 \div 2^b) % 2 = 0
    BY SMT
  <2>10. b = 10 => (4096 \div 2^b) % 2 = 0
    BY SMT
  <2>11. b = 11 => (4096 \div 2^b) % 2 = 0
    BY SMT
  <2>12. b = 0 \/ b = 1 \/ b = 2 \/ b = 3 \/ b = 4 \/ b = 5 \/ b = 6 \/ b = 7 \/ b = 8 \/ b = 9 \/ b = 10 \/ b = 11
    BY <1>1, SMT
  <2>13. PICK q : q = (4096 \div 2^b) % 2
    OBVIOUS
  <2>14. q = 0
    BY <2>0, <2>1, <2>2, <2>3, <2>4, <2>5, <2>6, <2>7, <2>8, <2>9, <2>10, <2>11, <2>12, <2>13, SMT
  <2> QED BY <2>13, <2>14, SMT DEF Bits
<1>2. ASSUME NEW b \in 0..30, b > 12 PROVE b \notin Bits(4096)
  <2>1. 2^b > 4096
    <3>1. PICK d \in 0..30, c \in 0..30 : d > 10 /\ d + 1 = c /\ c + 1 = b
      <4>1. b - 2 \in 0..30 /\ b - 2 > 10 /\ (b - 2) + 1 = b - 1 /\ b - 1 \in 0..30 /\ (b - 1) + 1 = b
        BY <1>2, SMT
      <4> QED BY <4>1
    <3>2. 2^d >= 2^11
      BY <3>1, CodePowers
    <3>3. PICK k \in Nat : k = 2^11 /\ k = 2048
      BY SMT
    <3>4. 2^(d + 1) = 2 * 2^d /\ 2^d \in Nat /\ 2^(c + 1) = 2 * 2^c
      BY Doubles
    <3>5. PICK m \in Nat : m = 2^d
      BY <3>4
    <3>6. 2^c = 2 * m
      BY <3>1, <3>4, <3>5
    <3>7. 2^b = 2 * (2 * m)
      BY <3>1, <3>4, <3>6
    <3>8. m >= k
      BY <3>2, <3>3, <3>5
    <3> QED BY <3>3, <3>7, <3>8, SMT
  <2>2. PICK n \in Nat : n = 4096
    BY SMT
  <2>3. 2^b > n
    BY <2>1, <2>2
  <2>4. b \notin Bits(n)
    BY <2>3, HighBits
  <2> QED BY <2>2, <2>4
<1>3. 12 \in Bits(4096)
  <2>1. (4096 \div 2^12) % 2 = 1
    BY SMT
  <2> QED BY <2>1, SMT DEF Bits
<1>4. Bits(4096) \subseteq 0..30
  BY SMT DEF Bits
<1>5. PICK w : w = Bits(4096)
  OBVIOUS
<1>6. w \subseteq 0..30 /\ 12 \in w /\ (\A b \in 0..30 : b < 12 \/ b > 12 => b \notin w)
  BY <1>1, <1>2, <1>3, <1>4, <1>5, SMT
<1>7. w = {12}
  <2>1. ASSUME NEW x \in w PROVE x = 12
    <3>1. x \in 0..30 /\ ~(x < 12) /\ ~(x > 12)
      BY <1>6
    <3> QED BY <3>1
  <2> QED BY <1>6, <2>1
<1> QED BY <1>5, <1>7, SMT

\* A load is a word of the memory unit with the code of LD.
LEMMA LoadParts ==
  ASSUME NEW i \in SUBSET (0..63)
  PROVE  is_load(i) <=> Shr(i, OP_CODE) = {1} /\ FunctionCode(i) = {}
<1> DEFINE high == Shr(i, 48)
<1>1. is_load(i) <=> high = {12}
  BY LoadBits DEF is_load, FU_CODE
<1>2. high \subseteq 0..15
  BY DEF Shr
<1>3. \A b \in 0..15 : b \in high <=> b + 48 \in i
  <2>1. i \in SUBSET Int
    OBVIOUS
  <2>2. \A b : b \in Field(i, 48, 16) <=> b \in 0..15 /\ b + 48 \in i
    BY <2>1, FieldHas
  <2> QED BY <1>2, <2>2 DEF Field
<1>4. FunctionCode(i) = high \cap 0..10
  BY DEF FunctionCode, FU_CODE
<1>5. Shr(i, OP_CODE) \subseteq 0..4 /\ \A b \in 0..4 : b \in Shr(i, OP_CODE) <=> b + 59 \in i
  BY UnitBits
<1> HIDE DEF high
<1>6. \A b \in 0..4 : b \in Shr(i, OP_CODE) <=> b + 11 \in high
  <2>1. ASSUME NEW b \in 0..4 PROVE b \in Shr(i, OP_CODE) <=> b + 11 \in high
    <3>1. b + 11 \in 0..15 /\ (b + 11) + 48 = b + 59
      OBVIOUS
    <3> QED BY <1>3, <1>5, <3>1
  <2> QED BY <2>1
<1>7. ASSUME high = {12} PROVE Shr(i, OP_CODE) = {1} /\ FunctionCode(i) = {}
  <2>1. \A b \in 0..4 : b + 11 \in high <=> b = 1
    BY <1>7
  <2>2. Shr(i, OP_CODE) = {1}
    BY <1>5, <1>6, <2>1
  <2> QED BY <1>4, <1>7, <2>2
<1>8. ASSUME Shr(i, OP_CODE) = {1}, FunctionCode(i) = {} PROVE high = {12}
  <2>1. \A b \in 0..4 : b + 11 \in high <=> b = 1
    BY <1>6, <1>8
  <2>2. ASSUME NEW b \in 11..15 PROVE b \in high <=> b = 12
    <3>1. b - 11 \in 0..4 /\ (b - 11) + 11 = b
      OBVIOUS
    <3> QED BY <2>1, <3>1
  <2>3. \A b \in 0..10 : b \notin high
    BY <1>4, <1>8
  <2>4. \A b \in 0..15 : b \in 0..10 \/ b \in 11..15
    OBVIOUS
  <2>5. \A b \in 0..15 : b \in high <=> b = 12
    BY <2>2, <2>3, <2>4
  <2>6. 12 \in 0..15
    OBVIOUS
  <2> QED BY <1>2, <2>5, <2>6
<1> QED BY <1>1, <1>7, <1>8

\* A name is only found for its own code.
LEMMA NameTells ==
  ASSUME NEW codes, NEW code, NEW op, op # "none", NameOf(codes, code) = op
  PROVE  op \in DOMAIN codes /\ Bits(codes[op]) = code
<1> DEFINE names == {n \in DOMAIN codes : Bits(codes[n]) = code}
<1>1. NameOf(codes, code) = IF names = {} THEN "none" ELSE CHOOSE n \in names : TRUE
  BY DEF NameOf
<1>2. names # {} /\ op = CHOOSE n \in names : TRUE
  BY <1>1
<1>3. op \in names
  BY <1>2
<1> QED BY <1>3

\* What is decoded of a word of each unit.
LEMMA UnitTells ==
  ASSUME NEW i
  PROVE  /\ Shr(i, OP_CODE) = {1} => Operation(i) = NameOf(MemoryCodes, FunctionCode(i))
         /\ Shr(i, OP_CODE) = {3} => Operation(i) = NameOf(BranchCodes, FunctionCode(i))
         /\ Shr(i, OP_CODE) # {1} => Operation(i) # "LD"
         /\ Shr(i, OP_CODE) # {3} => Operation(i) \notin {"BL", "BEQ", "JUMP", "SLEEP"}
<1>1. /\ Bits(0) = {} /\ Bits(1) = {0} /\ Bits(2) = {1} /\ Bits(4) = {2} /\ Bits(8) = {3}
      /\ {0} # {1} /\ {0} # {2} /\ {0} # {3} /\ {1} # {2} /\ {1} # {3} /\ {2} # {3}
      /\ {} # {0} /\ {} # {1} /\ {} # {2} /\ {} # {3}
  BY CodeBits
<1> DEFINE op == Shr(i, OP_CODE)
           fu == FunctionCode(i)
<1>2. op = {1} => Operation(i) = NameOf(MemoryCodes, fu)
  BY <1>1 DEF Operation
<1>3. op = {3} => Operation(i) = NameOf(BranchCodes, fu)
  BY <1>1 DEF Operation
<1>4. \/ op = {} /\ i = SMC_END /\ Operation(i) = "END"
      \/ op = {} /\ i # SMC_END /\ Operation(i) = NameOf(ArithCodes, fu)
      \/ op = {3} /\ Operation(i) = NameOf(BranchCodes, fu)
      \/ op = {2} /\ Operation(i) = NameOf([INFO |-> 0], fu)
      \/ op = {1} /\ Operation(i) = NameOf(MemoryCodes, fu)
      \/ op = {0} /\ Operation(i) = NameOf(BitwiseCodes, fu)
      \/ Operation(i) = "none"
  BY <1>1, Zenon DEF Operation
<1> HIDE DEF op, fu
<1>5. /\ DOMAIN ArithCodes = {"ADD", "ADDI", "SUB", "SUBI", "MV", "SRC", "LI", "LDWD", "LDPC", "SRE", "SRX"}
      /\ DOMAIN BranchCodes = {"BL", "BEQ", "JUMP", "SLEEP"} /\ DOMAIN [INFO |-> 0] = {"INFO"}
      /\ DOMAIN MemoryCodes = {"LD", "ST"} /\ DOMAIN BitwiseCodes = {"AND", "OR", "XOR"}
  BY DEF ArithCodes, BranchCodes, MemoryCodes, BitwiseCodes
<1>6. ASSUME NEW name \in {"LD", "BL", "BEQ", "JUMP", "SLEEP"}, Operation(i) = name
      PROVE  \/ op = {3} /\ name \in DOMAIN BranchCodes
             \/ op = {1} /\ name \in DOMAIN MemoryCodes
  <2>1. name # "none" /\ name # "END"
    OBVIOUS
  <2>2. /\ NameOf(ArithCodes, fu) # name /\ NameOf([INFO |-> 0], fu) # name
        /\ NameOf(BitwiseCodes, fu) # name
    BY <1>5, <2>1, NameTells
  <2>3. /\ NameOf(BranchCodes, fu) = name => name \in DOMAIN BranchCodes
        /\ NameOf(MemoryCodes, fu) = name => name \in DOMAIN MemoryCodes
    BY <2>1, NameTells
  <2> QED BY <1>4, <1>6, <2>1, <2>2, <2>3
<1>7. ASSUME op # {1} PROVE Operation(i) # "LD"
  BY <1>5, <1>6, <1>7
<1>8. ASSUME op # {3} PROVE Operation(i) \notin {"BL", "BEQ", "JUMP", "SLEEP"}
  BY <1>5, <1>6, <1>8
<1> QED BY <1>2, <1>3, <1>7, <1>8 DEF op, fu

\* What the classifiers say of a word follows from its operation, unless the
\* word is a branch with a code that is none of theirs.
LEMMA WordClassified ==
  ASSUME NEW i, NEW unit, NEW code, NEW low, Made(i, unit, code, low), unit \subseteq 0..3,
         unit = {3} => \E op \in DOMAIN BranchCodes : code = Bits(BranchCodes[op])
  PROVE  /\ is_load(i) <=> Operation(i) = "LD"
         /\ is_branch(i) <=> Operation(i) \in {"BL", "BEQ", "JUMP", "SLEEP"}
         /\ is_branch(i) => (is_conditional(i) <=> Operation(i) \in {"BL", "BEQ"})
         /\ ~is_ddr(i)
<1>1. i \in SUBSET (0..63) /\ Shr(i, OP_CODE) = unit /\ FunctionCode(i) = code
  BY DEF Made
<1>2. /\ DOMAIN BranchCodes = {"BL", "BEQ", "JUMP", "SLEEP"} /\ "LD" \in DOMAIN MemoryCodes
      /\ MemoryCodes["LD"] = 0 /\ BranchCodes["BL"] = 0 /\ BranchCodes["BEQ"] = 1
  BY DEF BranchCodes, MemoryCodes
<1>3. Bits(0) = {} /\ Bits(8) = {3}
  BY CodeBits
<1>4. is_load(i) <=> unit = {1} /\ code = {}
  BY <1>1, LoadParts
<1>5. is_branch(i) <=> unit = {3}
  BY <1>1, <1>3 DEF is_branch
<1>6. is_load(i) <=> Operation(i) = "LD"
  <2>1. ASSUME unit = {1} PROVE Operation(i) = NameOf(MemoryCodes, code)
    BY <1>1, <2>1, UnitTells
  <2>2. NameOf(MemoryCodes, Bits(0)) = "LD"
    BY <1>2, NamesFound
  <2>3. ASSUME NameOf(MemoryCodes, code) = "LD" PROVE code = {}
    BY <1>2, <1>3, <2>3, NameTells
  <2>4. Operation(i) = "LD" => unit = {1}
    BY <1>1, UnitTells
  <2> QED BY <1>3, <1>4, <2>1, <2>2, <2>3, <2>4
<1>7. ASSUME unit = {3}
      PROVE  /\ Operation(i) \in {"BL", "BEQ", "JUMP", "SLEEP"}
             /\ is_conditional(i) <=> Operation(i) \in {"BL", "BEQ"}
  <2>1. PICK op \in DOMAIN BranchCodes : code = Bits(BranchCodes[op])
    BY <1>7
  <2>2. Operation(i) = op
    BY <1>1, <1>7, <2>1, UnitTells, NamesFound
  <2>3. is_conditional(i) <=> code = Bits(BranchCodes["BL"]) \/ code = Bits(BranchCodes["BEQ"])
    BY <1>1, <1>2 DEF is_conditional
  <2>4. \A m, n \in DOMAIN BranchCodes : Bits(BranchCodes[m]) = Bits(BranchCodes[n]) => m = n
    BY NamesFound
  <2>5. is_conditional(i) <=> op = "BL" \/ op = "BEQ"
    BY <1>2, <2>1, <2>3, <2>4
  <2> QED BY <1>2, <2>1, <2>2, <2>5
<1>8. is_branch(i) <=> Operation(i) \in {"BL", "BEQ", "JUMP", "SLEEP"}
  BY <1>1, <1>5, <1>7, UnitTells
<1>9. ~is_ddr(i)
  <2>1. 4 \in 0..4 /\ 4 + 59 = 63 /\ 4 \notin unit
    OBVIOUS
  <2>2. 4 \in Shr(i, OP_CODE) <=> 4 + 59 \in i
    BY <1>1, <2>1, UnitBits
  <2> QED BY <1>1, <2>1, <2>2 DEF is_ddr, IS_DDR
<1> QED BY <1>5, <1>6, <1>7, <1>8, <1>9

\* is_sleep compares with 19, which has bits 4 and not 15; no function code has bit 4.
LEMMA SleepBits ==
  /\ 4 \in Bits(19) /\ 15 \notin Bits(19) /\ 4 \notin Bits(0)
  /\ \A op \in DOMAIN ArithCodes : 4 \notin Bits(ArithCodes[op])
  /\ \A op \in DOMAIN BranchCodes : 4 \notin Bits(BranchCodes[op])
  /\ \A op \in DOMAIN BitwiseCodes : 4 \notin Bits(BitwiseCodes[op])
  /\ \A op \in DOMAIN MemoryCodes : 4 \notin Bits(MemoryCodes[op])
<1>0. 2^4 = 16 /\ 2^15 = 32768
  BY SMT
<1>1. (19 \div 2^4) % 2 = 1
  BY <1>0, SMT
<1>2. (19 \div 2^15) % 2 # 1
  BY <1>0, SMT
<1>3. 4 \in 0..30 /\ 15 \in 0..30
  OBVIOUS
<1>4. ASSUME NEW n \in 0..15 PROVE 4 \notin Bits(n)
  BY SmallBits
<1>5. (256 \div 2^4) % 2 # 1 /\ (257 \div 2^4) % 2 # 1
  BY <1>0, SMT
<1>6. 4 \notin Bits(256) /\ 4 \notin Bits(257)
  BY <1>3, <1>5 DEF Bits
<1>7. \A op \in DOMAIN ArithCodes : ArithCodes[op] \in 0..15 \/ ArithCodes[op] = 256 \/ ArithCodes[op] = 257
  BY DEF ArithCodes
<1>8. /\ \A op \in DOMAIN BranchCodes : BranchCodes[op] \in 0..15
      /\ \A op \in DOMAIN BitwiseCodes : BitwiseCodes[op] \in 0..15
      /\ \A op \in DOMAIN MemoryCodes : MemoryCodes[op] \in 0..15
  BY DEF BranchCodes, BitwiseCodes, MemoryCodes
<1>9. \A op \in DOMAIN ArithCodes : 4 \notin Bits(ArithCodes[op])
  BY <1>4, <1>6, <1>7
<1>10. /\ \A op \in DOMAIN BranchCodes : 4 \notin Bits(BranchCodes[op])
       /\ \A op \in DOMAIN BitwiseCodes : 4 \notin Bits(BitwiseCodes[op])
       /\ \A op \in DOMAIN MemoryCodes : 4 \notin Bits(MemoryCodes[op])
  BY <1>4, <1>8
<1>11. 4 \in Bits(19) /\ 15 \notin Bits(19)
  BY <1>1, <1>2, <1>3 DEF Bits
<1>12. 0 \in 0..15
  OBVIOUS
<1> QED BY <1>4, <1>9, <1>10, <1>11, <1>12

LEMMA NeverSleep ==
  ASSUME NEW i, NEW unit, NEW code, NEW low, Made(i, unit, code, low), 4 \notin code
  PROVE  ~is_sleep(i)
<1>1. FunctionCode(i) = code
  BY DEF Made
<1>2. 4 \in 0..10
  OBVIOUS
<1> QED BY <1>1, <1>2, SleepBits DEF is_sleep, FunctionCode

\* The words of the calls are of the four units, and have their codes.
LEMMA CallWords ==
  ASSUME NEW c \in InstCalls
  PROVE  \E unit, code, low :
           /\ Made(Encode(c), unit, code, low) /\ unit \subseteq 0..3 /\ 4 \notin code
           /\ unit = {3} => \E op \in DOMAIN BranchCodes : code = Bits(BranchCodes[op])
<1> DEFINE Word(unit, code, low) ==
             /\ Made(Encode(c), unit, code, low) /\ unit \subseteq 0..3 /\ 4 \notin code
             /\ unit = {3} => \E op \in DOMAIN BranchCodes : code = Bits(BranchCodes[op])
<1>0. \E unit, code, low : Word(unit, code, low)
  <2>0. \A unit \in {{}, {0}, {1}, {2}, {3}} : unit \subseteq 0..3
    OBVIOUS
  <2>1. CASE c \in [op : {"ADD", "SUB", "AND", "OR", "XOR"}, rs1 : Registers, rs2 : Registers, rt : Registers]
    <3>1. c.rs1 \in 0..15 /\ c.rs2 \in 0..15 /\ c.rt \in 0..15
      BY <2>1, OperandsAssumption
    <3>2. CASE c.op \in {"ADD", "SUB"}
      <4>1. c.op \in DOMAIN ArithCodes /\ Encode(c) = ArithRRR(c.op, c.rs1, c.rs2, c.rt)
        BY <3>2 DEF ArithCodes, Encode
      <4>2. Made(Encode(c), {}, Bits(ArithCodes[c.op]), Operands(Bits(c.rs1), Bits(c.rs2), Bits(c.rt)))
        BY <3>1, <4>1, OperandEncoders
      <4> QED BY <2>0, <4>1, <4>2, SleepBits
    <3>3. CASE c.op \in {"AND", "OR", "XOR"}
      <4>1. c.op \in DOMAIN BitwiseCodes /\ Encode(c) = BitwiseRRR(c.op, c.rs1, c.rs2, c.rt)
        BY <3>3 DEF BitwiseCodes, Encode
      <4>2. Made(Encode(c), {0}, Bits(BitwiseCodes[c.op]), Operands(Bits(c.rs1), Bits(c.rs2), Bits(c.rt)))
        BY <3>1, <4>1, OperandEncoders
      <4> QED BY <2>0, <4>1, <4>2, SleepBits
    <3> QED BY <2>1, <3>2, <3>3
  <2>2. CASE c \in [op : {"ADDI", "SUBI"}, rs1 : Registers, imd : Halves, rt : Registers]
                     \cup [op : {"LD", "ST"}, rs1 : Registers, imd : Offsets, rt : Registers]
    <3>1. c.rs1 \in 0..15 /\ c.imd \in SUBSET (0..15) /\ c.rt \in 0..15
      BY <2>2, OperandsAssumption
    <3>2. CASE c.op \in {"ADDI", "SUBI"}
      <4>1. c.op \in DOMAIN ArithCodes /\ Encode(c) = ArithRIR(c.op, c.rs1, c.imd, c.rt)
        BY <3>2 DEF ArithCodes, Encode
      <4>2. Made(Encode(c), {}, Bits(ArithCodes[c.op]), Operands(Bits(c.rs1), c.imd, Bits(c.rt)))
        BY <3>1, <4>1, OperandEncoders
      <4> QED BY <2>0, <4>1, <4>2, SleepBits
    <3>3. CASE c.op \in {"LD", "ST"}
      <4>1. c.op \in DOMAIN MemoryCodes /\ Encode(c) = Memory(c.op, c.rs1, c.imd, c.rt)
        BY <3>3 DEF MemoryCodes, Encode
      <4>2. Made(Encode(c), {1}, Bits(MemoryCodes[c.op]), Operands(Bits(c.rs1), c.imd, Bits(c.rt)))
        BY <3>1, <4>1, OperandEncoders
      <4> QED BY <2>0, <4>1, <4>2, SleepBits
    <3> QED BY <2>2, <3>2, <3>3
  <2>3. CASE c \in [op : {"MV", "SRC", "LDWD"}, rs1 : Registers, rt : Registers]
                     \cup [op : {"LDPC"}, rs1 : 0..6, rt : Registers]
    <3>1. c.rs1 \in 0..15 /\ c.rt \in 0..15
      <4>1. 0..6 \subseteq 0..15
        OBVIOUS
      <4>2. c.rs1 \in Registers \cup 0..6 /\ c.rt \in Registers
        BY <2>3
      <4> QED BY <4>1, <4>2, OperandsAssumption
    <3>2. c.op \in {"MV", "SRC", "LDWD", "LDPC"}
      BY <2>3
    <3>3. c.op \in DOMAIN ArithCodes /\ Encode(c) = ArithRR(c.op, c.rs1, c.rt)
      BY <3>2 DEF ArithCodes, Encode
    <3>4. Made(Encode(c), {}, Bits(ArithCodes[c.op]), Operands(Bits(c.rs1), {}, Bits(c.rt)))
      BY <3>1, <3>3, OperandEncoders
    <3> QED BY <2>0, <3>3, <3>4, SleepBits
  <2>4. CASE c \in [op : {"LI"}, imd : Immediates, rt : Registers]
    <3>1. c.op = "LI" /\ c.imd \in SUBSET (0..31) /\ c.rt \in 0..15
      BY <2>4, OperandsAssumption
    <3>2. Encode(c) = SMC_LI(c.imd, c.rt)
      BY <3>1 DEF Encode
    <3>3. PICK low : Made(Encode(c), {}, Bits(ArithCodes["LI"]), low)
      BY <3>1, <3>2, LoadImmediate
    <3>4. "LI" \in DOMAIN ArithCodes
      BY DEF ArithCodes
    <3> QED BY <2>0, <3>3, <3>4, SleepBits
  <2>5. CASE c \in [op : {"BL", "BEQ"}, rs1 : Registers, rs2 : Registers, tgt : Targets]
    <3>1. c.rs1 \in 0..15 /\ c.rs2 \in 0..15 /\ c.op \in {"BL", "BEQ"} /\ c.tgt \in 0..(2^19 - 1)
      BY <2>5, OperandsAssumption
    <3>2. c.tgt \in Nat /\ c.tgt < 2^19
      <4>1. PICK m \in Nat : m = 2^19
        BY SMT
      <4> QED BY <3>1, <4>1
    <3>3. Encode(c) = IF c.op = "BL" THEN SMC_BL(c.rs1, c.rs2, c.tgt) ELSE SMC_BEQ(c.rs1, c.rs2, c.tgt)
      BY <3>1 DEF Encode
    <3>4. BranchWord(Encode(c), c.op, c.rs1, c.rs2, c.tgt)
      <4>1. PICK i : i = Encode(c)
        OBVIOUS
      <4>2. i = {IS_BR} \cup FuCode(BranchCodes[c.op]) \cup Sources(c.rs1, c.rs2) \cup Inst(Bits(c.tgt), BR_TGT)
        BY <3>1, <3>3, <4>1 DEF SMC_BL, SMC_BEQ
      <4> QED BY <3>1, <3>2, <4>1, <4>2 DEF BranchWord
    <3>5. PICK low : Made(Encode(c), {3}, Bits(BranchCodes[c.op]), low)
      BY <3>4, BranchWords
    <3>6. c.op \in DOMAIN BranchCodes
      BY <3>1 DEF BranchCodes
    <3> QED BY <2>0, <3>5, <3>6, SleepBits
  <2>6. CASE c \in [op : {"JUMP"}, tgt : Targets]
    <3>1. c.op = "JUMP" /\ c.tgt \in 0..(2^19 - 1)
      BY <2>6, OperandsAssumption
    <3>2. c.tgt \in Nat
      <4>1. PICK m \in Nat : m = 2^19
        BY SMT
      <4> QED BY <3>1, <4>1
    <3>3. Encode(c) = SMC_JUMP(c.tgt)
      BY <3>1 DEF Encode
    <3>4. Made(Encode(c), {3}, Bits(BranchCodes["JUMP"]), Bits(c.tgt))
      BY <3>2, <3>3, NumberWords DEF SMC_JUMP
    <3>5. "JUMP" \in DOMAIN BranchCodes
      BY DEF BranchCodes
    <3> QED BY <2>0, <3>4, <3>5, SleepBits
  <2>7. CASE c \in [op : {"SLEEP"}, samt : Cycles]
    <3>1. c.op = "SLEEP" /\ c.samt \in Nat /\ 2 < c.samt
      BY <2>7, OperandsAssumption
    <3>2. PICK n \in Nat : n = c.samt - 2
      BY <3>1
    <3>3. Encode(c) = SMC_SLEEP(c.samt)
      BY <3>1 DEF Encode
    <3>4. Made(Encode(c), {3}, Bits(BranchCodes["SLEEP"]), Bits(n))
      BY <3>2, <3>3, NumberWords DEF SMC_SLEEP
    <3>5. "SLEEP" \in DOMAIN BranchCodes
      BY DEF BranchCodes
    <3> QED BY <2>0, <3>4, <3>5, SleepBits
  <2>8. CASE c \in [op : {"INFO"}, rdcnt : Counts]
    <3>1. c.op = "INFO" /\ c.rdcnt \in Nat
      BY <2>8, OperandsAssumption
    <3>2. Encode(c) = SMC_INFO(c.rdcnt)
      BY <3>1 DEF Encode
    <3>3. Made(Encode(c), {2}, {}, Bits(c.rdcnt))
      BY <3>1, <3>2, NumberWords
    <3>4. {2} # {3}
      OBVIOUS
    <3> QED BY <2>0, <3>3, <3>4
  <2>9. CASE c \in [op : {"SRE", "SRX"}]
    <3>1. c.op \in {"SRE", "SRX"}
      BY <2>9
    <3>2. Encode(c) = SelfRefresh(c.op)
      BY <3>1 DEF Encode
    <3>3. Made(Encode(c), {}, Bits(ArithCodes[c.op]), {})
      BY <3>1, <3>2, RefreshWords
    <3>4. c.op \in DOMAIN ArithCodes
      BY <3>1 DEF ArithCodes
    <3> QED BY <2>0, <3>3, <3>4, SleepBits
  <2>10. CASE c \in [op : {"END"}]
    <3>1. c.op = "END"
      BY <2>10
    <3>2. Encode(c) = {}
      BY <3>1 DEF Encode, SMC_END
    <3>3. {} = Placed({}, 59) \cup Placed({}, 48) \cup {}
      BY DEF Placed
    <3>4. {} \in SUBSET (0..4) /\ {} \in SUBSET (0..10) /\ {} \in SUBSET (0..47)
      OBVIOUS
    <3>5. Made({}, {}, {}, {})
      BY <3>3, <3>4, WordParts
    <3> QED BY <2>0, <3>2, <3>5
  <2> HIDE DEF Word
  <2>11. c \in [op : {"END", "SRE", "SRX"}] => c \in [op : {"SRE", "SRX"}] \/ c \in [op : {"END"}]
    OBVIOUS
  <2> QED BY <2>1, <2>2, <2>3, <2>4, <2>5, <2>6, <2>7, <2>8, <2>9, <2>10, <2>11, Zenon DEF InstCalls
<1> QED BY <1>0

\* So the classifiers are right about them.
LEMMA CallsClassified ==
  ASSUME NEW c \in InstCalls
  PROVE  LET i == Encode(c)
         IN  /\ is_load(i) <=> Operation(i) = "LD"
             /\ is_branch(i) <=> Operation(i) \in {"BL", "BEQ", "JUMP", "SLEEP"}
             /\ is_branch(i) => (is_conditional(i) <=> Operation(i) \in {"BL", "BEQ"})
             /\ ~is_ddr(i) /\ ~is_sleep(i)
BY CallWords, WordClassified, NeverSleep

-----------------------------------------------------------------------------
(* Words of four commands *)

\* Each of four commands in its quarter of a word.
Packed(i, a, b, c, d) ==
  /\ a \in SUBSET (0..15) /\ b \in SUBSET (0..15) /\ c \in SUBSET (0..15) /\ d \in SUBSET (0..15)
  /\ i = pack_mininsts(a, b, c, d)

LEMMA PackedParts ==
  ASSUME NEW i, NEW a, NEW b, NEW c, NEW d, Packed(i, a, b, c, d)
  PROVE  /\ i \in SUBSET (0..63)
         /\ MiniAt(i, 0) = a /\ MiniAt(i, 1) = b /\ MiniAt(i, 2) = c /\ MiniAt(i, 3) = d
<1>1. /\ a \in SUBSET (0..15) /\ b \in SUBSET (0..15) /\ c \in SUBSET (0..15) /\ d \in SUBSET (0..15)
      /\ i = Inst(d, 48) \cup Inst(c, 32) \cup Inst(b, 16) \cup a
  BY DEF Packed, pack_mininsts
<1>2. /\ Inst(d, 48) = Placed(d, 48) /\ Inst(c, 32) = Placed(c, 32) /\ Inst(b, 16) = Placed(b, 16)
  <2>1. ASSUME NEW w, w \subseteq 0..15, NEW at \in {16, 32, 48} PROVE Inst(w, at) = Placed(w, at)
    <3>1. 15 + at < 64 /\ at \in Nat
      OBVIOUS
    <3> QED BY <2>1, <3>1, ShiftPlaces DEF Inst
  <2> QED BY <1>1, <2>1
<1>3. /\ \A x \in Int : x \in Placed(d, 48) <=> x - 48 \in d
      /\ \A x \in Int : x \in Placed(c, 32) <=> x - 32 \in c
      /\ \A x \in Int : x \in Placed(b, 16) <=> x - 16 \in b
  <2>1. a \in SUBSET Int /\ b \in SUBSET Int /\ c \in SUBSET Int /\ d \in SUBSET Int
    BY <1>1
  <2> QED BY <2>1, PlacedHas
<1>4. \A x \in Int : x \in i <=> x \in a \/ x - 16 \in b \/ x - 32 \in c \/ x - 48 \in d
  BY <1>1, <1>2, <1>3
<1>5. i \in SUBSET (0..63)
  <2>1. Placed(d, 48) \subseteq 0..63 /\ Placed(c, 32) \subseteq 0..63 /\ Placed(b, 16) \subseteq 0..63
    BY <1>1 DEF Placed
  <2>2. a \subseteq 0..63
    BY <1>1
  <2> QED BY <1>1, <1>2, <2>1, <2>2
<1>6. i \in SUBSET Int
  BY <1>5
<1>7. MiniAt(i, 0) = Field(i, 0, 16) /\ MiniAt(i, 1) = Field(i, 16, 16)
      /\ MiniAt(i, 2) = Field(i, 32, 16) /\ MiniAt(i, 3) = Field(i, 48, 16)
  BY DEF MiniAt, Field
<1>8. Field(i, 0, 16) = a
  <2>1. HasField(i, 0, 16, a)
    BY <1>1, <1>4 DEF HasField
  <2> QED BY <1>6, <2>1, FieldIs
<1>9. Field(i, 16, 16) = b
  <2>1. HasField(i, 16, 16, b)
    BY <1>1, <1>4 DEF HasField
  <2> QED BY <1>6, <2>1, FieldIs
<1>10. Field(i, 32, 16) = c
  <2>1. HasField(i, 32, 16, c)
    BY <1>1, <1>4 DEF HasField
  <2> QED BY <1>6, <2>1, FieldIs
<1>11. Field(i, 48, 16) = d
  <2>1. HasField(i, 48, 16, d)
    BY <1>1, <1>4 DEF HasField
  <2> QED BY <1>6, <2>1, FieldIs
<1> QED BY <1>5, <1>7, <1>8, <1>9, <1>10, <1>11

\* SMC_NOP is a command like the others.
NopCall == [op |-> "NOP", bar |-> 0, ibar |-> 0, addr |-> 0, iaddr |-> 0, rank |-> 0, ap |-> 0]

LEMMA NopIsCommand ==
  NopCall \in DDRCalls /\ NopCall.op = "NOP" /\ EncodeMini(NopCall) = SMC_NOP
BY DEF NopCall, DDRCalls, CommandCalls, Flags, EncodeMini, SMC_NOP

\* The command is in its slot, and NOPs are in the others.
LEMMA SlotsRead ==
  ASSUME NEW c \in DDRCalls, NEW slot \in 0..3
  PROVE  LET i == InSlot(EncodeMini(c), slot)
         IN  /\ i \in SUBSET (0..63)
             /\ \A k \in 0..3 : MiniAt(i, k) = IF k = slot THEN EncodeMini(c) ELSE SMC_NOP
<1> DEFINE m == EncodeMini(c)
           mini(k) == IF k = slot THEN m ELSE SMC_NOP
           i == InSlot(m, slot)
<1>1. m \in SUBSET (0..15) /\ SMC_NOP \in SUBSET (0..15)
  BY CommandDecodes, NopIsCommand
<1>2. i = pack_mininsts(mini(0), mini(1), mini(2), mini(3))
  BY DEF InSlot
<1>3. \A k \in 0..3 : mini(k) \in SUBSET (0..15)
  BY <1>1
<1> HIDE DEF mini, i, m
<1>4. Packed(i, mini(0), mini(1), mini(2), mini(3))
  BY <1>2, <1>3 DEF Packed
<1>5. /\ i \in SUBSET (0..63)
      /\ MiniAt(i, 0) = mini(0) /\ MiniAt(i, 1) = mini(1) /\ MiniAt(i, 2) = mini(2) /\ MiniAt(i, 3) = mini(3)
  BY <1>4, PackedParts
<1>6. \A k \in 0..3 : MiniAt(i, k) = mini(k)
  BY <1>5
<1> QED BY <1>5, <1>6 DEF mini, i, m

\* The code of a command has bit 3, and no other command has it.
LEMMA CommandCodes ==
  /\ \A op \in DOMAIN DDRCodes : 3 \in Bits(DDRCodes[op])
  /\ \A m, n \in DOMAIN DDRCodes : Bits(DDRCodes[m]) = Bits(DDRCodes[n]) => m = n
<1>1. \A op \in DOMAIN DDRCodes : DDRCodes[op] \in 8..15
  BY SMT DEF DDRCodes
<1>2. \A n \in 8..15 : n \in 0..15 /\ (n \div 8) % 2 = 1
  BY SMT
<1>3. \A n \in 8..15 : 3 \in Bits(n)
  BY <1>2, SmallBits
<1> QED BY <1>1, <1>3, NamesFound

LEMMA SlotsClassified ==
  ASSUME NEW c \in DDRCalls, NEW slot \in 0..3
  PROVE  LET i == InSlot(EncodeMini(c), slot)
         IN  /\ is_ddr(i) /\ ~is_branch(i) /\ ~is_load(i) /\ ~is_sleep(i)
             /\ is_ddr_read(i) = IF c.op = "READ" THEN 1 ELSE 0
<1> DEFINE m == EncodeMini(c)
           i == InSlot(m, slot)
           reads == {k \in 0..3 : Shr(MiniAt(i, k), DDR_CMD) = Bits(DDRCodes["READ"])}
<1>1. /\ i \in SUBSET (0..63)
      /\ \A k \in 0..3 : MiniAt(i, k) = IF k = slot THEN m ELSE SMC_NOP
  BY SlotsRead
<1>2. /\ Shr(m, DDR_CMD) = Bits(DDRCodes[c.op]) /\ c.op \in DOMAIN DDRCodes /\ m \in SUBSET (0..15)
  BY CommandDecodes
<1>3. /\ Shr(SMC_NOP, DDR_CMD) = Bits(DDRCodes["NOP"]) /\ "NOP" \in DOMAIN DDRCodes
      /\ SMC_NOP \in SUBSET (0..15)
  BY CommandDecodes, NopIsCommand
<1>4. "READ" \in DOMAIN DDRCodes
  BY DEF DDRCodes
<1>5. is_ddr_read(i) = Cardinality(reads)
  BY DEF is_ddr_read
<1> HIDE DEF m, i
<1>6. reads = IF c.op = "READ" THEN {slot} ELSE {}
  <2>1. \A k \in 0..3 : k # slot => Shr(MiniAt(i, k), DDR_CMD) # Bits(DDRCodes["READ"])
    BY <1>1, <1>3, <1>4, CommandCodes
  <2>2. Shr(MiniAt(i, slot), DDR_CMD) = Bits(DDRCodes["READ"]) <=> c.op = "READ"
    BY <1>1, <1>2, <1>4, CommandCodes
  <2> QED BY <2>1, <2>2
<1>7. Cardinality({slot}) = 1 /\ Cardinality({}) = 0
  BY FS_Singleton, FS_EmptySet
<1>8. is_ddr_read(i) = IF c.op = "READ" THEN 1 ELSE 0
  BY <1>5, <1>6, <1>7
<1>9. 63 \in i
  <2>1. 3 \in Shr(MiniAt(i, 3), DDR_CMD)
    BY <1>1, <1>2, <1>3, CommandCodes
  <2>2. 15 \in MiniAt(i, 3)
    <3>1. PICK b \in MiniAt(i, 3) : b >= 12 /\ 3 = b - 12
      BY <2>1 DEF Shr, DDR_CMD
    <3>2. b \in Int
      BY DEF MiniAt
    <3>3. b = 15
      BY <3>1, <3>2
    <3> QED BY <3>1, <3>3
  <2>3. 15 \in Shr(i, 16 * 3)
    BY <2>2 DEF MiniAt
  <2>4. PICK b \in i : b >= 48 /\ 15 = b - 48
    BY <2>3 DEF Shr
  <2>5. b = 63
    BY <1>1, <2>4
  <2> QED BY <2>4, <2>5
<1>10. is_ddr(i) /\ ~is_branch(i)
  BY <1>1, <1>9, BranchUnit DEF is_ddr, IS_DDR
<1>11. ~is_load(i) /\ ~is_sleep(i)
  <2>1. 63 >= 48 /\ 15 = 63 - 48
    OBVIOUS
  <2>2. 15 \in Shr(i, 48)
    BY <1>9, <2>1 DEF Shr
  <2> QED BY <2>2, LoadBits, SleepBits DEF is_load, is_sleep, FU_CODE
<1> QED BY <1>8, <1>10, <1>11 DEF i, m

-----------------------------------------------------------------------------
(* Every call *)

\* Strengthening: what a state holds is the word of its call.
Answered ==
  \/ call \in InstCalls /\ inst = Encode(call)
  \/ \E c \in DDRCalls, slot \in 0..3 : call = WithSlot(c, slot) /\ inst = InSlot(EncodeMini(c), slot)

LEMMA AlwaysAnswered == EncodeSpec => []Answered
<1>1. EncodeInit => Answered
  BY DEF EncodeInit, Answered, InstCalls, Encode
<1>2. Answered /\ [EncodeNext]_<<call, inst>> => Answered'
  <2> SUFFICES ASSUME Answered, [EncodeNext]_<<call, inst>> PROVE Answered'
    OBVIOUS
  <2>1. CASE EncodeInst
    BY <2>1 DEF EncodeInst, Answered
  <2>2. CASE EncodeDDR
    BY <2>2 DEF EncodeDDR, Answered
  <2>3. CASE UNCHANGED <<call, inst>>
    BY <2>3 DEF Answered
  <2> QED BY <2>1, <2>2, <2>3 DEF EncodeNext
<1> QED BY <1>1, <1>2, PTL DEF EncodeSpec

\* A call for a command has a slot: it is no other call, and loses nothing by it.
LEMMA SlotCalls ==
  ASSUME NEW c \in DDRCalls, NEW slot \in 0..3, call = WithSlot(c, slot)
  PROVE  /\ call \notin InstCalls /\ call.slot = slot /\ call.op = c.op
         /\ [f \in DOMAIN call \ {"slot"} |-> call[f]] = c
<1>1. c \in Command7
  BY CallsAreCommands
<1>2. DOMAIN c = {"op", "bar", "ibar", "addr", "iaddr", "rank", "ap"}
  BY <1>1 DEF Command7
<1>3. c = [f \in DOMAIN c |-> c[f]]
  BY <1>1 DEF Command7
<1>5. call = [f \in DOMAIN c \cup {"slot"} |-> IF f = "slot" THEN slot ELSE c[f]]
  BY DEF WithSlot
<1>6. DOMAIN call = DOMAIN c \cup {"slot"} /\ "slot" \in DOMAIN call /\ "slot" \notin DOMAIN c
  BY <1>2, <1>5
<1>7. \A x \in DOMAIN c : call[x] = c[x]
  BY <1>2, <1>5
<1>8. call.slot = slot
  BY <1>5
<1>9. [f \in DOMAIN call \ {"slot"} |-> call[f]] = c
  <2>1. DOMAIN call \ {"slot"} = DOMAIN c
    BY <1>6
  <2> QED BY <1>3, <1>7, <2>1
<1>10. call \notin InstCalls
  <2> SUFFICES ASSUME call \in InstCalls PROVE "slot" \notin DOMAIN call
    BY <1>6
  <2> QED BY DEF InstCalls
<1> QED BY <1>2, <1>7, <1>8, <1>9, <1>10

\* decode_inst and decode_ddr (instruction.cpp:398-548) read back from the word
\* of each encoder (instruction.cpp:10-344) the operation and the operands it was
\* given, for all registers, immediates, targets, flags and slots.
THEOREM EncodersAreReversible == EncodeSpec => []DecodesToItself
<1>1. Answered => DecodesToItself
  <2>1. ASSUME call \in InstCalls, inst = Encode(call) PROVE DecodesToItself
    <3>1. ~IsEnd(call) => Decoded(inst, call.op) = call
      BY <2>1, InstDecodes
    <3> QED BY <2>1, <3>1 DEF DecodesToItself
  <2>2. ASSUME NEW c \in DDRCalls, NEW slot \in 0..3,
               call = WithSlot(c, slot), inst = InSlot(EncodeMini(c), slot)
        PROVE  DecodesToItself
    <3>1. /\ call \notin InstCalls /\ call.slot = slot
          /\ [f \in DOMAIN call \ {"slot"} |-> call[f]] = c
      BY <2>2, SlotCalls
    <3>2. \A k \in 0..3 : MiniAt(inst, k) = IF k = slot THEN EncodeMini(c) ELSE SMC_NOP
      BY <2>2, SlotsRead
    <3>3. DecodeDDR(EncodeMini(c)) = c
      BY CommandDecodes
    <3>4. \A k \in 0..3 : DecodeDDR(MiniAt(inst, k)) = IF k = slot THEN c ELSE DecodeDDR(SMC_NOP)
      BY <3>2, <3>3
    <3> QED BY <3>1, <3>4 DEF DecodesToItself
  <2> QED BY <2>1, <2>2 DEF Answered
<1> QED BY <1>1, AlwaysAnswered, PTL

\* The classifiers (instruction.cpp:346-396) say of each such word what the decoder says:
\* load, branch, conditional, DDR, and the reads in it; but is_sleep recognises no word.
THEOREM ClassifiersAreRight == EncodeSpec => []ClassifiersAgree
<1>1. Answered => ClassifiersAgree
  <2>1. ASSUME call \in InstCalls, inst = Encode(call) PROVE ClassifiersAgree
    BY <2>1, CallsClassified DEF ClassifiersAgree
  <2>2. ASSUME NEW c \in DDRCalls, NEW slot \in 0..3,
               call = WithSlot(c, slot), inst = InSlot(EncodeMini(c), slot)
        PROVE  ClassifiersAgree
    <3>1. call \notin InstCalls /\ call.op = c.op
      BY <2>2, SlotCalls
    <3>2. /\ is_ddr(inst) /\ ~is_branch(inst) /\ ~is_load(inst) /\ ~is_sleep(inst)
          /\ is_ddr_read(inst) = IF c.op = "READ" THEN 1 ELSE 0
      BY <2>2, SlotsClassified
    <3> QED BY <3>1, <3>2 DEF ClassifiersAgree
  <2> QED BY <2>1, <2>2 DEF Answered
<1> QED BY <1>1, AlwaysAnswered, PTL
=============================================================================
