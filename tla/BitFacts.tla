------------------------------ MODULE BitFacts ------------------------------
(***************************************************************************)
(* The bits of numbers, of codes and of the fields of a word.              *)
(***************************************************************************)
EXTENDS Instruction, NaturalFacts

\* Powers of two.
LEMMA Powers ==
  ASSUME NEW b \in 0..30
  PROVE  /\ (b = 0 => 2^b = 1) /\ (b = 1 => 2^b = 2) /\ (b = 2 => 2^b = 4) /\ (b = 3 => 2^b = 8)
         /\ b > 3 => 2^b > 15
         /\ b > 18 => 2^b >= 2^19
         /\ 2^b \in Nat
<1>0. b = 0 => 2^b = 1
  BY SMT
<1>1. b = 1 => 2^b = 2
  BY SMT
<1>2. b = 2 => 2^b = 4
  BY SMT
<1>3. b = 3 => 2^b = 8
  BY SMT
<1>4. b = 4 => 2^b = 16
  BY SMT
<1>5. b = 5 => 2^b = 32
  BY SMT
<1>6. b = 6 => 2^b = 64
  BY SMT
<1>7. b = 7 => 2^b = 128
  BY SMT
<1>8. b = 8 => 2^b = 256
  BY SMT
<1>9. b = 9 => 2^b = 512
  BY SMT
<1>10. b = 10 => 2^b = 1024
  BY SMT
<1>11. b = 11 => 2^b = 2048
  BY SMT
<1>12. b = 12 => 2^b = 4096
  BY SMT
<1>13. b = 13 => 2^b = 8192
  BY SMT
<1>14. b = 14 => 2^b = 16384
  BY SMT
<1>15. b = 15 => 2^b = 32768
  BY SMT
<1>16. b = 16 => 2^b = 65536
  BY SMT
<1>17. b = 17 => 2^b = 131072
  BY SMT
<1>18. b = 18 => 2^b = 262144
  BY SMT
<1>19. b = 19 => 2^b = 524288
  BY SMT
<1>20. b = 20 => 2^b = 1048576
  BY SMT
<1>21. b = 21 => 2^b = 2097152
  BY SMT
<1>22. b = 22 => 2^b = 4194304
  BY SMT
<1>23. b = 23 => 2^b = 8388608
  BY SMT
<1>24. b = 24 => 2^b = 16777216
  BY SMT
<1>25. b = 25 => 2^b = 33554432
  BY SMT
<1>26. b = 26 => 2^b = 67108864
  BY SMT
<1>27. b = 27 => 2^b = 134217728
  BY SMT
<1>28. b = 28 => 2^b = 268435456
  BY SMT
<1>29. b = 29 => 2^b = 536870912
  BY SMT
<1>30. b = 30 => 2^b = 1073741824
  BY SMT
<1>31. b = 0 \/ b = 1 \/ b = 2 \/ b = 3 \/ b = 4 \/ b = 5 \/ b = 6 \/ b = 7 \/ b = 8 \/ b = 9 \/ b = 10 \/ b = 11 \/ b = 12 \/ b = 13 \/ b = 14 \/ b = 15 \/ b = 16 \/ b = 17 \/ b = 18 \/ b = 19 \/ b = 20 \/ b = 21 \/ b = 22 \/ b = 23 \/ b = 24 \/ b = 25 \/ b = 26 \/ b = 27 \/ b = 28 \/ b = 29 \/ b = 30
  BY SMT
<1> QED BY <1>0, <1>1, <1>2, <1>3, <1>4, <1>5, <1>6, <1>7, <1>8, <1>9, <1>10, <1>11, <1>12, <1>13, <1>14, <1>15, <1>16, <1>17, <1>18, <1>19, <1>20, <1>21, <1>22, <1>23, <1>24, <1>25, <1>26, <1>27, <1>28, <1>29, <1>30, <1>31, SMT

\* A number has no bits from the one that is greater than it.
LEMMA HighBits ==
  ASSUME NEW n \in Nat, NEW b \in 0..30, 2^b > n
  PROVE  b \notin Bits(n)
<1>1. PICK m \in Nat : m = 2^b
  BY Powers
<1>2. m > n
  BY <1>1
<1>3. n \div m = 0
  BY <1>2
<1>4. (n \div 2^b) % 2 = 0
  BY <1>1, <1>3
<1> QED BY <1>4 DEF Bits

\* The bits of a number below 16.
LEMMA SmallBits ==
  ASSUME NEW n \in 0..15
  PROVE  /\ Bits(n) \subseteq 0..3
         /\ 0 \in Bits(n) <=> n % 2 = 1
         /\ 1 \in Bits(n) <=> (n \div 2) % 2 = 1
         /\ 2 \in Bits(n) <=> (n \div 4) % 2 = 1
         /\ 3 \in Bits(n) <=> (n \div 8) % 2 = 1
<1>1. Bits(n) \subseteq 0..30
  BY DEF Bits
<1>2. \A b \in 0..30 : b > 3 => b \notin Bits(n)
  <2>1. ASSUME NEW b \in 0..30, b > 3 PROVE b \notin Bits(n)
    <3>1. PICK m : m = 2^b
      OBVIOUS
    <3>2. m > 15 /\ m \in Nat
      BY <2>1, <3>1, Powers
    <3>3. m > n /\ n \in Nat
      BY <3>2
    <3>4. 2^b > n
      BY <3>1, <3>3
    <3> QED BY <3>3, <3>4, HighBits
  <2> QED BY <2>1
<1>3. Bits(n) \subseteq 0..3
  BY <1>1, <1>2
<1>4. 2^0 = 1 /\ 2^1 = 2 /\ 2^2 = 4 /\ 2^3 = 8
  BY SMT
<1>5. /\ 0 \in Bits(n) <=> (n \div 2^0) % 2 = 1
      /\ 1 \in Bits(n) <=> (n \div 2^1) % 2 = 1
      /\ 2 \in Bits(n) <=> (n \div 2^2) % 2 = 1
      /\ 3 \in Bits(n) <=> (n \div 2^3) % 2 = 1
  <2>1. \A b \in 0..30 : b \in Bits(n) <=> (n \div 2^b) % 2 = 1
    BY Zenon DEF Bits
  <2>2. 0 \in 0..30 /\ 1 \in 0..30 /\ 2 \in 0..30 /\ 3 \in 0..30
    OBVIOUS
  <2> QED BY <2>1, <2>2, Zenon
<1>6. n \div 1 = n
  OBVIOUS
<1> QED BY <1>3, <1>4, <1>5, <1>6, SMT

\* The codes that tell words and commands apart.
LEMMA CodeBits ==
  /\ Bits(0) = {} /\ Bits(1) = {0} /\ Bits(2) = {1} /\ Bits(4) = {2} /\ Bits(8) = {3}
  /\ 3 \in Bits(9) /\ 3 \in Bits(15)
<1>1. \A x : x \in 0..3 <=> x = 0 \/ x = 1 \/ x = 2 \/ x = 3
  OBVIOUS
<1>2. Bits(0) = {}
  <2>1. Bits(0) \subseteq 0..3 /\ 0 \notin Bits(0) /\ 1 \notin Bits(0) /\ 2 \notin Bits(0) /\ 3 \notin Bits(0)
    BY SmallBits, SMT
  <2> QED BY <2>1, <1>1
<1>3. Bits(1) = {0}
  <2>1. Bits(1) \subseteq 0..3 /\ 0 \in Bits(1) /\ 1 \notin Bits(1) /\ 2 \notin Bits(1) /\ 3 \notin Bits(1)
    BY SmallBits, SMT
  <2> QED BY <2>1, <1>1
<1>4. Bits(2) = {1}
  <2>1. Bits(2) \subseteq 0..3 /\ 0 \notin Bits(2) /\ 1 \in Bits(2) /\ 2 \notin Bits(2) /\ 3 \notin Bits(2)
    BY SmallBits, SMT
  <2> QED BY <2>1, <1>1
<1>5. Bits(4) = {2}
  <2>1. Bits(4) \subseteq 0..3 /\ 0 \notin Bits(4) /\ 1 \notin Bits(4) /\ 2 \in Bits(4) /\ 3 \notin Bits(4)
    BY SmallBits, SMT
  <2> QED BY <2>1, <1>1
<1>6. Bits(8) = {3}
  <2>1. Bits(8) \subseteq 0..3 /\ 0 \notin Bits(8) /\ 1 \notin Bits(8) /\ 2 \notin Bits(8) /\ 3 \in Bits(8)
    BY SmallBits, SMT
  <2> QED BY <2>1, <1>1
<1>7. 3 \in Bits(9) /\ 3 \in Bits(15)
  BY SmallBits, SMT
<1> QED BY <1>2, <1>3, <1>4, <1>5, <1>6, <1>7

\* The target of a branch in a program of less than 2^19 words fits its field.
LEMMA LabelBits ==
  ASSUME NEW n \in Nat, n < 2^19
  PROVE  Bits(n) \subseteq 0..18
<1>1. ASSUME NEW b \in 0..30, b > 18 PROVE b \notin Bits(n)
  <2>1. PICK m : m = 2^b
    OBVIOUS
  <2>2. m >= 2^19 /\ m \in Nat
    BY <1>1, <2>1, Powers
  <2>3. m > n
    BY <2>2, SMT
  <2> QED BY <2>1, <2>3, HighBits
<1>2. Bits(n) \subseteq 0..30
  BY DEF Bits
<1> QED BY <1>1, <1>2

\* The five bits that say which unit executes a word.
LEMMA UnitBits ==
  ASSUME NEW i \in SUBSET (0..63)
  PROVE  /\ Shr(i, OP_CODE) \subseteq 0..4
         /\ \A b \in 0..4 : b \in Shr(i, OP_CODE) <=> b + 59 \in i
<1>1. \A x : x \in Shr(i, OP_CODE) <=> \E c \in i : c >= 59 /\ x = c - 59
  BY DEF Shr, OP_CODE
<1>2. \A c \in i : c \in Int /\ c <= 63
  OBVIOUS
<1>3. Shr(i, OP_CODE) \subseteq 0..4
  BY <1>1, <1>2
<1>4. ASSUME NEW b \in 0..4 PROVE b \in Shr(i, OP_CODE) <=> b + 59 \in i
  <2>1. ASSUME b + 59 \in i PROVE b \in Shr(i, OP_CODE)
    <3>1. b + 59 >= 59 /\ b = (b + 59) - 59
      OBVIOUS
    <3> QED BY <2>1, <3>1, <1>1
  <2>2. ASSUME b \in Shr(i, OP_CODE) PROVE b + 59 \in i
    <3>1. PICK c \in i : c >= 59 /\ b = c - 59
      BY <2>2, <1>1
    <3>2. c = b + 59
      BY <3>1, <1>2
    <3> QED BY <3>2
  <2> QED BY <2>1, <2>2
<1> QED BY <1>3, <1>4

\* A branch has the bit of its unit and no other.
LEMMA BranchUnit ==
  ASSUME NEW i \in SUBSET (0..63)
  PROVE  is_branch(i) <=> 62 \in i /\ 59 \notin i /\ 60 \notin i /\ 61 \notin i /\ 63 \notin i
<1>1. is_branch(i) <=> Shr(i, OP_CODE) = {3}
  BY CodeBits DEF is_branch
<1>2. Shr(i, OP_CODE) \subseteq 0..4 /\ \A b \in 0..4 : b \in Shr(i, OP_CODE) <=> b + 59 \in i
  BY UnitBits
<1>3. \A x : x \in 0..4 <=> x = 0 \/ x = 1 \/ x = 2 \/ x = 3 \/ x = 4
  OBVIOUS
<1>4. Shr(i, OP_CODE) = {3} <=> /\ 3 \in Shr(i, OP_CODE) /\ 0 \notin Shr(i, OP_CODE)
                                /\ 1 \notin Shr(i, OP_CODE) /\ 2 \notin Shr(i, OP_CODE)
                                /\ 4 \notin Shr(i, OP_CODE)
  BY <1>2, <1>3
<1>5. /\ 0 \in Shr(i, OP_CODE) <=> 59 \in i
      /\ 1 \in Shr(i, OP_CODE) <=> 60 \in i
      /\ 2 \in Shr(i, OP_CODE) <=> 61 \in i
      /\ 3 \in Shr(i, OP_CODE) <=> 62 \in i
      /\ 4 \in Shr(i, OP_CODE) <=> 63 \in i
  <2>1. 0 + 59 = 59 /\ 1 + 59 = 60 /\ 2 + 59 = 61 /\ 3 + 59 = 62 /\ 4 + 59 = 63
    OBVIOUS
  <2> QED BY <1>2, <2>1
<1> QED BY <1>1, <1>4, <1>5

\* The fields for the target of a conditional branch and of a jump.
LEMMA TargetBit ==
  ASSUME NEW i \in SUBSET (0..63)
  PROVE  /\ \A b : b \in Field(i, BR_TGT, 19) <=> b \in 0..18 /\ b + 8 \in i
         /\ \A b : b \in Field(i, 0, 27) <=> b \in 0..26 /\ b \in i
<1>1. \A b : b \in Field(i, BR_TGT, 19) <=> b \in 0..18 /\ \E c \in i : c >= 8 /\ b = c - 8
  BY DEF Field, Shr, BR_TGT
<1>2. \A b : b \in Field(i, 0, 27) <=> b \in 0..26 /\ \E c \in i : c >= 0 /\ b = c - 0
  BY DEF Field, Shr
<1>3. \A c \in i : c \in Nat
  OBVIOUS
<1>4. ASSUME NEW b \in 0..18 PROVE (\E c \in i : c >= 8 /\ b = c - 8) <=> b + 8 \in i
  <2>1. ASSUME b + 8 \in i PROVE \E c \in i : c >= 8 /\ b = c - 8
    <3>1. b + 8 >= 8 /\ b = (b + 8) - 8
      OBVIOUS
    <3> QED BY <2>1, <3>1
  <2>2. ASSUME NEW c \in i, c >= 8, b = c - 8 PROVE b + 8 \in i
    <3>1. b + 8 = c
      BY <1>3, <2>2
    <3> QED BY <3>1
  <2> QED BY <2>1, <2>2
<1>5. ASSUME NEW b \in 0..26 PROVE (\E c \in i : c >= 0 /\ b = c - 0) <=> b \in i
  <2>1. ASSUME b \in i PROVE \E c \in i : c >= 0 /\ b = c - 0
    <3>1. b >= 0 /\ b = b - 0
      OBVIOUS
    <3> QED BY <2>1, <3>1
  <2>2. ASSUME NEW c \in i, c >= 0, b = c - 0 PROVE b \in i
    <3>1. b = c
      BY <1>3, <2>2
    <3> QED BY <3>1
  <2> QED BY <2>1, <2>2
<1> QED BY <1>1, <1>2, <1>4, <1>5

\* One more bit has twice the value.
LEMMA Doubles ==
  ASSUME NEW b \in 0..30
  PROVE  2^(b + 1) = 2 * 2^b /\ 2^b \in Nat \ {0}
<1>0. b = 0 => 2^b = 1 /\ 2^(b + 1) = 2
  BY SMT
<1>1. b = 1 => 2^b = 2 /\ 2^(b + 1) = 4
  BY SMT
<1>2. b = 2 => 2^b = 4 /\ 2^(b + 1) = 8
  BY SMT
<1>3. b = 3 => 2^b = 8 /\ 2^(b + 1) = 16
  BY SMT
<1>4. b = 4 => 2^b = 16 /\ 2^(b + 1) = 32
  BY SMT
<1>5. b = 5 => 2^b = 32 /\ 2^(b + 1) = 64
  BY SMT
<1>6. b = 6 => 2^b = 64 /\ 2^(b + 1) = 128
  BY SMT
<1>7. b = 7 => 2^b = 128 /\ 2^(b + 1) = 256
  BY SMT
<1>8. b = 8 => 2^b = 256 /\ 2^(b + 1) = 512
  BY SMT
<1>9. b = 9 => 2^b = 512 /\ 2^(b + 1) = 1024
  BY SMT
<1>10. b = 10 => 2^b = 1024 /\ 2^(b + 1) = 2048
  BY SMT
<1>11. b = 11 => 2^b = 2048 /\ 2^(b + 1) = 4096
  BY SMT
<1>12. b = 12 => 2^b = 4096 /\ 2^(b + 1) = 8192
  BY SMT
<1>13. b = 13 => 2^b = 8192 /\ 2^(b + 1) = 16384
  BY SMT
<1>14. b = 14 => 2^b = 16384 /\ 2^(b + 1) = 32768
  BY SMT
<1>15. b = 15 => 2^b = 32768 /\ 2^(b + 1) = 65536
  BY SMT
<1>16. b = 16 => 2^b = 65536 /\ 2^(b + 1) = 131072
  BY SMT
<1>17. b = 17 => 2^b = 131072 /\ 2^(b + 1) = 262144
  BY SMT
<1>18. b = 18 => 2^b = 262144 /\ 2^(b + 1) = 524288
  BY SMT
<1>19. b = 19 => 2^b = 524288 /\ 2^(b + 1) = 1048576
  BY SMT
<1>20. b = 20 => 2^b = 1048576 /\ 2^(b + 1) = 2097152
  BY SMT
<1>21. b = 21 => 2^b = 2097152 /\ 2^(b + 1) = 4194304
  BY SMT
<1>22. b = 22 => 2^b = 4194304 /\ 2^(b + 1) = 8388608
  BY SMT
<1>23. b = 23 => 2^b = 8388608 /\ 2^(b + 1) = 16777216
  BY SMT
<1>24. b = 24 => 2^b = 16777216 /\ 2^(b + 1) = 33554432
  BY SMT
<1>25. b = 25 => 2^b = 33554432 /\ 2^(b + 1) = 67108864
  BY SMT
<1>26. b = 26 => 2^b = 67108864 /\ 2^(b + 1) = 134217728
  BY SMT
<1>27. b = 27 => 2^b = 134217728 /\ 2^(b + 1) = 268435456
  BY SMT
<1>28. b = 28 => 2^b = 268435456 /\ 2^(b + 1) = 536870912
  BY SMT
<1>29. b = 29 => 2^b = 536870912 /\ 2^(b + 1) = 1073741824
  BY SMT
<1>30. b = 30 => 2^b = 1073741824 /\ 2^(b + 1) = 2147483648
  BY SMT
<1>31. b = 0 \/ b = 1 \/ b = 2 \/ b = 3 \/ b = 4 \/ b = 5 \/ b = 6 \/ b = 7 \/ b = 8 \/ b = 9 \/ b = 10 \/ b = 11 \/ b = 12 \/ b = 13 \/ b = 14 \/ b = 15 \/ b = 16 \/ b = 17 \/ b = 18 \/ b = 19 \/ b = 20 \/ b = 21 \/ b = 22 \/ b = 23 \/ b = 24 \/ b = 25 \/ b = 26 \/ b = 27 \/ b = 28 \/ b = 29 \/ b = 30
  BY SMT
<1> QED BY <1>0, <1>1, <1>2, <1>3, <1>4, <1>5, <1>6, <1>7, <1>8, <1>9, <1>10, <1>11, <1>12, <1>13, <1>14, <1>15, <1>16, <1>17, <1>18, <1>19, <1>20, <1>21, <1>22, <1>23, <1>24, <1>25, <1>26, <1>27, <1>28, <1>29, <1>30, <1>31, SMT

\* The remainder by twice a number is that by the number, and half of the rest decides on one more.
LEMMA DoubleRemainder ==
  ASSUME NEW n \in Nat, NEW p \in Nat \ {0}
  PROVE  n % (2 * p) = (n % p) + (IF (n \div p) % 2 = 1 THEN p ELSE 0)
<1>1. PICK q \in Nat, r \in Nat : q = n \div p /\ r = n % p /\ n = q * p + r /\ r < p
  BY SMT
<1>2. PICK h \in Nat, c \in {0, 1} : q = 2 * h + c /\ c = q % 2
  BY SMT
<1>3. PICK d \in Nat \ {0} : d = 2 * p
  BY SMT
<1>4. PICK s \in Nat : s = (IF c = 1 THEN p ELSE 0) + r
  BY SMT
<1>5. s < d
  BY <1>1, <1>3, <1>4
<1>6. n = h * d + s
  <2>0. h \in Int /\ p \in Int /\ c \in Int /\ q \in Int /\ d \in Int
    OBVIOUS
  <2>1. q * p = 2 * (h * p) + c * p
    BY <1>2, SMT
  <2>2. h * d = 2 * (h * p)
    BY <1>3, SMT
  <2>3. c * p = IF c = 1 THEN p ELSE 0
    BY SMT
  <2>4. h * p \in Int /\ c * p \in Int
    BY <2>0
  <2>5. PICK x \in Int, y \in Int : x = h * p /\ y = c * p
    BY <2>4
  <2>6. n = 2 * x + y + r
    BY <1>1, <2>1, <2>5
  <2>7. s = y + r
    BY <1>4, <2>3, <2>5
  <2>8. h * d = 2 * x
    BY <2>2, <2>5
  <2> QED BY <2>5, <2>6, <2>7, <2>8
<1>7. (h * d + s) % d = s
  BY <1>5, SMT
<1>8. n % d = s
  BY <1>6, <1>7, Zenon
<1> QED BY <1>1, <1>2, <1>3, <1>4, <1>8

\* The value of a word, by the bits below number b.
LEMMA ValueAddsUp ==
  ASSUME NEW w
  PROVE  \E f \in [0..31 -> Nat] :
           /\ f[0] = 0 /\ \A b \in 0..30 : f[b + 1] = f[b] + (IF b \in w THEN 2^b ELSE 0)
           /\ Value(w) = f[31]
<1> DEFINE Is(f) == f = [b \in 0..31 |-> IF b = 0 THEN 0
                                         ELSE f[b - 1] + (IF b - 1 \in w THEN 2^(b - 1) ELSE 0)]
           sum   == CHOOSE f : Is(f)
           bit   == [b \in 1..31 |-> IF b - 1 \in w THEN 2^(b - 1) ELSE 0]
           step  == [b \in 1..31 |-> [x \in Nat |-> x + bit[b]]]
<1>1. Value(w) = sum[31]
  BY DEF Value
<1>2. bit \in [1..31 -> Nat]
  <2>1. \A b \in 1..31 : b - 1 \in 0..30
    BY SMT
  <2>2. \A b \in 1..31 : 2^(b - 1) \in Nat
    BY <2>1, Powers
  <2> QED BY <2>2
<1>3. \A b \in 1..31 : bit[b] = IF b - 1 \in w THEN 2^(b - 1) ELSE 0
  OBVIOUS
<1> HIDE DEF bit
<1>4. step \in [1..31 -> [Nat -> Nat]]
  BY <1>2
<1>5. PICK f \in [0..31 -> Nat] : f[0] = 0 /\ \A b \in 1..31 : f[b] = step[b][f[b - 1]]
  <2> HIDE DEF step
  <2>1. Iterations(Nat, 31, 0, step) # {}
    BY <1>4, Iterates
  <2> QED BY <2>1 DEF Iterations
<1>6. ASSUME NEW b \in 1..31 PROVE f[b] = f[b - 1] + bit[b]
  <2>1. b - 1 \in 0..31
    OBVIOUS
  <2>2. f[b - 1] \in Nat
    BY <1>5, <2>1
  <2> QED BY <1>5, <2>2
<1>7. Is(f)
  BY <1>3, <1>5, <1>6
<1>8. Is(sum)
  <2>1. \E g : Is(g)
    <3> HIDE DEF Is
    <3> QED BY <1>7, Zenon
  <2> HIDE DEF Is
  <2> QED BY <2>1, Zenon
<1>9. ASSUME NEW b \in 0..31 PROVE sum[b] = IF b = 0 THEN 0 ELSE sum[b - 1] + bit[b]
  <2> HIDE DEF sum
  <2>1. sum[b] = IF b = 0 THEN 0 ELSE sum[b - 1] + (IF b - 1 \in w THEN 2^(b - 1) ELSE 0)
    BY <1>8, Zenon
  <2>2. b # 0 => b \in 1..31
    OBVIOUS
  <2> QED BY <1>3, <2>1, <2>2, Zenon
<1> HIDE DEF sum
<1>10. \A b \in 0..31 : sum[b] = f[b]
  <2> DEFINE T == {k \in Nat : k <= 31 => sum[k] = f[k]}
  <2>1. 0 \in T
    BY <1>5, <1>9
  <2>2. ASSUME NEW k \in Nat, k \in T PROVE k + 1 \in T
    <3> SUFFICES ASSUME k + 1 <= 31 PROVE sum[k + 1] = f[k + 1]
      OBVIOUS
    <3>1. k + 1 \in 1..31 /\ k + 1 \in 0..31 /\ k + 1 # 0 /\ (k + 1) - 1 = k /\ k <= 31
      OBVIOUS
    <3>2. sum[k] = f[k]
      BY <2>2, <3>1
    <3> QED BY <1>6, <1>9, <3>1, <3>2
  <2>3. Nat \subseteq T
    <3> HIDE DEF T
    <3> QED BY <2>1, <2>2, InductionBySet
  <2>4. \A b \in 0..31 : b \in Nat /\ b <= 31
    OBVIOUS
  <2> QED BY <2>3, <2>4
<1>11. ASSUME NEW b \in 0..30 PROVE f[b + 1] = f[b] + (IF b \in w THEN 2^b ELSE 0)
  <2>1. b + 1 \in 1..31 /\ (b + 1) - 1 = b
    OBVIOUS
  <2> QED BY <1>3, <1>6, <2>1
<1>12. Value(w) = f[31]
  <2>1. 31 \in 0..31
    OBVIOUS
  <2> QED BY <1>1, <1>10, <2>1
<1> QED BY <1>5, <1>11, <1>12

\* The numbers that Bits has all bits of.
Positive == {n \in Nat : n < 2^31}

\* The value of a number's bits is the number.
LEMMA ValueOfBits ==
  ASSUME NEW n \in Positive
  PROVE  Value(Bits(n)) = n
<1>1. PICK f \in [0..31 -> Nat] :
        /\ f[0] = 0 /\ \A b \in 0..30 : f[b + 1] = f[b] + (IF b \in Bits(n) THEN 2^b ELSE 0)
        /\ Value(Bits(n)) = f[31]
  BY ValueAddsUp
<1>0. n \in Nat
  BY DEF Positive
<1> DEFINE T == {k \in Nat : k <= 31 => f[k] = n % 2^k}
<1>2. 0 \in T
  <2>1. 2^0 = 1
    BY SMT
  <2>2. n % 1 = 0
    BY <1>0, SMT
  <2> QED BY <1>1, <2>1, <2>2
<1>3. ASSUME NEW k \in Nat, k \in T PROVE k + 1 \in T
  <2> SUFFICES ASSUME k + 1 <= 31 PROVE f[k + 1] = n % 2^(k + 1)
    OBVIOUS
  <2>1. k \in 0..30 /\ k <= 31
    OBVIOUS
  <2>2. PICK p \in Nat \ {0} : p = 2^k /\ 2^(k + 1) = 2 * p
    BY <2>1, Doubles
  <2>3. f[k] = n % p
    BY <1>3, <2>1, <2>2
  <2>4. k \in Bits(n) <=> (n \div p) % 2 = 1
    BY <2>1, <2>2, Zenon DEF Bits
  <2>5. f[k + 1] = f[k] + (IF k \in Bits(n) THEN p ELSE 0)
    BY <1>1, <2>1, <2>2
  <2>6. n % (2 * p) = (n % p) + (IF (n \div p) % 2 = 1 THEN p ELSE 0)
    BY <1>0, DoubleRemainder
  <2> QED BY <2>2, <2>3, <2>4, <2>5, <2>6, Zenon
<1>4. Nat \subseteq T
  <2> HIDE DEF T
  <2> QED BY <1>2, <1>3, InductionBySet
<1>5. f[31] = n % 2^31
  <2>1. 31 \in T
    BY <1>4
  <2> QED BY <2>1
<1>6. n % 2^31 = n
  <2>1. PICK p \in Nat : p = 2^31
    BY SMT
  <2>2. n < p
    BY <2>1 DEF Positive
  <2>3. n % p = n
    BY <1>0, <2>2
  <2> QED BY <2>1, <2>3
<1> QED BY <1>1, <1>5, <1>6

\* Different numbers have different bits.
LEMMA BitsTell ==
  ASSUME NEW m \in Positive, NEW n \in Positive, Bits(m) = Bits(n)
  PROVE  m = n
BY ValueOfBits

-----------------------------------------------------------------------------
(* Fields *)

\* The bits of w, moved up to start at number at.
Placed(w, at) == {b + at : b \in w}

LEMMA PlacedHas ==
  ASSUME NEW w \in SUBSET Int, NEW at \in Int
  PROVE  \A x \in Int : x \in Placed(w, at) <=> x - at \in w
<1> SUFFICES ASSUME NEW x \in Int PROVE x \in Placed(w, at) <=> x - at \in w
  OBVIOUS
<1>1. ASSUME x - at \in w PROVE x \in Placed(w, at)
  <2>1. x = (x - at) + at
    OBVIOUS
  <2> QED BY <1>1, <2>1 DEF Placed
<1>2. ASSUME x \in Placed(w, at) PROVE x - at \in w
  <2>1. PICK b \in w : x = b + at
    BY <1>2 DEF Placed
  <2>2. b = x - at
    BY <2>1
  <2> QED BY <2>2
<1> QED BY <1>1, <1>2

\* A shift moves bits that stay within the word.
LEMMA ShiftPlaces ==
  ASSUME NEW w, NEW n \in Nat, w \subseteq 0..n, NEW at \in Nat, NEW width \in Nat, n + at < width
  PROVE  Shl(w, at, width) = Placed(w, at)
<1>1. \A b \in w : b + at \in 0..(width - 1)
  OBVIOUS
<1> QED BY <1>1 DEF Shl, Placed

LEMMA IntShiftPlaces ==
  ASSUME NEW w, NEW n \in Nat, w \subseteq 0..n, NEW at \in Nat, n + at < 31
  PROVE  IntShl(w, at) = Placed(w, at)
<1>1. Shl(w, at, 32) = Placed(w, at)
  <2>1. n + at < 32
    OBVIOUS
  <2> QED BY <2>1, ShiftPlaces
<1>2. 31 \notin Placed(w, at)
  BY DEF Placed
<1> QED BY <1>1, <1>2 DEF IntShl, SignExtend

\* A field has the bits of the word from its start on.
LEMMA FieldHas ==
  ASSUME NEW i \in SUBSET Int, NEW at \in Int, NEW width \in Int
  PROVE  \A b : b \in Field(i, at, width) <=> b \in 0..(width - 1) /\ b + at \in i
<1> SUFFICES ASSUME NEW b \in 0..(width - 1)
             PROVE  b \in Shr(i, at) <=> b + at \in i
  BY DEF Field
<1>1. ASSUME b + at \in i PROVE b \in Shr(i, at)
  <2>1. b + at >= at /\ b = (b + at) - at
    OBVIOUS
  <2> QED BY <1>1, <2>1 DEF Shr
<1>2. ASSUME b \in Shr(i, at) PROVE b + at \in i
  <2>1. PICK c \in i : c >= at /\ b = c - at
    BY <1>2 DEF Shr
  <2>2. c = b + at
    BY <2>1
  <2> QED BY <2>2
<1> QED BY <1>1, <1>2

\* w is the field of a word that starts at number at.
HasField(i, at, width, w) ==
  w \subseteq 0..(width - 1) /\ \A b \in 0..(width - 1) : b + at \in i <=> b \in w

LEMMA FieldIs ==
  ASSUME NEW i \in SUBSET Int, NEW at \in Int, NEW width \in Int, NEW w, HasField(i, at, width, w)
  PROVE  Field(i, at, width) = w
<1>1. \A b : b \in Field(i, at, width) <=> b \in 0..(width - 1) /\ b + at \in i
  BY FieldHas
<1>2. \A b : b \in Field(i, at, width) <=> b \in w
  BY <1>1 DEF HasField
<1> QED BY <1>2

\* The powers from 2^11 on.
LEMMA CodePowers ==
  ASSUME NEW b \in 0..30, b > 10
  PROVE  2^b >= 2^11
<1>11. b = 11 => 2^b >= 2^11
  BY SMT
<1>12. b = 12 => 2^b >= 2^11
  BY SMT
<1>13. b = 13 => 2^b >= 2^11
  BY SMT
<1>14. b = 14 => 2^b >= 2^11
  BY SMT
<1>15. b = 15 => 2^b >= 2^11
  BY SMT
<1>16. b = 16 => 2^b >= 2^11
  BY SMT
<1>17. b = 17 => 2^b >= 2^11
  BY SMT
<1>18. b = 18 => 2^b >= 2^11
  BY SMT
<1>19. b = 19 => 2^b >= 2^11
  BY SMT
<1>20. b = 20 => 2^b >= 2^11
  BY SMT
<1>21. b = 21 => 2^b >= 2^11
  BY SMT
<1>22. b = 22 => 2^b >= 2^11
  BY SMT
<1>23. b = 23 => 2^b >= 2^11
  BY SMT
<1>24. b = 24 => 2^b >= 2^11
  BY SMT
<1>25. b = 25 => 2^b >= 2^11
  BY SMT
<1>26. b = 26 => 2^b >= 2^11
  BY SMT
<1>27. b = 27 => 2^b >= 2^11
  BY SMT
<1>28. b = 28 => 2^b >= 2^11
  BY SMT
<1>29. b = 29 => 2^b >= 2^11
  BY SMT
<1>30. b = 30 => 2^b >= 2^11
  BY SMT
<1>31. b = 11 \/ b = 12 \/ b = 13 \/ b = 14 \/ b = 15 \/ b = 16 \/ b = 17 \/ b = 18 \/ b = 19 \/ b = 20 \/ b = 21 \/ b = 22 \/ b = 23 \/ b = 24 \/ b = 25 \/ b = 26 \/ b = 27 \/ b = 28 \/ b = 29 \/ b = 30
  BY SMT
<1> QED BY <1>11, <1>12, <1>13, <1>14, <1>15, <1>16, <1>17, <1>18, <1>19, <1>20, <1>21, <1>22, <1>23, <1>24, <1>25, <1>26, <1>27, <1>28, <1>29, <1>30, <1>31

\* A number below 2^11 fits a function code.
LEMMA CodeFits ==
  ASSUME NEW n \in Nat, n < 2^11
  PROVE  Bits(n) \subseteq 0..10
<1>1. ASSUME NEW b \in 0..30, b > 10 PROVE b \notin Bits(n)
  <2>1. PICK m : m = 2^b
    OBVIOUS
  <2>2. m >= 2^11 /\ m \in Nat
    BY <1>1, <2>1, Powers, CodePowers
  <2>3. m > n
    BY <2>2, SMT
  <2> QED BY <2>1, <2>3, HighBits
<1>2. Bits(n) \subseteq 0..30
  BY DEF Bits
<1> QED BY <1>1, <1>2

\* A flag is one bit, or none.
LEMMA FlagBits ==
  ASSUME NEW n \in {0, 1}
  PROVE  Bits(n) \subseteq {0}
BY CodeBits

\* A table of codes that are all different gives back the name.
LEMMA NameIsFound ==
  ASSUME NEW codes, NEW op \in DOMAIN codes,
         \A n \in DOMAIN codes : codes[n] \in Positive,
         \A n \in DOMAIN codes : codes[n] = codes[op] => n = op
  PROVE  NameOf(codes, Bits(codes[op])) = op
<1> DEFINE names == {n \in DOMAIN codes : Bits(codes[n]) = Bits(codes[op])}
<1>1. \A n \in names : n = op
  BY BitsTell
<1>2. op \in names
  OBVIOUS
<1>3. names = {op}
  BY <1>1, <1>2
<1>4. NameOf(codes, Bits(codes[op])) = IF names = {} THEN "none" ELSE CHOOSE n \in names : TRUE
  BY DEF NameOf
<1> HIDE DEF names
<1> QED BY <1>3, <1>4
=============================================================================
