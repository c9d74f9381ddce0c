----------------------------- MODULE RowMapping -----------------------------
(***************************************************************************)
(* Physical and logical rows: python/utils/row.py.  A DRAM chip may place  *)
(* the rows of an 8-row block in another order than their addresses; the   *)
(* scripts choose neighbours by physical row and send logical addresses.   *)
(***************************************************************************)
EXTENDS Integers

\* Addresses of 15 bits, as many as di_retention.py:78 refreshes.
Row == {n \in Nat : n < 32768}

\* addr >> 3, >> 10, ... & 1, and addr ^ 6.
Bit(addr, weight) == (addr \div weight) % 2
FlipBit(addr, weight) == IF Bit(addr, weight) = 0 THEN addr + weight ELSE addr - weight
Xor6(addr) == FlipBit(FlipBit(addr, 2), 4)

\* Mutant: the bit is looked for in the block that is exchanged.
type1Low(addr) == IF Bit(addr, 4) = 1 THEN Xor6(addr) ELSE addr

type1(addr) == IF Bit(addr, 8) = 1 THEN Xor6(addr) ELSE addr

\* The parity of the bits of 0x5408.
type2(addr) ==
  IF (Bit(addr, 8) + Bit(addr, 1024) + Bit(addr, 4096) + Bit(addr, 16384)) % 2 = 1
  THEN Xor6(addr) ELSE addr

Unmapped == -1  \* None: a mapping that map_row does not know

map_row(addr, mapping) ==
  CASE mapping \in {"SA0", "MI0"}     -> type1(addr)
    [] mapping = "MI1"                -> type2(addr)
    [] mapping \in {"Linear", "None"} -> addr
    [] OTHER                          -> Unmapped

Known == {"SA0", "MI0", "MI1", "Linear", "None"}
=============================================================================
