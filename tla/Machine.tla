------------------------------ MODULE Machine ------------------------------
(***************************************************************************)
(* Generated programs at work: the host executes a session, a sequence of  *)
(* generated programs, on the SoftMC core and its DRAM, and then compares  *)
(* what was read with the patterns that were written (get_bitflips of      *)
(* python-bindings/pyDRAMBender.cpp).                                      *)
(*                                                                         *)
(* The core and the DRAM are not in the repository: they are modelled from *)
(* what the encoders, decode_inst and the comments of the generators say.  *)
(* An instruction takes one fabric cycle of 6 ns (instruction.h:127), in   *)
(* which a word of DDR commands issues one command in each of four slots;  *)
(* a branch takes BranchCycles.                                            *)
(***************************************************************************)
EXTENDS Generators

CONSTANTS
  Sessions,     \* [progs: calls of generators, patterns: what get_bitflips is given]
  Banks, Rows,  \* size of the DRAM
  Junk,         \* what the registers may hold when a session starts
  BranchCycles, \* cycles of a branch: "This takes 6 cycles" (hammer_pattern.cpp:155)
  MaxFlips      \* bound: bits the DRAM flips in a session

ASSUME MachineAssumption ==
  /\ Bank \in 0..(Banks - 1) /\ Rows \in Nat \ {0}
  /\ Junk \subseteq Nat /\ BranchCycles \in Nat \ {0}

VARIABLES
  session,   \* the session
  prog,      \* number of the program that runs; 0 when none has been sent
  imem, pc,  \* the program on the core, and its next instruction, or Idle
  reg, mem,  \* registers and memory of the core
  wide,      \* the wide data register: a cache line
  open,      \* the row that is open in each bank, or Closed
  dram,      \* the cache lines of each row of each bank
  readback,  \* cache lines read and not yet received
  announced, \* reads that the last INFO announced and that have not come yet
  flipped,   \* [row, line]: what the DRAM changed by itself
  flips      \* what get_bitflips returned: none or one result

\* History: the activations of the program, each with the slots that the bank
\* was closed before it and open after it; slots since the last command that opened
\* or closed the bank; rules of the DRAM that were broken.
VARIABLES trace, since, faults

core == <<reg, mem, wide, open, dram, readback, announced>>
hist == <<trace, since, faults>>
vars == <<session, prog, imem, pc, core, flipped, flips, hist>>

Idle   == -1
Closed == -1

\* Long enough for every timing parameter: the time between two programs.
Long == 1000

-----------------------------------------------------------------------------
(* A session's programs *)

Text(c) ==
  CASE c.gen = "init_row"          -> init_row(Bank, c.rows[1], c.pattern)
    [] c.gen = "init_rows"         -> init_rows(Bank, c.rows, c.words)
    [] c.gen = "init_row_range"    -> init_row_range(Bank, c.start, c.end, c.pattern)
    [] c.gen = "read_row"          -> read_row(Bank, c.rows[1])
    [] c.gen = "read_rows"         -> read_rows(Bank, c.rows)
    [] c.gen = "read_row_range"    -> read_row_range(Bank, c.start, c.end)
    [] c.gen = "act_row"           -> act_row(Bank, c.rows[1], c.nRAS, c.nRP)
    [] c.gen = "act_rows"          -> act_rows(Bank, c.rows, c.nRAS, c.nRP)
    [] c.gen = "refresh_all_rows"  -> refresh_all_rows(Bank, c.end)
    [] c.gen = "rowclone"          -> rowclone(Bank, c.rows[1], c.rows[2], c.nRP)
    [] c.gen = "singleside_hammer" -> singleside_hammer(Bank, c.rows[1], c.count, c.on[1], c.off[1])
    [] c.gen = "doubleside_hammer" ->
         doubleside_hammer(Bank, c.rows[1], c.rows[2], c.count, c.on[1], c.off[1], c.on[2], c.off[2])
    [] c.gen = "frac"              -> frac(Bank, c.rows[1], c.word, c.nRAS, c.nRP, c.count)
    [] c.gen = "tWR_test"          -> tWR_test(Bank, c.rows[1], c.col, c.word, c.nWR)

\* An int of the code, as a number.
Signed(w) == Value(w \cap 0..30) - (IF 31 \in w THEN 2^30 + 2^30 ELSE 0)

\* What the core makes of a word.
Decode(i) ==
  IF is_ddr(i)
  THEN [op |-> "DDR", slots |-> [k \in 1..4 |-> MiniAt(i, k - 1)]]
  ELSE [op |-> Operation(i), rs1 |-> rs1Of(i), rs2 |-> rs2Of(i), rt |-> rtOf(i),
        imd1 |-> Value(imd1Of(i)), imd |-> imd_concatOf(i), bt |-> btOf(i), jt |-> jtOf(i)]

Call == session.progs[prog]

-----------------------------------------------------------------------------
(* The core *)

Init ==
  /\ session \in Sessions
  /\ prog = 0
  /\ imem = <<>>
  /\ pc = Idle
  /\ \E junk \in Junk : reg = [r \in 0..15 |-> Bits(junk)]
  /\ mem = <<>>
  /\ wide = [i \in 1..WideWords |-> {}]
  /\ \E row \in {Closed, 0} : open = [b \in 0..(Banks - 1) |-> row]
  /\ dram = [b \in 0..(Banks - 1) |-> [r \in 0..(Rows - 1) |->
               [l \in 0..(CacheLines - 1) |-> [i \in 1..WideWords |-> {5}]]]]
  /\ readback = <<>>
  /\ announced = 0
  /\ flipped = {}
  /\ flips = <<>>
  /\ trace = <<>>
  /\ since = Long
  /\ faults = {}

\* execute: the next program of the session is sent when the last has ended.
Execute ==
  /\ pc = Idle
  /\ prog < Len(session.progs)
  /\ prog' = prog + 1
  /\ imem' = Assembled(Text(session.progs[prog'])).program
  /\ pc' = 0
  /\ trace' = <<>>
  /\ since' = Long
  /\ UNCHANGED <<session, core, flipped, flips, faults>>

\* Registers hold words; sums wrap around as 32-bit numbers do, which the numbers
\* of the generators never reach.
Plus(w, n) == Bits(Signed(w) + n)

Mem(a) == IF a \in DOMAIN mem THEN mem[a] ELSE {}

Goes(target, cycles) ==
  /\ pc' = target
  /\ since' = since + 4 * cycles
  /\ UNCHANGED <<session, prog, imem, flipped, flips, trace>>

Arithmetic(w) ==
  LET value == CASE w.op = "LI"   -> w.imd
                 [] w.op = "ADDI" -> Plus(reg[w.rs1], w.imd1)
                 [] w.op = "LD"   -> Mem(Signed(reg[w.rs1]) + w.imd1)
  IN  /\ w.op \in {"LI", "ADDI", "LD"}
      /\ reg' = [reg EXCEPT ![w.rt] = value]
      /\ Goes(pc + 1, 1)
      /\ UNCHANGED <<mem, wide, open, dram, readback, announced, faults>>

Store(w) ==
  /\ w.op = "ST"
  /\ LET a == Signed(reg[w.rs1]) + w.imd1
     IN  mem' = [x \in DOMAIN mem \cup {a} |-> IF x = a THEN reg[w.rt] ELSE mem[x]]
  /\ Goes(pc + 1, 1)
  /\ UNCHANGED <<reg, wide, open, dram, readback, announced, faults>>

LoadWideData(w) ==
  /\ w.op = "LDWD"
  /\ wide' = [wide EXCEPT ![w.rt + 1] = reg[w.rs1]]
  /\ Goes(pc + 1, 1)
  /\ UNCHANGED <<reg, mem, open, dram, readback, announced, faults>>

BranchIfLess(w) ==
  /\ w.op = "BL"
  /\ Goes(IF Signed(reg[w.rs1]) < Signed(reg[w.rs2]) THEN w.bt ELSE pc + 1, BranchCycles)
  /\ UNCHANGED <<core, faults>>

\* A SLEEP of n cycles is encoded as n - 2.
Sleep(w) ==
  /\ w.op = "SLEEP"
  /\ Goes(pc + 1, w.jt + 2)
  /\ UNCHANGED <<core, faults>>

\* The INFO word announces the reads of the run behind it.
Info(w) ==
  /\ w.op = "INFO"
  /\ announced' = w.jt
  /\ Goes(pc + 1, 1)
  /\ UNCHANGED <<reg, mem, wide, open, dram, readback, faults>>

End(w) ==
  /\ w.op = "END"
  /\ pc' = Idle
  /\ UNCHANGED <<session, prog, imem, core, flipped, flips, hist>>

\* One command on the state of the DRAM and the core.
Increment(r, addr, flag, stride) == IF flag = 1 THEN [r EXCEPT ![addr] = Plus(@, Signed(r[stride]))] ELSE r

Command1(s, mini) ==
  LET m    == DecodeDDR(mini)
      b    == Signed(s.reg[m.bar]) % Banks
      row  == Signed(s.reg[m.addr]) % Rows
      line == (Signed(s.reg[m.addr]) \div Stride) % CacheLines
      bank == Increment(s.reg, m.bar, m.ibar, BASR)
      next == [s EXCEPT !.since = @ + 1]
      Fault(ok, what) == IF ok THEN s.faults ELSE s.faults \cup {what}
  IN  CASE DDROperation(mini) = "NOP" -> next
        [] m.op = "ACT" ->
             [next EXCEPT !.open[b] = row, !.since = 1,
                          !.trace = Append(@, [row |-> row, closed |-> s.since, open |-> Long]),
                          !.reg = Increment(bank, m.addr, m.iaddr, RASR),
                          !.faults = Fault(s.open[b] = Closed, "activated an open bank")]
        [] m.op = "PRE" /\ s.open[b] # Closed ->
             [next EXCEPT !.open[b] = Closed, !.since = 1,
                          !.trace = IF @ = <<>> THEN @ ELSE [@ EXCEPT ![Len(@)].open = s.since],
                          !.reg = bank]
        [] m.op = "WRITE" ->
             [next EXCEPT !.dram[b] = IF s.open[b] = Closed THEN @ ELSE [@ EXCEPT ![s.open[b]][line] = wide],
                          !.reg = Increment(bank, m.addr, m.iaddr, CASR),
                          !.faults = Fault(s.open[b] # Closed, "wrote to a closed bank")]
        [] m.op = "READ" ->
             [next EXCEPT !.readback = IF s.open[b] = Closed THEN @ ELSE Append(@, s.dram[b][s.open[b]][line]),
                          !.announced = IF @ > 0 THEN @ - 1 ELSE @,
                          !.reg = Increment(bank, m.addr, m.iaddr, CASR),
                          !.faults = Fault(s.open[b] # Closed, "read a closed bank")
                                       \cup Fault(s.announced > 0, "read what no INFO announced")]
        [] OTHER -> next

Commands(w) ==
  /\ w.op = "DDR"
  /\ \E s \in {FoldLeft(Command1, [reg |-> reg, open |-> open, dram |-> dram, readback |-> readback,
                                   announced |-> announced, trace |-> trace, since |-> since,
                                   faults |-> faults], w.slots)} :
       /\ reg' = s.reg /\ open' = s.open /\ dram' = s.dram /\ readback' = s.readback
       /\ announced' = s.announced /\ trace' = s.trace /\ since' = s.since /\ faults' = s.faults
  /\ pc' = pc + 1
  /\ UNCHANGED <<session, prog, imem, mem, wide, flipped, flips>>

Core ==
  /\ pc # Idle
  /\ \E w \in {Decode(imem[pc + 1])} :
       \/ Arithmetic(w)
       \/ Store(w)
       \/ LoadWideData(w)
       \/ BranchIfLess(w)
       \/ Sleep(w)
       \/ Info(w)
       \/ Commands(w)
       \/ End(w)

-----------------------------------------------------------------------------
(* Disturbance, and what the host makes of the data *)

Xor(v, w) == (v \ w) \cup (w \ v)

\* Before the last program of the session, a bit of a row of the bank flips.
Flip(row, line) ==
  /\ pc = Idle /\ prog = Len(session.progs) - 1
  /\ Cardinality(flipped) < MaxFlips
  /\ [row |-> row, line |-> line] \notin flipped
  /\ dram' = [dram EXCEPT ![Bank][row][line][1] = Xor(@, {0})]
  /\ flipped' = flipped \cup {[row |-> row, line |-> line]}
  /\ UNCHANGED <<session, prog, imem, pc, reg, mem, wide, open, readback, announced, flips, hist>>

\* Mutant: every pattern is compared with the first row.
GetBitflipsFirstRow ==
  LET lines == Len(session.patterns) * CacheLines
  IN  /\ pc = Idle /\ prog = Len(session.progs)
      /\ flips = <<>>
      /\ Len(readback) >= lines
      /\ flips' = <<[i \in 1..Len(session.patterns) |-> [l \in 0..(CacheLines - 1) |-> [w \in 1..WideWords |->
                     Xor(session.patterns[i][w], readback[l + 1][w])]]]>>
      /\ readback' = SubSeq(readback, lines + 1, Len(readback))
      /\ UNCHANGED <<session, prog, imem, pc, reg, mem, wide, open, dram, announced, flipped, hist>>

\* receiveData of one row for each pattern, then xor with the pattern, line by line.
GetBitflips ==
  LET patterns == session.patterns
      lines    == Len(patterns) * CacheLines
  IN  /\ pc = Idle /\ prog = Len(session.progs)
      /\ flips = <<>>
      /\ Len(readback) >= lines
      /\ flips' = <<[i \in 1..Len(patterns) |-> [l \in 0..(CacheLines - 1) |-> [w \in 1..WideWords |->
                     Xor(patterns[i][w], readback[(i - 1) * CacheLines + l + 1][w])]]]>>
      /\ readback' = SubSeq(readback, lines + 1, Len(readback))
      /\ UNCHANGED <<session, prog, imem, pc, reg, mem, wide, open, dram, announced, flipped, hist>>

\* The session is over.  A core that waits for ever, or a get_bitflips that does
\* not get its data, is a deadlock.
Done ==
  /\ flips # <<>>
  /\ UNCHANGED vars

Next ==
  \/ Execute
  \/ Core
  \/ \E row \in 0..(Rows - 1), line \in 0..(CacheLines - 1) : Flip(row, line)
  \/ GetBitflips
  \/ Done

Spec == Init /\ [][Next]_vars

-----------------------------------------------------------------------------
(* Properties *)

Lists == {"init_rows", "read_rows", "act_rows"}

\* Whatever the registers held and whichever row an earlier hammer left open,
\* a generated program activates only a precharged bank, reads and writes only
\* an open row, and every read it executes, in every round of its loops, has
\* been announced by the INFO words that conclude put in.
NoFaults == faults = {}

\* What the caller of a generator means by its arguments: the rows that are
\* activated, in order.  The loops test at their end: they make one round at least.
\* refresh_all_rows goes one row beyond the last.
From(start, end) == [i \in 1..(IF end > start THEN end - start ELSE 1) |-> start + i - 1]
Repeated(s, n)   == FlattenSeq([i \in 1..n |-> s])
AtLeast1(n)      == IF n = 0 THEN 1 ELSE n

Asked(c) ==
  CASE c.gen \in {"init_row", "read_row", "init_rows", "read_rows", "rowclone"} -> c.rows
    [] c.gen \in {"init_row_range", "read_row_range"} -> From(c.start, c.end)
    [] c.gen = "refresh_all_rows" -> From(0, AtLeast1(c.end) + 1)
    [] c.gen = "act_row"  -> Repeated(c.rows, 2)
    [] c.gen = "act_rows" -> FlattenSeq([i \in 1..Len(c.rows) |-> Repeated(<<c.rows[i]>>, 2)])
    [] c.gen \in {"singleside_hammer", "doubleside_hammer"} -> Repeated(c.rows, AtLeast1(c.count))
    [] c.gen = "frac"     -> Repeated(c.rows, c.count + 2)
    [] c.gen = "tWR_test" -> Repeated(c.rows, 3)

\* The loops over a list make one round, whatever row the memory of the core holds.
EmptyList(c)   == c.gen \in Lists /\ c.rows = <<>>
Activations(c) == IF EmptyList(c) THEN (IF c.gen = "act_rows" THEN 2 ELSE 1) ELSE Len(Asked(c))

\* A program activates the rows its caller asked for, each as often as asked and in that
\* order, and no others: hammers count exactly, lists and ranges lose no row, and no
\* loop goes on for ever.  Called with an empty list, a loop still activates a row.
ActivatesAsAsked ==
  prog > 0 =>
    /\ Len(trace) <= Activations(Call)
    /\ pc = Idle => Len(trace) = Activations(Call)
    /\ ~EmptyList(Call) => \A k \in 1..Len(trace) : trace[k].row = Asked(Call)[k] % Rows

\* Slots of 1.5 ns: tRAS of 36 ns, tRP of 15 ns.
tRAS == 24
tRP  == 10

\* Calls that ask for less than these are made to violate the timing.
Nominal(c) ==
  CASE c.gen \in {"act_row", "act_rows"} -> c.nRAS >= tRAS /\ c.nRP >= tRP
    [] c.gen = "rowclone" -> c.nRP >= tRP
    [] c.gen = "frac"     -> c.nRAS >= tRAS /\ c.nRP >= tRP
    [] c.gen = "tWR_test" -> c.nWR + 13 >= tRAS
    [] OTHER              -> TRUE

\* Additional time the caller of a hammer asks for: steps of 5 and of 3 cycles.
Longer(n, cycles) == IF n > 1 THEN 4 * cycles * (n - 1) ELSE 0
AskedClosed(c, k) ==
  CASE c.gen = "singleside_hammer" -> Longer(c.off[1], 3)
    [] c.gen = "doubleside_hammer" -> Longer(c.off[2 - (k % 2)], 3)
    [] OTHER -> 0
AskedOpen(c) == IF c.gen = "singleside_hammer" THEN Longer(c.on[1], 5) ELSE 0

\* Counting every instruction between two commands, branches included and
\* across the rounds of a loop, no row is closed before tRAS nor a bank
\* activated before tRP unless the caller asked for less; a hammer keeps its row
\* open and its bank closed for as much longer as it was asked to.
TimingMet ==
  prog > 0 /\ Nominal(Call) =>
    \A k \in 1..Len(trace) :
      /\ trace[k].closed >= tRP + AskedClosed(Call, k)
      /\ trace[k].open >= tRAS + AskedOpen(Call)

\* doubleside_hammer(bank, aggr1_id, aggr2_id, hammer_count, nAggON1, ...): each
\* aggressor stays open for as long as its own parameter asks.
EachAggressorOnAsAsked ==
  prog > 0 /\ Call.gen = "doubleside_hammer" =>
    \A k \in 1..Len(trace) : trace[k].open >= tRAS + Longer(Call.on[2 - (k % 2)], 5)

\* Which bits the host ought to find: those the DRAM flipped in the rows that the last
\* program read and did not write itself, and for tWR_test the line that was
\* written last, with the complement of the pattern.
LastCall == Last(session.progs)
Differs(i, l, w) ==
  IF LastCall.gen = "tWR_test" THEN (IF l = LastCall.col THEN 0..31 ELSE {})
  ELSE IF w = 1 /\ LastCall.gen # "frac" /\ [row |-> Asked(LastCall)[i], line |-> l] \in flipped THEN {0} ELSE {}

\* What get_bitflips reports is what happened in the DRAM: whichever row and
\* line flips between writing and reading, it is found at that row, line and word, and
\* nothing else is.  Rows go through the memory of the core, the wide
\* register, the column counter and the readback on their way.
FlipsAreReported ==
  flips # <<>> =>
    flips[1] = [i \in 1..Len(session.patterns) |-> [l \in 0..(CacheLines - 1) |-> [w \in 1..WideWords |->
              Differs(i, l, w)]]]

\* Nothing is left over for the next get_bitflips, except the row that is read for an
\* empty list: it would be taken for the first row of the next experiment.
NothingLeftOver ==
  flips # <<>> => Len(readback) = IF EmptyList(LastCall) THEN CacheLines ELSE 0
=============================================================================
