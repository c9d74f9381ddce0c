----------------------------- MODULE MCCampaign -----------------------------
(* Small campaigns for TLC: two victims on both sides of the boundary of a block
   that the mappings reorder, on chips that differ in their flips and losses.   *)
EXTENDS Campaign

Rows == <<7, 8>>

Counts == [t \in {"Upper", "Lower", "Double"} |-> IF t = "Double" THEN <<1, 2, 3>> ELSE <<2, 4>>]

\* flips[row][pattern]: by a double-sided hammer, the flips at counts 1, 2 and 3; a
\* single-sided one does at n what a double-sided does below it.
Ones  == "FFFFFFFF"
Zeros == "00000000"
Flipping(flips) ==
  [x \in Measuring \X {7, 8} \X {Ones, Zeros} \X {"Upper", "Lower", "Double"} \X (0..4) |->
     LET n == CASE x[4] = "Double" -> x[5] [] x[4] = "Upper" -> x[5] - 1 [] OTHER -> x[5] - 2
     IN  IF n \in 1..3 THEN flips[x[2]][x[3]][n] ELSE 0]
Row7And8(ones7, zeros7, ones8, zeros8) ==
  [v \in {7, 8} |-> [p \in {Ones, Zeros} |->
     CASE v = 7 /\ p = Ones -> ones7 [] v = 7 -> zeros7 [] v = 8 /\ p = Ones -> ones8 [] OTHER -> zeros8]]

\* lost[row][pattern]: after the waits of 2 and of 4, of the rows at the addresses 7 and 8.
Losing(map, lost) ==
  [x \in {map_row(v, map) : v \in {7, 8}} \X {Ones, Zeros} \X {2, 4} |->
     LET v == CHOOSE v \in {7, 8} : map_row(v, map) = x[1] IN lost[v][x[2]][x[3] \div 2]]

Chip(map, flips, lost) == [mapping |-> map, flips |-> Flipping(flips), lost |-> Losing(map, lost)]

\* Rows that flip more and more; that flip at one count and not at the next; never with a
\* pattern.  Rows that lose ones, zeros, few and many.
SomeChips ==
  {Chip("SA0", Row7And8(<<1, 2, 3>>, <<1, 1, 2>>, <<0, 1, 2>>, <<0, 0, 1>>),
               Row7And8(<<0, 3>>, <<0, 9>>, <<0, 0>>, <<4, 12>>)),
   Chip("MI1", Row7And8(<<2, 0, 0>>, <<0, 1, 3>>, <<0, 1, 0>>, <<2, 0, 1>>),
               Row7And8(<<0, 0>>, <<0, 11>>, <<0, 0>>, <<0, 10>>))}

\* ds_hcf: absent, complete, without a victim.
Minima == {NoFile, File("before", <<[vic |-> 7, hc |-> 2], [vic |-> 8, hc |-> 1], [vic |-> 7, hc |-> 1]>>),
           File("before", <<[vic |-> 7, hc |-> 2], [vic |-> 8, hc |-> 2]>>),
           File("before", <<[vic |-> 7, hc |-> 1]>>)}
Fresh(hcf)   == [f \in FileNames |-> IF f = "ds_hcf" THEN hcf ELSE NoFile]
\* The shipped files of a module: whatever they say of its rows.
Shipped(hcf) == [f \in FileNames |->
  CASE f = "ds_hcf"    -> hcf
    [] f = "retention" -> File("before", <<[row |-> 7, pattern |-> Zeros, wait |-> 4, flips |-> 606],
                                           [row |-> 8, pattern |-> Ones, wait |-> 4, flips |-> 1]>>)
    [] OTHER           -> File("before", <<>>)]
SomeData  == {Fresh(hcf) : hcf \in {f \in Minima : Len(f.rows) = 1}} \cup
             {Shipped(hcf) : hcf \in {f \in Minima : Len(f.rows) # 1}}
SomeWaits == <<2, 4>>
Without   == {Fresh(NoFile), Shipped(NoFile)}
=============================================================================
