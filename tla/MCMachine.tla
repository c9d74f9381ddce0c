----------------------------- MODULE MCMachine -----------------------------
(* Sessions for TLC: a program that writes rows, one that disturbs them, one that
   reads them back, as the Python scripts and src/test.cpp make them; and
   the experiments that do all in one program. *)
EXTENDS Machine

Zeros == {}
Ones  == {0, 1, 31}
Other == {1, 2}

\* A pattern whose words differ.
Mixed == [i \in 1..WideWords |-> IF i = 1 THEN Ones ELSE Other]

Write(rows, words) == [gen |-> "init_rows", rows |-> rows, words |-> words]
Read(rows)         == [gen |-> "read_rows", rows |-> rows]
RowRange(gen, start, end) == [gen |-> gen, start |-> start, end |-> end, pattern |-> Mixed]

Hammer1(row, count, on, off) ==
  [gen |-> "singleside_hammer", rows |-> <<row>>, count |-> count, on |-> <<on>>, off |-> <<off>>]
Hammer2(row1, row2, count, on, off) ==
  [gen |-> "doubleside_hammer", rows |-> <<row1, row2>>, count |-> count, on |-> on, off |-> off]
Act(rows, nRAS, nRP)  == [gen |-> "act_rows", rows |-> rows, nRAS |-> nRAS, nRP |-> nRP]
Act1(row, nRAS, nRP)  == [gen |-> "act_row", rows |-> <<row>>, nRAS |-> nRAS, nRP |-> nRP]
Refresh(rows)         == [gen |-> "refresh_all_rows", end |-> rows]
Clone(src, dst, nT1)  == [gen |-> "rowclone", rows |-> <<src, dst>>, nRP |-> nT1]

Disturb == {Hammer1(0, c, 0, 0) : c \in {0, 1, 3}} \cup {Hammer1(2, 2, 2, 3)}
             \cup {Hammer2(2, 0, c, <<0, 0>>, <<0, 0>>) : c \in {0, 2}}
             \cup {Hammer2(0, 2, 2, <<1, 3>>, <<2, 3>>)}
             \cup {Act(<<0, 2>>, 24, 11), Act(<<>>, 24, 10), Act1(2, 2, 1), Act1(2, 24, 10),
                   Refresh(0), Refresh(2), Refresh(3), Clone(1, 1, 2), Clone(1, 2, 12)}

\* As in di_rd_hc.py: victim and aggressors are written, and the victim is read.
Victim == {[progs |-> <<Write(<<1, 2, 0>>, <<Ones, Zeros, Zeros>>), d, Read(<<1>>)>>,
            patterns |-> <<Fill(Ones)>>] : d \in Disturb \ {Clone(1, 2, 12)}}

\* Lists of every length, with a row twice; ranges; the empty list.
Lists3 == {[progs |-> <<Write(rows, [i \in 1..Len(rows) |-> IF rows[i] = 1 THEN Ones ELSE Other]), Read(rows)>>,
            patterns |-> [i \in 1..Len(rows) |-> Fill(IF rows[i] = 1 THEN Ones ELSE Other)]] :
             rows \in {<<>>, <<1>>, <<2, 0>>, <<2, 1, 0>>, <<1, 2, 1>>}}
Ranges == {[progs |-> <<RowRange("init_row_range", r[1], r[2]), RowRange("read_row_range", r[1], r[2])>>,
            patterns |-> [i \in 1..Len(From(r[1], r[2])) |-> Mixed]] :
             r \in {<<0, 3>>, <<1, 2>>, <<1, 3>>, <<2, 2>>}}
Retention == {[progs |-> <<RowRange("init_row_range", 0, 3), Refresh(3), RowRange("read_row_range", 0, 3)>>,
               patterns |-> <<Mixed, Mixed, Mixed>>]}
Single == {[progs |-> <<[gen |-> "init_row", rows |-> <<r>>, pattern |-> Mixed], [gen |-> "read_row", rows |-> <<r>>]>>,
            patterns |-> <<Mixed>>] : r \in {0, 2}}
Alone == {[progs |-> <<[gen |-> "frac", rows |-> <<1>>, word |-> Ones, nRAS |-> 24, nRP |-> 10, count |-> n]>>,
           patterns |-> <<Fill(Ones)>>] : n \in {0, 1, 2}}
         \cup
         {[progs |-> <<[gen |-> "tWR_test", rows |-> <<1>>, word |-> Ones, col |-> c, nWR |-> w]>>,
           patterns |-> <<Fill(Ones)>>] : c \in {0, 1}, w \in {3, 11}}

AllSessions == Victim \cup Lists3 \cup Ranges \cup Retention \cup Single \cup Alone

\* Aggressors that are to stay open for different times.
OnTimes == {[progs |-> <<Hammer2(0, 2, 2, <<3, 1>>, <<0, 0>>)>>, patterns |-> <<>>],
            [progs |-> <<Hammer2(2, 0, 1, <<2, 2>>, <<0, 0>>)>>, patterns |-> <<>>]}
=============================================================================
