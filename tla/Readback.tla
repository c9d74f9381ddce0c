------------------------------ MODULE Readback ------------------------------
(***************************************************************************)
(* What the platform promises about readback, without the sockets, threads *)
(* and buffers that implement it.                                          *)
(*                                                                         *)
(* Programs run one at a time.  A running program produces words; each of  *)
(* them is carried to the host, and the caller receives the words in the   *)
(* order in which the DRAM was read, each exactly once.  A program counts  *)
(* as finished only when every word it produced is on the host.            *)
(***************************************************************************)
EXTENDS Naturals

VARIABLES
  busy,       \* a program is on the card or its data is on the way to the host
  produced,   \* how many words the programs have produced so far
  hosted,     \* how many of them have reached the host
  delivered   \* how many of them a caller has received

rvars == <<busy, produced, hosted, delivered>>

TypeOK ==
  /\ busy \in BOOLEAN
  /\ produced \in Nat
  /\ hosted \in Nat
  /\ delivered \in Nat

Init == busy = FALSE /\ produced = 0 /\ hosted = 0 /\ delivered = 0

\* A program starts only when the previous one is completely read back.
Launch ==
  /\ ~busy
  /\ busy' = TRUE
  /\ UNCHANGED <<produced, hosted, delivered>>

Produce ==
  /\ busy
  /\ produced' \in Nat /\ produced' > produced
  /\ UNCHANGED <<busy, hosted, delivered>>

Store ==
  /\ busy
  /\ hosted' \in Nat /\ hosted' > hosted /\ hosted' <= produced
  /\ UNCHANGED <<busy, produced, delivered>>

Deliver ==
  /\ delivered' \in Nat /\ delivered' > delivered /\ delivered' <= hosted
  /\ UNCHANGED <<busy, produced, hosted>>

Finish ==
  /\ busy
  /\ hosted = produced
  /\ busy' = FALSE
  /\ UNCHANGED <<produced, hosted, delivered>>

Next == Launch \/ Produce \/ Store \/ Deliver \/ Finish

Spec == Init /\ [][Next]_rvars
=============================================================================
