----------------------------- MODULE MCProgram -----------------------------
(***************************************************************************)
(* Checks the assembler on small instances.  The part chosen first is of   *)
(* MCInstruction, one call of an encoder, or of Program: calls of every    *)
(* kind, or more calls with less choice, for loops and reads.              *)
(***************************************************************************)
EXTENDS Program, MCInstruction

VARIABLE part

Read == Column("READ", 7, 0, 6, 0, 0, 0)

ReadWord == pack_mininsts(Read, SMC_NOP, SMC_NOP, SMC_NOP)

\* A word that reads twice.
ReadSlots == {<<Read, SMC_NOP, Read, SMC_NOP>>}

Load         == Memory("LD", 2, {}, 1)
LoadAndSleep == {Load, SMC_SLEEP(5)}

\* A loop whose body is one read, as the generated programs have it.
Loop == [Empty EXCEPT !.program  = <<ReadWord, SMC_BL(3, 4, 0)>>, !.spc = 2,
                      !.branches = [b \in {1} |-> "a"],
                      !.labels   = [l \in {"a"} |-> 0]]
Loops == {Loop}

\* Bounds of the parts.  Calls of every kind use one label and are one call fewer.
OneLabel ==
  /\ \A mark \in marks : mark.label = "a"
  /\ \A k \in DOMAIN source : source[k].tgt \in {"a", NoTarget}
LoopsAndReads ==
  /\ this.minprogram = <<>> /\ ~this.dumpRegsCalled /\ ended # "exit"
  /\ \A k \in DOMAIN source : source[k].word # Load
InPart ==
  /\ part = "calls" => calls < MaxCalls /\ OneLabel
  /\ part = "loops" => LoopsAndReads

BuildInit ==
  /\ part \in {"encoders", "calls", "loops"}
  /\ Init /\ (part # "calls" => this = Empty)
  /\ EncodeInit

BuildNext ==
  /\ part' = part
  /\ \/ part = "encoders" /\ EncodeNext /\ UNCHANGED vars
     \/ part # "encoders" /\ Next /\ InPart' /\ UNCHANGED <<call, inst>>

BuildSpec == BuildInit /\ [][BuildNext]_<<part, vars, call, inst>>
=============================================================================
