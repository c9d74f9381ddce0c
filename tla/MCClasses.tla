----------------------------- MODULE MCClasses -----------------------------
(***************************************************************************)
(* Checks Trampoline, Lowlevel and Types together: the part chosen at the  *)
(* start of a behaviour takes its steps.  They share no state.             *)
(***************************************************************************)
EXTENDS Trampoline, Lowlevel, Types

VARIABLE part

\* Threads differ in nothing but their names, and so do libraries.
Alike == Permutations(Threads) \union Permutations(Importers) \union Permutations(Libs)

\* Every function of x is overridden, and one of y.
Overrides == [x |-> {"f", "g"}, y |-> {"f"}]

\* B derives from A, E is an enumeration.
Bases == [A |-> "none", B |-> "A", E |-> "none"]

Asked == [A |-> {"has_dynamic_attr", "intrusive_ptr"}, B |-> {"is_weak_referenceable"}, E |-> {}]

ClassesInit ==
  /\ part \in {"trampolines", "instances", "types"}
  /\ Init /\ LowInit /\ TypesInit

ClassesNext ==
  /\ part' = part
  /\ \/ part = "trampolines" /\ Next /\ UNCHANGED <<lowVars, typeVars>>
     \/ part = "instances" /\ LowNext /\ UNCHANGED <<vars, typeVars>>
     \/ part = "types" /\ TypesNext /\ UNCHANGED <<vars, lowVars>>

ClassesSpec == ClassesInit /\ [][ClassesNext]_<<part, vars, lowVars, typeVars>>
=============================================================================
