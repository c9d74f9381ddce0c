------------------------------ MODULE Lowlevel ------------------------------
(***************************************************************************)
(* nanobind's low-level interface to instances (the nb_inst_* functions at *)
(* the end of src/nb_type.cpp): C++ code allocates instances, constructs,  *)
(* copies, moves, replaces and destroys the objects in them, and passes    *)
(* ownership on, function by function.  The functions do not check that    *)
(* they are called as documented; the guards here are what the callers     *)
(* owe (docs/lowlevel.rst).  All instances are of one type.                *)
(***************************************************************************)
EXTENDS Integers

CONSTANT Handles    \* instances, each with an address of its own

VARIABLES
  inst,     \* the fields of each nb_inst
  lives,    \* [Handles -> objects at its address: constructed, not yet destroyed]
  cpp,      \* [Handles -> what C++ code has there itself: "object", "memory"]
  stale     \* a constructor has read an object that was destroyed

lowVars == <<inst, lives, cpp, stale>>

NoInst == [internal |-> FALSE, state |-> "none", destruct |-> FALSE, cpp_delete |-> FALSE]

Exists(i) == inst[i].state # "none"

LowInit ==
  /\ inst = [i \in Handles |-> NoInst]
  /\ lives = [i \in Handles |-> 0]
  /\ cpp = [i \in Handles |-> {}]
  /\ stale = FALSE

\* C++ code as such: an object on the heap, or within another one.
CppNew(i) ==
  /\ ~Exists(i) /\ cpp[i] = {}
  /\ lives' = [lives EXCEPT ![i] = @ + 1]
  /\ cpp' = [cpp EXCEPT ![i] = {"object", "memory"}]
  /\ UNCHANGED <<inst, stale>>

\* Placement new at inst_ptr: the caller has the object until it is marked ready.
Construct(i) ==
  /\ inst[i].state = "uninitialized" /\ lives[i] = 0
  /\ lives' = [lives EXCEPT ![i] = @ + 1]
  /\ cpp' = [cpp EXCEPT ![i] = @ \cup {"object"}]
  /\ UNCHANGED <<inst, stale>>

\* C++ destroys its object, which no instance offers to Python; it frees memory of its
\* own that no instance refers to.
CppDestroy(i) ==
  /\ "object" \in cpp[i] /\ inst[i].state # "ready"
  /\ lives' = [lives EXCEPT ![i] = @ - 1]
  /\ cpp' = [cpp EXCEPT ![i] = @ \ {"object"}]
  /\ UNCHANGED <<inst, stale>>

CppFree(i) ==
  /\ cpp[i] = {"memory"} /\ ~Exists(i)
  /\ cpp' = [cpp EXCEPT ![i] = {}]
  /\ UNCHANGED <<inst, lives, stale>>

-----------------------------------------------------------------------------
(* Instances *)

nb_inst_alloc(i) ==
  /\ ~Exists(i) /\ cpp[i] = {}
  /\ inst' = [inst EXCEPT ![i] = [NoInst EXCEPT !.internal = TRUE, !.state = "uninitialized"]]
  /\ UNCHANGED <<lives, cpp, stale>>

\* An instance of an object that C++ keeps.
nb_inst_reference(i) ==
  /\ ~Exists(i) /\ "object" \in cpp[i]
  /\ inst' = [inst EXCEPT ![i] = [NoInst EXCEPT !.state = "ready"]]
  /\ UNCHANGED <<lives, cpp, stale>>

nb_inst_take_ownership(i) ==
  /\ ~Exists(i) /\ "object" \in cpp[i]
  /\ inst' = [inst EXCEPT ![i] = [NoInst EXCEPT !.state = "ready", !.destruct = TRUE,
                                            !.cpp_delete = TRUE]]
  /\ cpp' = [cpp EXCEPT ![i] = {}]
  /\ UNCHANGED <<lives, stale>>

\* inst_dealloc: the last reference is gone.  C++ has no object then in memory that is not
\* its own.
inst_dealloc(i) ==
  /\ Exists(i) /\ ("object" \in cpp[i] => "memory" \in cpp[i])
  /\ lives' = IF inst[i].destruct THEN [lives EXCEPT ![i] = @ - 1] ELSE lives
  /\ inst' = [inst EXCEPT ![i] = NoInst]
  /\ UNCHANGED <<cpp, stale>>

-----------------------------------------------------------------------------
(* The object of an instance *)

Filled(f) == [f EXCEPT !.state = "ready", !.destruct = TRUE]

nb_inst_alloc_zero(i) ==
  /\ ~Exists(i) /\ cpp[i] = {}
  /\ inst' = [inst EXCEPT ![i] = Filled([NoInst EXCEPT !.internal = TRUE])]
  /\ lives' = [lives EXCEPT ![i] = @ + 1]
  /\ UNCHANGED <<cpp, stale>>

nb_inst_zero(i) ==
  /\ inst[i].state = "uninitialized" /\ lives[i] = 0
  /\ inst' = [inst EXCEPT ![i] = Filled(@)]
  /\ lives' = [lives EXCEPT ![i] = @ + 1]
  /\ UNCHANGED <<cpp, stale>>

\* Mutant: who frees the memory does not follow who destroys the object.
FreesKept(f, destruct) == f.cpp_delete

Frees(f, destruct) == destruct /\ ~f.internal

\* The caller says who destroys the object, and frees memory outside the instance: Python
\* takes them over, or C++ does.  There is an object if one is said to be there.
nb_inst_set_state(i, ready, destruct) ==
  /\ Exists(i) /\ (ready \/ destruct => lives[i] = 1)
  /\ inst' = [inst EXCEPT ![i].state = IF ready THEN "ready" ELSE "uninitialized",
                          ![i].destruct = destruct,
                          ![i].cpp_delete = Frees(inst[i], destruct)]
  /\ cpp' = [cpp EXCEPT ![i] = IF destruct THEN {} ELSE
          {x \in {"object", "memory"} : IF x = "object" THEN lives[i] = 1 ELSE ~inst[i].internal}]
  /\ UNCHANGED <<lives, stale>>

\* A unique_ptr takes the object (nb_type_relinquish_ownership).
Relinquish(i) ==
  /\ inst[i].state = "ready" /\ inst[i].cpp_delete /\ inst[i].destruct /\ ~inst[i].internal
  /\ inst' = [inst EXCEPT ![i].state = "relinquished", ![i].destruct = FALSE, ![i].cpp_delete = FALSE]
  /\ cpp' = [cpp EXCEPT ![i] = {"object", "memory"}]
  /\ UNCHANGED <<lives, stale>>

\* Mutant: the flag still asks for a destruction.
EmptiedSet(f) == [f EXCEPT !.state = "uninitialized"]

Emptied(f) == [f EXCEPT !.state = "uninitialized", !.destruct = FALSE]

\* The check aborts for an object whose ownership was transferred away.
nb_inst_destruct(i) ==
  /\ Exists(i) /\ inst[i].state # "relinquished"
  /\ lives' = IF inst[i].destruct THEN [lives EXCEPT ![i] = @ - 1] ELSE lives
  /\ inst' = [inst EXCEPT ![i] = Emptied(@)]
  /\ UNCHANGED <<cpp, stale>>

\* The constructor is given the object of src.
Reads(src) == stale' = (stale \/ lives'[src] = 0)

\* dst is uninitialized, so never src, for which the call does nothing.
nb_inst_copy(dst, src) ==
  /\ inst[dst].state = "uninitialized" /\ lives[dst] = 0 /\ inst[src].state = "ready"
  /\ lives' = [lives EXCEPT ![dst] = @ + 1]
  /\ inst' = [inst EXCEPT ![dst] = Filled(@)]
  /\ Reads(src)
  /\ UNCHANGED cpp

\* What is moved from still has to be destroyed.
nb_inst_move(dst, src) == nb_inst_copy(dst, src)

\* Mutant: also an object that replaces itself is destroyed first.
DistinctAlways(dst, src) == TRUE

Distinct(dst, src) == dst # src

\* The object is destroyed whatever the flag says, another constructed from src, and the
\* flag set as it was.  `destroyed' is what there is while the constructor reads.
nb_inst_replace_copy(dst, src) ==
  /\ inst[dst].state = "ready" /\ inst[src].state = "ready"
  /\ IF Distinct(dst, src)
     THEN LET destroyed == [lives EXCEPT ![dst] = @ - 1] IN
          /\ lives' = [destroyed EXCEPT ![dst] = @ + 1]
          /\ inst' = [inst EXCEPT ![dst] = [Filled(Emptied(@)) EXCEPT !.destruct = inst[dst].destruct]]
          /\ stale' = (stale \/ destroyed[src] = 0)
     ELSE UNCHANGED <<lives, inst, stale>>
  /\ UNCHANGED cpp

nb_inst_replace_move(dst, src) == nb_inst_replace_copy(dst, src)

LowNext ==
  \E i \in Handles :
    \/ CppNew(i) \/ Construct(i) \/ CppDestroy(i) \/ CppFree(i)
    \/ nb_inst_alloc(i) \/ nb_inst_reference(i) \/ nb_inst_take_ownership(i) \/ inst_dealloc(i)
    \/ nb_inst_alloc_zero(i) \/ nb_inst_zero(i) \/ Relinquish(i) \/ nb_inst_destruct(i)
    \/ \E ready, destruct \in BOOLEAN : nb_inst_set_state(i, ready, destruct)
    \/ \E src \in Handles :
         \/ nb_inst_copy(i, src) \/ nb_inst_move(i, src)
         \/ nb_inst_replace_copy(i, src) \/ nb_inst_replace_move(i, src)

LowSpec == LowInit /\ [][LowNext]_lowVars

-----------------------------------------------------------------------------
(* Properties *)

Who(b) == IF b THEN 1 ELSE 0

\* However the functions follow each other, there is never more than one object at an
\* address, and exactly one side will destroy it, the instance or C++; memory outside an
\* instance is freed by exactly one side, what Python may use is there, and nothing is
\* constructed from what was destroyed (nb_type.cpp:1952, 2026).
DestroyedOnce ==
  /\ \A i \in Handles :
       /\ lives[i] \in {0, 1}
       /\ lives[i] = Who(inst[i].destruct) + Who("object" \in cpp[i])
       /\ Exists(i) /\ ~inst[i].internal => (inst[i].cpp_delete <=> "memory" \notin cpp[i])
       /\ inst[i].internal => ~inst[i].cpp_delete
       /\ inst[i].state = "ready" => lives[i] = 1
  /\ ~stale
=============================================================================
