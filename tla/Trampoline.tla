----------------------------- MODULE Trampoline -----------------------------
(***************************************************************************)
(* nanobind's trampolines (src/trampoline.cpp): C++ code, in threads that  *)
(* need not hold Python's lock, calls virtual functions of objects whose   *)
(* class may be extended in Python.  Every object has a few slots that     *)
(* cache, for each function, whether Python overrides it.  A thread-local  *)
(* chain of tickets tells an override that calls the function of its base  *)
(* from a new call.  The lock (the GIL) is external: a counted lock that   *)
(* Python code may hand to another thread whenever it runs.  The first     *)
(* sweep over the slots does not take it: it reads a name and then its     *)
(* value, while another thread may be writing the one and then the other.  *)
(***************************************************************************)
EXTENDS SequencesExt, FiniteSetsExt, Integers

CONSTANTS
  Objs,         \* objects of classes with a trampoline
  Functions,    \* their virtual functions
  Pure,         \* those that are pure in C++
  Overridden,   \* [Objs -> SUBSET Functions]: what Python overrides
  Size,         \* slots of a trampoline
  Threads,
  MaxDepth      \* bound on the overrides a thread is in

ASSUME NamesAssumption == Functions \cap {"none", "None", "null"} = {}

ASSUME ThreadsAssumption == "no thread" \notin Threads

\* A class asks for as many slots as it has virtual functions.
ASSUME SlotsAssumption ==
  Size \in Nat /\ IsFiniteSet(Functions) /\ Cardinality(Functions) <= Size

VARIABLES
  data,         \* [Objs -> the slots]
  call,         \* [Threads -> the call of a virtual function that is being decided]
  tickets,      \* [Threads -> the overrides it is in], innermost last
  gil,          \* the thread that holds the lock
  held,         \* [Threads -> how many times it has ensured that it holds it]
  outcome,      \* [Threads -> its last call and where that went]
  overlapped    \* history: the objects of which two threads looked functions up at once

vars == <<data, call, tickets, gil, held, outcome, overlapped>>

NoThread == "no thread"
NoCall == [step |-> "none"]
Empty == [name |-> "none", value |-> "null"]

Init ==
  /\ data = [x \in Objs |-> [n \in 1 .. Size |-> Empty]]
  /\ call = [th \in Threads |-> NoCall]
  /\ tickets = [th \in Threads |-> <<>>]
  /\ gil = NoThread /\ held = [th \in Threads |-> 0]
  /\ outcome = [th \in Threads |-> NoCall]
  /\ overlapped = {}

Innermost(th) == IF tickets[th] = <<>> THEN NoCall ELSE Last(tickets[th])

-----------------------------------------------------------------------------
(* Python's lock *)

Ensured(th) ==
  /\ gil \in {NoThread, th}
  /\ gil' = th /\ held' = [held EXCEPT ![th] = @ + 1]

\* Each time the lock was ensured it is released; the last one lets it go.
Left(th) == [held EXCEPT ![th] = @ - 1]

ReleasedTo(h, th) == gil' = (IF h[th] = 0 THEN NoThread ELSE th) /\ held' = h

\* Python code runs in a thread: an override, or a lookup of an attribute.
RunsPython(th) ==
  \/ call[th] = NoCall /\ tickets[th] # <<>>
  \/ call[th].step = "lookup"

Yield(th) ==
  /\ gil = th /\ RunsPython(th)
  /\ gil' = NoThread
  /\ UNCHANGED <<data, call, tickets, held, outcome, overlapped>>

Resume(th) ==
  /\ gil = NoThread /\ held[th] > 0 /\ RunsPython(th)
  /\ gil' = th
  /\ UNCHANGED <<data, call, tickets, held, outcome, overlapped>>

-----------------------------------------------------------------------------
(* A call of a virtual function: trampoline_enter *)

\* From C++ code, or from an override of this or of another object's function.
Call(th, x, f) ==
  /\ call[th] = NoCall /\ Len(tickets[th]) < MaxDepth
  /\ tickets[th] # <<>> => gil = th
  /\ call' = [call EXCEPT ![th] = [step |-> "name", self |-> x, name |-> f, slot |-> 1]]
  /\ outcome' = [outcome EXCEPT ![th] = NoCall]
  /\ UNCHANGED <<data, tickets, gil, held, overlapped>>

SlotOf(th) == data[call[th].self][call[th].slot]

\* The call is over: where it went, with which key, and whether the lock was held when that
\* was read.
Ends(th, step, key, locked) ==
  /\ outcome' = [outcome EXCEPT ![th] =
        [step |-> step, self |-> call[th].self, name |-> call[th].name, key |-> key,
         locked |-> locked, from |-> Innermost(th)]]
  /\ call' = [call EXCEPT ![th] = NoCall]

\* The call goes to the C++ base, or fails if that has none.
ToBase(th, locked) == Ends(th, IF call[th].name \in Pure THEN "error" ELSE "base", "None", locked)

\* Mutant: only the key tells whether the override itself has called.
IsSuperAnySelf(th, key) == tickets[th] # <<>> /\ Innermost(th).key = key

IsSuper(th, key) ==
  tickets[th] # <<>> /\ Innermost(th).key = key /\ Innermost(th).self = call[th].self

\* With the lock held `h' times and an override found: the ticket is compared
\* with the one before, and the override entered, or the base called.
Enter(th, h, key, locked) ==
  IF IsSuper(th, key) THEN
    /\ ReleasedTo([h EXCEPT ![th] = @ - 1], th)
    /\ ToBase(th, locked)
    /\ UNCHANGED tickets
  ELSE
    /\ gil' = th /\ held' = h
    /\ tickets' = [tickets EXCEPT ![th] = Append(@, [step |-> "in", self |-> call[th].self, key |-> key])]
    /\ Ends(th, "override", key, locked)

More(th) == [held EXCEPT ![th] = @ + 1]

\* On to the next slot, or to the sweep that holds the lock.
NextSlot(th) ==
  LET c == call[th]
  IN  call' = [call EXCEPT ![th] = IF c.slot < Size
                                   THEN [c EXCEPT !.step = "name", !.slot = c.slot + 1]
                                   ELSE [step |-> "ensure", self |-> c.self, name |-> c.name]]

\* The sweep without the lock reads the name in a slot ...
SweepName(th) ==
  /\ call[th].step = "name"
  /\ IF SlotOf(th).name = call[th].name THEN call' = [call EXCEPT ![th].step = "value"] ELSE NextSlot(th)
  /\ UNCHANGED <<data, tickets, gil, held, outcome, overlapped>>

\* ... and then the value, which is the key of an override from here on.
SweepValue(th) ==
  /\ call[th].step = "value"
  /\ LET value == SlotOf(th).value
     IN  CASE value = "null" -> NextSlot(th) /\ UNCHANGED outcome
           [] value = "None" -> ToBase(th, FALSE)
           [] value \in Functions ->
                /\ call' = [call EXCEPT ![th] = [step |-> "swept", self |-> @.self, name |-> @.name, key |-> value]]
                /\ UNCHANGED outcome
  /\ UNCHANGED <<data, tickets, gil, held, overlapped>>

\* PyGILState_Ensure has the lock.
EnterSwept(th) ==
  /\ call[th].step = "swept" /\ gil \in {NoThread, th}
  /\ Enter(th, More(th), call[th].key, FALSE)
  /\ UNCHANGED <<data, overlapped>>

\* The slots of a function whose value is known.
Hits(th) == {n \in 1 .. Size : data[call[th].self][n].name = call[th].name /\ data[call[th].self][n].value # "null"}
Hit(th) == data[call[th].self][Min(Hits(th))].value

FreeSlots(x) == {n \in 1 .. Size : data[x][n] = Empty}

\* The lock was ensured only to look at the slots again.
\* Mutant: it is not released when the base is called.
BaseKeeps(th) == gil' = th /\ held' = More(th)

BaseReleases(th) == gil' = gil /\ held' = held

\* A lookup starts while another one for the object is under way: both may have one slot.
Overlaps(th) ==
  \E o \in Threads \ {th} : call[o].step = "lookup" /\ call[o].self = call[th].self

\* The sweep is repeated with the lock held, and a free slot chosen.
Ensure(th) ==
  /\ call[th].step = "ensure" /\ gil \in {NoThread, th}
  /\ IF Hits(th) # {} /\ Hit(th) = "None" THEN
       ToBase(th, TRUE) /\ BaseReleases(th) /\ UNCHANGED <<tickets, overlapped>>
     ELSE IF Hits(th) # {} THEN
       Enter(th, More(th), Hit(th), TRUE) /\ UNCHANGED overlapped
     ELSE IF FreeSlots(call[th].self) = {} THEN
       Ends(th, "no slots", "None", TRUE) /\ BaseReleases(th) /\ UNCHANGED <<tickets, overlapped>>
     ELSE
       /\ Ensured(th)
       /\ call' = [call EXCEPT ![th] = [step |-> "lookup", self |-> @.self, name |-> @.name,
                                        slot |-> Min(FreeSlots(@.self))]]
       /\ overlapped' = IF Overlaps(th) THEN overlapped \union {call[th].self} ELSE overlapped
       /\ UNCHANGED <<tickets, outcome>>
  /\ UNCHANGED data

IsOverridden(th) == call[th].name \in Overridden[call[th].self]

\* The name cannot be interned, or the attribute cannot be looked up: nothing is stored.
LookupFails(th) ==
  /\ call[th].step = "lookup" /\ gil = th
  /\ Ends(th, "failed", "None", TRUE) /\ ReleasedTo(Left(th), th)
  /\ UNCHANGED <<data, tickets, overlapped>>

\* The attribute is that of the C++ class.  A pure function is not cached then.
LookupPure(th) ==
  /\ call[th].step = "lookup" /\ gil = th
  /\ ~IsOverridden(th) /\ call[th].name \in Pure
  /\ ToBase(th, TRUE) /\ ReleasedTo(Left(th), th)
  /\ UNCHANGED <<data, tickets, overlapped>>

\* What the attribute is goes to the slot that was chosen before: the name ...
StoreName(th) ==
  /\ call[th].step = "lookup" /\ gil = th
  /\ IsOverridden(th) \/ call[th].name \notin Pure
  /\ data' = [data EXCEPT ![call[th].self][call[th].slot].name = call[th].name]
  /\ call' = [call EXCEPT ![th].step = "store"]
  /\ UNCHANGED <<tickets, gil, held, outcome, overlapped>>

\* ... and then the value, the lock being held throughout.
StoreValue(th) ==
  /\ call[th].step = "store" /\ gil = th
  /\ LET f == call[th].name
     IN  /\ data' = [data EXCEPT ![call[th].self][call[th].slot].value = IF IsOverridden(th) THEN f ELSE "None"]
         /\ IF IsOverridden(th) THEN Enter(th, held, f, TRUE)
            ELSE ReleasedTo(Left(th), th) /\ ToBase(th, TRUE) /\ UNCHANGED tickets
  /\ UNCHANGED overlapped

\* trampoline_leave: the override has returned.
Leave(th) ==
  /\ call[th] = NoCall /\ tickets[th] # <<>> /\ gil = th
  /\ tickets' = [tickets EXCEPT ![th] = Front(@)]
  /\ ReleasedTo(Left(th), th)
  /\ outcome' = [outcome EXCEPT ![th] = NoCall]
  /\ UNCHANGED <<data, call, overlapped>>

Next ==
  \E th \in Threads :
    \/ \E x \in Objs, f \in Functions : Call(th, x, f)
    \/ SweepName(th) \/ SweepValue(th) \/ EnterSwept(th) \/ Ensure(th)
    \/ LookupFails(th) \/ LookupPure(th) \/ StoreName(th) \/ StoreValue(th)
    \/ Leave(th) \/ Yield(th) \/ Resume(th)

Spec == Init /\ [][Next]_vars

-----------------------------------------------------------------------------
(* Properties *)

\* A thread has the lock exactly as often as it is in overrides, and in a lookup:
\* whatever way a call takes, by the cache, by a lookup, to the base or to an error,
\* it gives back what it took (trampoline.cpp:44, 69, 118, 138).
LockBalanced ==
  /\ \A th \in Threads :
       held[th] = Len(tickets[th]) + (IF call[th].step \in {"lookup", "store"} THEN 1 ELSE 0)
  /\ gil # NoThread => held[gil] > 0

\* The call of outcome o goes where it should: to Python's override of that function when
\* there is one and it is not this override that calls, of the same object; else to the base,
\* if there is one.
GoesWhereDue(o) ==
  IF /\ o.name \in Overridden[o.self]
     /\ ~(o.from # NoCall /\ o.from.self = o.self /\ o.from.key = o.name)
  THEN o.step = "override" /\ o.key = o.name
  ELSE o.step = IF o.name \in Pure THEN "error" ELSE "base"

\* A call that reads the slots with the lock held arrives where it should, or fails with
\* its lookup, whatever other threads do.  One that the sweep without the lock decides
\* arrives where it should unless lookups for its object have overlapped: these may fill one
\* slot, the one after the other, and the sweep can then take the name of one function with
\* the key of another, and call the wrong override.  It is also only then that as many slots
\* as functions are not enough.
CallsArrive ==
  \A th \in Threads :
    LET o == outcome[th]
    IN  o # NoCall =>
          \/ GoesWhereDue(o)
          \/ o.step = "failed" /\ o.locked
          \/ o.step = "no slots" /\ o.self \in overlapped
          \/ ~o.locked /\ o.self \in overlapped

\* A virtual call reaches Python's override where there is one, else the base, as far as
\* CallsArrive says, and gives back the interpreter's lock as often as it took it
\* (trampoline.cpp:34, 148).
OverridesCalled == LockBalanced /\ CallsArrive
=============================================================================
