------------------------------ MODULE Counter ------------------------------
(***************************************************************************)
(* nanobind's intrusive reference counter (include/nanobind/intrusive):    *)
(* one word that threads change with compare-and-swap.  An odd word counts *)
(* the references that C++ holds, 2n + 1 for n; an even one is a pointer   *)
(* to the Python object that has taken the references over.                *)
(***************************************************************************)
EXTENDS Naturals, FiniteSets

CONSTANTS
  Threads,   \* threads that share the object
  MaxRefs    \* bound: references held at a time, of C++ and of Python

ASSUME ThreadsAssumption == IsFiniteSet(Threads)

VARIABLES
  m_state,   \* the word
  py_refs,   \* reference count of the Python object
  pc,        \* per thread: idle, or the function it is in
  v,         \* per thread: the value it loaded
  ended,     \* "no", "deleted" or "aborted"
  \* History: what the threads hold.
  raw,       \* whether the object is only known by the pointer of its creator
  owned,     \* references of C++ that nobody is releasing
  pyowned,   \* references of Python
  raced      \* whether the count has changed while set_self_py was handing it over

vars == <<m_state, py_refs, pc, v, ended, raw, owned, pyowned, raced>>

Pointer == 0  \* of the Python object: even

Cpp(state) == state % 2 = 1

In(f) == {t \in Threads : pc[t] = f}
Using    == In("inc") \cup In("self")
Dropping == In("dec")
Holders  == owned + IF raw THEN 1 ELSE 0

Init ==
  /\ m_state = 1 /\ py_refs = 0
  /\ pc = [t \in Threads |-> "idle"] /\ v = [t \in Threads |-> 1]
  /\ ended = "no"
  /\ raw = TRUE /\ owned = 0 /\ pyowned = 0 /\ raced = FALSE

Load(t, f) ==
  /\ ended = "no" /\ pc[t] = "idle"
  /\ pc' = [pc EXCEPT ![t] = f]
  /\ v' = [v EXCEPT ![t] = m_state]
  /\ UNCHANGED <<m_state, py_refs, ended, raw, pyowned, raced>>

\* A thread copies a reference that it keeps until the copy is made; the first one is
\* made of the creator's pointer.
IncRef(t) ==
  /\ owned + Cardinality(Using) < MaxRefs
  /\ Holders > Cardinality(Using)
  /\ Load(t, "inc")
  /\ UNCHANGED owned

\* A thread gives up a reference that no other thread is using.
DecRef(t) ==
  /\ owned > Cardinality(Using)
  /\ Load(t, "dec")
  /\ owned' = owned - 1

\* nanobind returns the object to Python: one thread at a time, with the GIL.
SetSelfPy(t) ==
  /\ Cpp(m_state) /\ In("self") = {}
  /\ Holders > Cardinality(Using)
  /\ Load(t, "self")
  /\ UNCHANGED owned

Return(t) == pc' = [pc EXCEPT ![t] = "idle"] /\ UNCHANGED v

\* NB_ATOMIC_CMPXCHG fails: another thread has changed the word, or without a cause, as a
\* weak exchange may.  It loads the word, and the loop begins again.
Fails(t) ==
  /\ v' = [v EXCEPT ![t] = m_state]
  /\ UNCHANGED <<m_state, py_refs, pc, ended, raw, owned, pyowned, raced>>

\* Mutant: the word is stored whatever another thread has made of it.
ExchangeUnchecked(t, new) ==
  /\ m_state' = new
  /\ raced' = (raced \/ In("self") # {})
  /\ Return(t)

Exchange(t, new) ==
  /\ m_state = v[t]
  /\ m_state' = new
  /\ raced' = (raced \/ In("self") # {})
  /\ Return(t)

IncCpp(t) ==
  /\ ended = "no" /\ pc[t] = "inc" /\ Cpp(v[t])
  /\ \/ /\ Exchange(t, v[t] + 2)
        /\ owned' = owned + 1 /\ raw' = FALSE
        /\ UNCHANGED <<py_refs, ended, pyowned>>
     \/ Fails(t)

IncPy(t) ==
  /\ ended = "no" /\ pc[t] = "inc" /\ ~Cpp(v[t])
  /\ py_refs' = py_refs + 1
  /\ owned' = owned + 1
  /\ Return(t)
  /\ UNCHANGED <<m_state, ended, raw, pyowned, raced>>

\* Mutant: a count of 2 is taken for the last reference.
DecCppEarly(t) ==
  /\ ended = "no" /\ pc[t] = "dec" /\ Cpp(v[t])
  /\ \/ /\ Exchange(t, v[t] - 2)
        /\ ended' = IF v[t] \in {3, 5} THEN "deleted" ELSE "no"
        /\ UNCHANGED <<py_refs, raw, owned, pyowned>>
     \/ Fails(t)

\* The caller deletes the object when dec_ref returns true.  A count of zero is an underflow.
DecCpp(t) ==
  /\ ended = "no" /\ pc[t] = "dec" /\ Cpp(v[t])
  /\ IF v[t] = 1
     THEN ended' = "aborted" /\ UNCHANGED <<m_state, py_refs, pc, v, raw, owned, pyowned, raced>>
     ELSE \/ /\ Exchange(t, v[t] - 2)
             /\ ended' = IF v[t] = 3 THEN "deleted" ELSE "no"
             /\ UNCHANGED <<py_refs, raw, owned, pyowned>>
          \/ Fails(t)

\* Py_DECREF; the instance is deallocated with its last reference, and the object in it.
Decref == py_refs' = py_refs - 1 /\ ended' = IF py_refs = 1 THEN "deleted" ELSE "no"

DecPy(t) ==
  /\ ended = "no" /\ pc[t] = "dec" /\ ~Cpp(v[t])
  /\ Decref
  /\ Return(t)
  /\ UNCHANGED <<m_state, raw, owned, pyowned, raced>>

\* The end of set_self_py: Python has its own reference and one for each that C++ held at
\* the load.  The references it adds before the store are seen by nobody.
HandOver(t) ==
  /\ ended = "no" /\ pc[t] = "self"
  /\ py_refs' = 1 + v[t] \div 2
  /\ m_state' = Pointer
  /\ raw' = FALSE /\ pyowned' = 1
  /\ Return(t)
  /\ UNCHANGED <<ended, owned, raced>>

\* Python code copies and drops its references.
PythonIncref ==
  /\ ended = "no" /\ pyowned \in 1..(MaxRefs - 1)
  /\ py_refs' = py_refs + 1 /\ pyowned' = pyowned + 1
  /\ UNCHANGED <<m_state, pc, v, ended, raw, owned, raced>>

PythonDecref ==
  /\ ended = "no" /\ pyowned > 0
  /\ Decref /\ pyowned' = pyowned - 1
  /\ UNCHANGED <<m_state, pc, v, raw, owned, raced>>

Next ==
  \/ \E t \in Threads : \/ IncRef(t) \/ DecRef(t) \/ SetSelfPy(t)
                        \/ IncCpp(t) \/ IncPy(t) \/ DecCpp(t) \/ DecPy(t)
                        \/ HandOver(t)
  \/ PythonIncref \/ PythonDecref

Spec == Init /\ [][Next]_vars

-----------------------------------------------------------------------------
(* Properties *)

TypeOK ==
  /\ m_state \in Nat /\ py_refs \in Nat
  /\ pc \in [Threads -> {"idle", "inc", "dec", "self"}]
  /\ v \in [Threads -> Nat]
  /\ ended \in {"no", "deleted", "aborted"}
  /\ owned \in Nat /\ pyowned \in Nat /\ {raw, raced} \subseteq BOOLEAN

\* No reference is lost or invented, whoever interleaves with whom: the word, or after the
\* hand-over the Python object, counts the references held and those being
\* released.  (set_self_py loads the count, adds it to Python's and stores the pointer: what
\* another thread counts in between is lost, so this holds until that happens.)
Exact ==
  ended = "no" /\ ~raced =>
    LET held == owned + Cardinality(Dropping)
    IN  IF Cpp(m_state) THEN m_state = 2 * held + 1 /\ pyowned = 0
                        ELSE py_refs = held + pyowned

\* The object is deleted with the last reference and not before: nobody holds it, or is
\* about to copy or hand over a reference, and dec_ref never finds a count of zero.
DeletedInTime ==
  ~raced =>
    /\ ended = "deleted" => owned = 0 /\ pyowned = 0 /\ ~raw /\ \A t \in Threads : pc[t] = "idle"
    /\ ended # "aborted"
    /\ ended = "no" => raw \/ owned > 0 \/ pyowned > 0 \/ Dropping # {}

\* Every reference is counted once, by the word or by Python, and the object is deleted with
\* the last of them, by whichever thread releases it (intrusive/counter.inl:98).
Counted == Exact /\ DeletedInTime
=============================================================================
