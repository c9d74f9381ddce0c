------------------------------- MODULE Errors -------------------------------
(***************************************************************************)
(* Exceptions between Python and C++ in nanobind (src/error.cpp,           *)
(* include/nanobind/nb_error.h and the handlers of src/nb_func.cpp): a     *)
(* bound function runs, calls Python code that fails, keeps the errors in  *)
(* python_error objects, chains, restores, discards or throws them, and    *)
(* what it throws reaches Python again.  Python's error indicator is       *)
(* external: at most one exception, which owns a reference.                *)
(***************************************************************************)
EXTENDS SequencesExt, FiniteSetsExt, Integers

CONSTANTS
  Values,       \* Python exception objects
  Slots,        \* python_error objects of the function
  Exceptions,   \* C++ exceptions that are not python_error or builtin_exception
  Translators,  \* what register_exception_translator was called with
  Catches,      \* [Translators -> the exceptions each one catches]
  Buffer,       \* bytes of create_exception's buffer
  MaxLength     \* characters of a message, at most

NoValue == "no value"
NoSlot == "none"

ASSUME ErrorsAssumption ==
  /\ IsFiniteSet(Values) /\ IsFiniteSet(Slots) /\ {NoValue, NoSlot} \cap Values = {}
  /\ "default" \notin Translators /\ Catches \in [Translators -> SUBSET Exceptions]
  /\ Buffer \in Nat /\ MaxLength \in Nat

VARIABLES
  references,   \* [Values -> their number], 0: the object is free
  cause,        \* [Values -> its cause and context, or NoValue]
  origin,       \* [Values -> the exception's type]
  indicator,    \* Python's error indicator
  errs,         \* [Slots -> "none", NoValue once restored or moved from, or a value]
  lost,         \* an error was overwritten by code that a destructor ran
  phase,        \* "running", "thrown", "returned" to Python
  thrown,       \* what the function has thrown
  nodes,        \* the translators' list: node |-> [translator, next]; the head is node 1
  registered    \* the translators in the order in which they were registered

errVars == <<references, cause, origin, indicator, errs, lost, phase, thrown, nodes, registered>>

NoNode == 0
Nothing == [kind |-> "nothing"]

ErrInit ==
  /\ references = [v \in Values |-> 0]
  /\ cause = [v \in Values |-> NoValue]
  /\ origin = [v \in Values |-> "none"]
  /\ indicator = NoValue
  /\ errs = [s \in Slots |-> NoSlot]
  /\ lost = FALSE
  /\ phase = "running" /\ thrown = Nothing
  /\ nodes = <<[translator |-> "default", next |-> NoNode]>>
  /\ registered = <<>>

Executing == phase = "running"
IsFree(v) == references[v] = 0
Holds(s) == errs[s] \in Values
Throws(s) == thrown.kind = "python" /\ thrown.slot = s

-----------------------------------------------------------------------------
(* Python's side: references, the indicator.  A heap is [refs, cause].     *)

Heap == [refs |-> references, cause |-> cause]

\* An exception that goes gives back what its cause and its context held, which may go
\* in turn.  A step of that, with what is still owed to one object, and all of it.
Settled(d) ==
  LET v == d.object
      h == d.heap
  IN  IF v \notin Values THEN d
      ELSE IF h.refs[v] > d.owed
      THEN [heap |-> [h EXCEPT !.refs[v] = @ - d.owed], object |-> NoValue, owed |-> 0]
      ELSE [heap |-> [h EXCEPT !.refs[v] = 0, !.cause[v] = NoValue], object |-> h.cause[v], owed |-> 2]

Dropped(h, v) ==
  LET debt[k \in 0 .. Cardinality(Values)] ==
        IF k = 0 THEN [heap |-> h, object |-> v, owed |-> 1] ELSE Settled(debt[k - 1])
  IN  debt[Cardinality(Values)].heap

Incref(h, v, n) == IF v \in Values THEN [h EXCEPT !.refs[v] = @ + n] ELSE h

Gone(h, g) == \E v \in Values : h.refs[v] > 0 /\ g.refs[v] = 0

\* A new exception takes the indicator; what was there is dropped.
Raised(h, v) == Incref(Dropped(h, indicator), v, 1)

Becomes(h) == references' = h.refs /\ cause' = h.cause

\* Python code that the function calls fails.
PythonRaises(v) ==
  /\ Executing /\ IsFree(v) /\ indicator = NoValue
  /\ Becomes(Raised(Heap, v))
  /\ indicator' = v
  /\ origin' = [origin EXCEPT ![v] = "python"]
  /\ UNCHANGED <<errs, lost, phase, thrown, nodes, registered>>

-----------------------------------------------------------------------------
(* python_error *)

\* The constructor, by raise_python_error: takes the indicator, which must be set.
Fetch(s) ==
  /\ Executing /\ errs[s] = NoSlot /\ indicator # NoValue
  /\ errs' = [errs EXCEPT ![s] = indicator]
  /\ indicator' = NoValue
  /\ UNCHANGED <<references, cause, origin, lost, phase, thrown, nodes, registered>>

\* Mutant: the copy shares its original's reference.
CopiedShared(s) == Heap

Copied(s) == Incref(Heap, errs[s], 1)

Copy(s, t) ==
  /\ Executing /\ errs[s] # NoSlot /\ errs[t] = NoSlot
  /\ Becomes(Copied(s))
  /\ errs' = [errs EXCEPT ![t] = errs[s]]
  /\ UNCHANGED <<origin, indicator, lost, phase, thrown, nodes, registered>>

Move(s, t) ==
  /\ Executing /\ errs[s] # NoSlot /\ errs[t] = NoSlot
  /\ errs' = [errs EXCEPT ![t] = errs[s], ![s] = NoValue]
  /\ UNCHANGED <<references, cause, origin, indicator, lost, phase, thrown, nodes, registered>>

\* restore, which aborts when the error was restored before.
RestoreError(s) ==
  /\ Executing /\ Holds(s)
  /\ Becomes(Dropped(Heap, indicator))
  /\ indicator' = errs[s]
  /\ errs' = [errs EXCEPT ![s] = NoValue]
  /\ UNCHANGED <<origin, lost, phase, thrown, nodes, registered>>

\* discard_as_unraisable: restored, then PyErr_WriteUnraisable prints and clears it.
Discard(s) ==
  /\ Executing /\ Holds(s)
  /\ Becomes(Dropped(Dropped(Heap, indicator), errs[s]))
  /\ indicator' = NoValue
  /\ errs' = [errs EXCEPT ![s] = NoValue]
  /\ UNCHANGED <<origin, lost, phase, thrown, nodes, registered>>

\* What the indicator holds while a reference is dropped: error_scope sets it aside,
\* so that the code a destructor runs cannot disturb it.  Mutant: it does not.
ScopeOpen == indicator

Scope == NoValue

\* The destructor.  The objects that go may run Python code, which clears an error
\* that it finds.
Destroy(s) ==
  /\ errs[s] # NoSlot
  /\ Executing \/ (phase = "thrown" /\ ~Throws(s))
  /\ LET h == Dropped(Heap, errs[s]) IN
     /\ Becomes(h)
     /\ lost' = (lost \/ (Scope # NoValue /\ Gone(Heap, h)))
  /\ errs' = [errs EXCEPT ![s] = NoSlot]
  /\ UNCHANGED <<origin, indicator, phase, thrown, nodes, registered>>

\* chain_error_v: a new exception whose cause and context are the one before.
Chained(h, v, w) ==
  Incref(Incref([h EXCEPT !.cause[v] = w], w, 1), v, 1)

chain_error(v) ==
  /\ Executing /\ IsFree(v)
  /\ Becomes(Chained(Heap, v, indicator))
  /\ indicator' = v
  /\ origin' = [origin EXCEPT ![v] = "chained"]
  /\ UNCHANGED <<errs, lost, phase, thrown, nodes, registered>>

\* raise_from: restore, chain, and throw what results from another object.
raise_from(s, t, v) ==
  /\ Executing /\ Holds(s) /\ errs[t] = NoSlot /\ IsFree(v)
  /\ Becomes(Chained(Dropped(Heap, indicator), v, errs[s]))
  /\ errs' = [errs EXCEPT ![s] = NoValue, ![t] = v]
  /\ origin' = [origin EXCEPT ![v] = "chained"]
  /\ indicator' = NoValue
  /\ phase' = "thrown" /\ thrown' = [kind |-> "python", slot |-> t, value |-> v]
  /\ UNCHANGED <<lost, nodes, registered>>

-----------------------------------------------------------------------------
(* Throwing, and what the caller makes of it *)

Least(m, n) == IF m < n THEN m ELSE n

\* create_exception: vsnprintf writes at most the buffer's length less one, and a
\* message that is longer is formatted again into memory of its size.
\* Mutant: the message that needs one byte more is taken from the buffer.
FormattedShort(n) == IF n <= Buffer THEN Least(n, Buffer - 1) ELSE n

Formatted(n) == IF n < Buffer THEN Least(n, Buffer - 1) ELSE n

Throwable ==
       {[kind |-> "python", slot |-> s, value |-> errs[s]] : s \in {t \in Slots : Holds(t)}}
  \cup [kind : {"cpp"}, type : Exceptions]
  \cup {[kind |-> "builtin", type |-> ty, length |-> n, written |-> Formatted(n)] :
          ty \in {"value_error", "next_overload"}, n \in 0 .. MaxLength}

\* throw, by the function or by raise: what is on the stack is unwound by Destroy.
Throw(e) ==
  /\ Executing /\ indicator = NoValue
  /\ phase' = "thrown" /\ thrown' = e
  /\ UNCHANGED <<references, cause, origin, indicator, errs, lost, nodes, registered>>

Unwound == \A s \in Slots : errs[s] # NoSlot => Throws(s)

\* register_exception_translator: the head is copied to a new node behind it, and
\* then overwritten.  Mutant: the head is overwritten first.
InsertedLate(t) ==
  [nodes EXCEPT ![1] = [translator |-> t, next |-> Len(nodes) + 1]]
    \o <<[translator |-> t, next |-> Len(nodes) + 1]>>

Inserted(t) ==
  Append([nodes EXCEPT ![1] = [translator |-> t, next |-> Len(nodes) + 1]], nodes[1])

register_exception_translator(t) ==
  /\ Executing /\ t \notin Range(registered)
  /\ nodes' = Inserted(t)
  /\ registered' = Append(registered, t)
  /\ UNCHANGED <<references, cause, origin, indicator, errs, lost, phase, thrown>>

\* The default translator knows what derives from std::exception.
Catching(t, e) == IF t = "default" THEN e # "foreign" ELSE e \in Catches[t]

\* nb_func_convert_cpp_exception: along the list, until a translator does not throw again.
\* The list is at most as long as the nodes there are.
Following(e, n) ==
  IF n = NoNode \/ Catching(nodes[n].translator, e) THEN n ELSE nodes[n].next

Translated(e) ==
  LET tried[k \in 0 .. Len(nodes)] == IF k = 0 THEN 1 ELSE Following(e, tried[k - 1])
      n == tried[Len(nodes)]
  IN  IF n = NoNode THEN "SystemError" ELSE nodes[n].translator

\* set_builtin_exception_status: next_overload sets no error.
SetsError == thrown.type # "next_overload"

Returned(v, type) ==
  /\ IsFree(v) /\ indicator = NoValue
  /\ Becomes(Raised(Heap, v))
  /\ indicator' = v /\ origin' = [origin EXCEPT ![v] = type]
  /\ UNCHANGED <<errs, lost>>

\* The handlers of nb_func_vectorcall.
Convert ==
  /\ phase = "thrown" /\ Unwound
  /\ \/ /\ thrown.kind = "python"
        /\ indicator' = errs[thrown.slot]
        /\ Becomes(Dropped(Heap, indicator))
        /\ errs' = [errs EXCEPT ![thrown.slot] = NoSlot]
        /\ UNCHANGED <<origin, lost>>
     \/ /\ thrown.kind = "builtin" /\ SetsError
        /\ \E v \in Values : Returned(v, "builtin")
     \/ /\ thrown.kind = "builtin" /\ ~SetsError
        /\ UNCHANGED <<references, cause, origin, indicator, errs, lost>>
     \/ /\ thrown.kind = "cpp"
        /\ \E v \in Values : Returned(v, Translated(thrown.type))
  /\ phase' = "returned"
  /\ UNCHANGED <<thrown, nodes, registered>>

\* Python handles the error, and calls the function, or its next overload, again.
CallAgain ==
  /\ phase = "returned"
  /\ Becomes(Dropped(Heap, indicator))
  /\ indicator' = NoValue /\ phase' = "running" /\ thrown' = Nothing
  /\ UNCHANGED <<origin, errs, lost, nodes, registered>>

ErrNext ==
  \/ \E v \in Values : PythonRaises(v) \/ chain_error(v)
  \/ \E s \in Slots : Fetch(s) \/ RestoreError(s) \/ Discard(s) \/ Destroy(s)
  \/ \E s, t \in Slots : Copy(s, t) \/ Move(s, t)
  \/ \E s, t \in Slots, v \in Values : raise_from(s, t, v)
  \/ \E e \in Throwable : Throw(e)
  \/ \E t \in Translators : register_exception_translator(t)
  \/ Convert \/ CallAgain

ErrSpec == ErrInit /\ [][ErrNext]_errVars

-----------------------------------------------------------------------------
(* Properties *)

Referrers(v) ==
    Cardinality({s \in Slots : errs[s] = v})
  + 2 * Cardinality({w \in Values : references[w] > 0 /\ cause[w] = v})
  + (IF indicator = v THEN 1 ELSE 0)

\* Every reference to an exception is owned once: by a python_error, by the error
\* indicator, or twice by the exception that was raised from it (error.cpp:23, 295).
ReferencesExact == \A v \in Values : references[v] = Referrers(v)

\* An error that is under way survives the destruction of another one, whose last
\* reference may run Python code (error.cpp:33).
ErrorSurvives == ~lost

\* A function that failed returns to Python with exactly the error that it threw: the
\* same object for a python_error, the message in its whole length for a raised one,
\* and no error when it asked for the next overload (nb_func.cpp:758).
FailsAsThrown ==
  phase = "returned" =>
    /\ (indicator = NoValue) = (thrown.kind = "builtin" /\ thrown.type = "next_overload")
    /\ thrown.kind = "builtin" => thrown.written = thrown.length
    /\ thrown.kind = "python" => indicator = thrown.value
    /\ \A s \in Slots : errs[s] = NoSlot

\* A C++ exception is translated by the translator registered last of those that
\* catch it, by the default one if there is none, and always by some (nb_func.cpp:499).
NewestTranslates ==
  (phase = "returned" /\ thrown.kind = "cpp") =>
    LET able == {i \in DOMAIN registered : thrown.type \in Catches[registered[i]]}
    IN  origin[indicator] =
          IF able # {} THEN registered[Max(able)]
          ELSE IF thrown.type = "foreign" THEN "SystemError" ELSE "default"

\* The references to exceptions are exact, and a function that failed returns with the error
\* it threw, translated by the newest translator (error.cpp:23, 217, nb_func.cpp:757).
ErrorsArrive == ReferencesExact /\ ErrorSurvives /\ FailsAsThrown /\ NewestTranslates
=============================================================================
