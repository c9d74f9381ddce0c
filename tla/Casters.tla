------------------------------- MODULE Casters -------------------------------
(***************************************************************************)
(* The type casters of nanobind's stl directory, which make a C++          *)
(* container of bound objects from a Python one, element by element, and   *)
(* the sequence access they share (seq_get, src/common.cpp).  One          *)
(* conversion is a behaviour: the source is opened, its elements are       *)
(* converted, the source is closed, and what was made is used, by the      *)
(* function that was called or by the caller of nb::cast.  A conversion    *)
(* of an element may run Python code, which may empty the source.          *)
(***************************************************************************)
EXTENDS SequencesExt, FiniteSetsExt, Integers

CONSTANT MaxItems     \* elements of a source

VARIABLES
  src,      \* the source: its type and its elements
  want,     \* the C++ type: container, and entries by value or by pointer
  mode,     \* whether implicit conversions are allowed, and whether for nb::cast
  pc,       \* "open", "elements", "close", "use", and the ends
  temp,     \* the reference to the list made of the source, or to its iterator
  emptied,  \* Python code has emptied the source
  error,    \* Python's error indicator is set
  out,      \* what was made of the elements so far: pointers
  temps     \* elements whose implicit conversion the cleanup list keeps alive

vars == <<src, want, mode, pc, temp, emptied, error, out, temps>>

\* An element is an instance of the type, an object that an implicit conversion
\* turns into one ("meddler": by running code that empties the source), None, or
\* something else.
Elements == {"instance", "convertible", "meddler", "none", "other"}

\* "sequence" is a sequence that is not a list or tuple, "iterable" can only be
\* iterated, "broken" raises when it is, "object" cannot be iterated; the elements
\* of a "mapping" are its keys and values by turns.
SourceTypes == {"list", "tuple", "sequence", "iterable", "mapping", "broken", "str", "object"}

Containers == {"list", "array", "pair", "tuple", "set", "dict", "optional"}
Size == 2     \* entries of an array, a pair, a tuple

Modes == [convert : BOOLEAN, manual : BOOLEAN]

Init ==
  /\ \E n \in 0 .. MaxItems :
       src \in [type : SourceTypes, items : [1 .. n -> Elements]]
  /\ src.type = "str" => Range(src.items) \subseteq {"other"}
  /\ want \in [container : Containers, entry : {"value", "pointer"}]
  /\ want.container \in {"set", "dict"} => want.entry = "value"
  /\ src.type = "mapping" => want.container = "dict" /\ Len(src.items) % 2 = 0
  /\ src.type = "object" => Len(src.items) = (IF want.container = "optional" THEN 1 ELSE 0)
  /\ want.container = "optional" => src.type = "object"
  /\ mode \in Modes
  /\ pc = "open" /\ temp = "none" /\ emptied = FALSE /\ error = FALSE
  /\ out = <<>> /\ temps = {}

-----------------------------------------------------------------------------
(* Opening the source *)

Fixed == want.container \in {"array", "pair", "tuple"}

\* seq_get, and seq_get_with_size for containers of a fixed size: the elements
\* of the source, or of the list that PySequence_Fast makes of it.
\* Mutant: the size is not compared.
OpensAnySize == src.type \in {"list", "tuple", "sequence"}

Opens ==
  /\ src.type \in {"list", "tuple", "sequence"}
  /\ Fixed => Len(src.items) = Size

FastList == IF src.type = "sequence" THEN "held" ELSE "none"

\* obj_iter throws when there is no iterator, out of from_python, which is noexcept.
OpenSet ==
  /\ want.container = "set"
  /\ pc' = IF src.type = "object" THEN "terminated" ELSE "elements"
  /\ temp' = IF src.type = "object" THEN "none" ELSE "held"
  /\ error' = (src.type = "object")

\* What an optional is made from is the object itself; None makes an empty one.
OpenOptional ==
  /\ want.container = "optional"
  /\ pc' = IF src.items = <<"none">> THEN "close" ELSE "elements"
  /\ UNCHANGED <<temp, error>>

\* PyMapping_Items makes a list, or fails and its error is cleared.
OpenDict ==
  /\ want.container = "dict"
  /\ temp' = IF src.type = "mapping" THEN "held" ELSE "none"
  /\ pc' = IF src.type = "mapping" THEN "elements" ELSE "refused"
  /\ UNCHANGED error

\* PySequence_Fast fails for the broken source: the error is cleared.
OpenSequence ==
  /\ want.container \notin {"set", "dict", "optional"}
  /\ temp' = FastList
  /\ pc' = IF Opens THEN "elements" ELSE "refused"
  /\ UNCHANGED error

Open ==
  /\ pc = "open"
  /\ OpenSet \/ OpenDict \/ OpenOptional \/ OpenSequence
  /\ UNCHANGED <<src, want, mode, emptied, out, temps>>

-----------------------------------------------------------------------------
(* Elements *)

\* Mutant: implicit conversions to pointers are not held back.
LocalConvertAlways == mode.convert

\* flags_for_local_caster: a pointer to an implicit conversion would not outlive
\* nb::cast.  The casters of pair and tuple pass their flags on as they are.
LocalConvert ==
  /\ mode.convert
  /\ (want.entry = "pointer" /\ mode.manual) => want.container \in {"pair", "tuple"}

\* can_cast: None gives a null pointer, which is not a value.
Converts(e) ==
  \/ e = "instance"
  \/ e \in {"convertible", "meddler"} /\ LocalConvert
  \/ e = "none" /\ want.entry = "pointer"

\* The iterator of an emptied list has no more elements.
Remaining ==
  Len(out) < (IF want.container = "set" /\ emptied THEN 0 ELSE Len(src.items))

Element ==
  /\ pc = "elements" /\ Remaining
  /\ LET n == Len(out) + 1
         e == src.items[n]
     IN  IF emptied /\ src.type = "list" THEN
           pc' = "undefined" /\ UNCHANGED <<out, temps, emptied>>
         ELSE IF Converts(e) THEN
           /\ out' = Append(out, e)
           /\ temps' = IF e \in {"convertible", "meddler"} THEN temps \union {n} ELSE temps
           /\ emptied' = (emptied \/ (e = "meddler" /\ src.type = "list"))
           /\ UNCHANGED pc
         ELSE
           pc' = "refused" /\ UNCHANGED <<out, temps, emptied>>
  /\ UNCHANGED <<src, want, mode, temp, error>>

\* What is iterated raises at its end when it is broken: the set's caster clears
\* the error and refuses.
ElementsEnd ==
  /\ pc = "elements" /\ ~Remaining
  /\ pc' = IF want.container = "set" /\ src.type = "broken" THEN "refused" ELSE "close"
  /\ UNCHANGED <<src, want, mode, temp, emptied, error, out, temps>>

\* Mutant: what was opened is not released when an element is refused.
ReleasedOnSuccess == IF pc = "close" THEN "none" ELSE temp

\* The array's caster releases the list only when seq_get_with_size succeeded.
Released ==
  IF want.container = "array" /\ ~Opens THEN temp ELSE "none"

\* from_python returns.  The cleanup list lives as long as the call; nb::cast
\* releases it before it returns.
Close ==
  /\ pc \in {"close", "refused"}
  /\ pc' = IF pc = "close" THEN "use" ELSE "failed"
  /\ temp' = Released
  /\ temps' = IF pc = "refused" \/ mode.manual THEN {} ELSE temps
  /\ UNCHANGED <<src, want, mode, emptied, error, out>>

\* The function has run.
Return ==
  /\ pc = "use"
  /\ pc' = "returned"
  /\ temps' = {}
  /\ UNCHANGED <<src, want, mode, temp, emptied, error, out>>

Next == Open \/ Element \/ ElementsEnd \/ Close \/ Return

Spec == Init /\ [][Next]_vars

-----------------------------------------------------------------------------
(* Properties *)

\* When a caster has returned it holds no reference to what it opened, and
\* leaves no Python error behind, whatever it refused (nb_list.h:54, nb_set.h:55,
\* nb_dict.h:64, nb_array.h:37, pair.h:45).  Left out: an array from a sequence of another size.
NothingLeftBehind ==
  pc \in {"use", "returned", "failed"} =>
    /\ ~error
    /\ temp = "none" \/ (want.container = "array" /\ ~Opens)

\* What is used is alive: a pointer that an implicit conversion made is not used
\* after the cleanup list has let its object go, in a call and in nb::cast
\* (nb_cast.h:110).  Left out: pairs and tuples of pointers made by nb::cast, and
\* sources that were emptied.
PointersLive ==
  (/\ pc = "use" /\ want.entry = "pointer" /\ ~emptied
   /\ ~(mode.manual /\ want.container \in {"pair", "tuple"}))
    => \A n \in DOMAIN out : out[n] \in {"convertible", "meddler"} => n \in temps

\* A container is made of every element of its source, in order, or not at all;
\* and it is made when nothing stands against it.
AllOrNothing ==
  /\ (pc \in {"use", "returned"} /\ ~emptied) =>
        /\ out = IF want.container = "optional" THEN SelectSeq(src.items, LAMBDA e : e # "none") ELSE src.items
        /\ Fixed => Len(out) = Size
  /\ pc = "failed" =>
        \/ src.type \in {"iterable", "str"} /\ want.container # "set"
        \/ src.type # "mapping" /\ want.container = "dict"
        \/ src.type = "broken" \/ (src.type = "object" /\ want.container # "optional")
        \/ Fixed /\ Len(src.items) # Size
        \/ \E n \in DOMAIN src.items : ~Converts(src.items[n])
=============================================================================
