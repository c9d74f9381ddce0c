----------------------------- MODULE Containers -----------------------------
(***************************************************************************)
(* The containers of nanobind's stl/bind_vector.h and stl/bind_map.h: a    *)
(* C++ vector or map held by Python by reference, changed by methods that  *)
(* resemble list and dict, and read through iterators (make_iterator.h)    *)
(* that are C++ iterators into it.  A behaviour has one container, one     *)
(* view and one iterator.                                                  *)
(***************************************************************************)
EXTENDS SequencesExt, FiniteSetsExt, Integers

CONSTANTS
  Values,     \* values of the elements
  Keys,       \* keys of a map, numbers: their order is the map's
  MaxLen,     \* most elements a vector is given
  Indices,    \* indices that Python passes
  Slices      \* slices that Python passes: <<start, stop, step>>

VARIABLES
  kind,    \* "vector", "map", or "fixed": a map whose values cannot be assigned
  items,   \* the elements: a sequence, or a function from the keys there are
  held,    \* what a name in Python still refers to: "container", "view"
  it,      \* the iterator
  last     \* the last method of a vector, what it was called on, and its outcome

vars == <<kind, items, held, it, last>>

NoIterator == [keeps |-> "nothing"]
NoMethod   == [name |-> "none"]

Init ==
  /\ kind \in {"vector", "map", "fixed"}
  /\ items = <<>>
  /\ held = {"container"}
  /\ it = NoIterator
  /\ last = NoMethod

\* keep_alive<0, 1>: a view keeps its map alive, an iterator what it was made from.
Keeps(x) == {"container"} \union {x}

\* Mutant: the iterator keeps nothing.
AliveByName == UNION {Keeps(x) : x \in held}

Alive ==
  (IF it = NoIterator THEN {} ELSE Keeps(it.keeps))
    \union UNION {Keeps(x) : x \in held}

-----------------------------------------------------------------------------
(* Iterators *)

\* Where an iterator can stand: positions of a vector, keys of a map, and the
\* end behind them.
End    == 1 + (IF kind = "vector" THEN Len(items) ELSE Max(Keys))
Places == IF kind = "vector" THEN 1 .. Len(items) ELSE DOMAIN items
Lowest(S) == Min(S \union {End})

make_iterator(source) ==
  /\ it = NoIterator
  /\ source \in held /\ (source = "view" => kind # "vector")
  /\ it' = [keeps |-> source, at |-> Lowest(Places), end |-> End, first_or_done |-> TRUE,
            stale |-> FALSE, seen |-> <<>>, there |-> Places, stopped |-> FALSE, answer |-> "none"]
  /\ UNCHANGED <<kind, items, held, last>>

\* Mutant: the first call steps as well.
AdvancedAtOnce(i) == [i EXCEPT !.first_or_done = FALSE, !.at = Lowest({x \in Places : x > @})]

Advanced(i) ==
  IF i.first_or_done THEN [i EXCEPT !.first_or_done = FALSE]
                     ELSE [i EXCEPT !.at = Lowest({x \in Places : x > @})]

\* An iterator whose container is gone, or whose place is, has undefined
\* behaviour, and so has a step past the end.
StepsPastEnd(i) == ~i.first_or_done /\ i.at = i.end
Advance ==
  /\ it # NoIterator /\ it.answer # "undefined"
  /\ it' = IF it.stale \/ "container" \notin Alive \/ StepsPastEnd(it) THEN [it EXCEPT !.answer = "undefined"]
           ELSE LET i == Advanced(it)
                IN  IF i.at = it.end
                    THEN [i EXCEPT !.first_or_done = TRUE, !.stopped = TRUE, !.answer = "stop"]
                    ELSE [i EXCEPT !.seen = Append(@, i.at), !.answer = "element"]
  /\ UNCHANGED <<kind, items, held, last>>

DropIterator ==
  /\ it # NoIterator
  /\ it' = NoIterator
  /\ UNCHANGED <<kind, items, held, last>>

DropName(x) ==
  /\ x \in held
  /\ held' = held \ {x}
  /\ UNCHANGED <<kind, items, it, last>>

-----------------------------------------------------------------------------
(* Methods of a vector.  Each returns the new elements, its result as a    *)
(* sequence, and the exception it throws ("" for none).                    *)

Returns(v, r)  == [items |-> v, result |-> r, error |-> ""]
Throws(v, exc) == [items |-> v, result |-> <<>>, error |-> exc]

Wrapped(i, n) == IF i < 0 THEN i + n ELSE i
Wraps(i, n)   == Wrapped(i, n) \in 0 .. n - 1

\* PySlice_AdjustIndices and the number of elements a slice selects.
Clamped(x, n, step) ==
  LET y == Wrapped(x, n)
  IN  IF y < 0 THEN (IF step < 0 THEN -1 ELSE 0)
      ELSE IF y >= n THEN (IF step < 0 THEN n - 1 ELSE n) ELSE y
Count(start, stop, step) ==
  IF step < 0 THEN (IF stop < start THEN (start - stop - 1) \div (-step) + 1 ELSE 0)
              ELSE (IF start < stop THEN (stop - start - 1) \div step + 1 ELSE 0)
slice_compute(s, n) ==
  LET start == Clamped(s[1], n, s[3])
  IN  [start |-> start, step |-> s[3], length |-> Count(start, Clamped(s[2], n, s[3]), s[3])]
At(c, k) == c.start + (k - 1) * c.step

\* Elements low to high, numbered from 0, are erased together.
EraseRange(v, low, high) == SubSeq(v, 1, low) \o SubSeq(v, high + 2, Len(v))

\* Mutant: the elements between those of the slice are erased too.
DeleteSliceAsRange(v, s) ==
  LET c == slice_compute(s, Len(v))
      final == At(c, c.length)
  IN  Returns(IF c.length = 0 THEN v ELSE EraseRange(v, Min({c.start, final}), Max({c.start, final})), <<>>)

DeleteSlice(v, s) ==
  LET c    == slice_compute(s, Len(v))
      n    == c.length
      final == At(c, n)
      low  == Min({c.start, final})
      high == Max({c.start, final})
      step == IF c.start > final THEN -c.step ELSE c.step
  IN  Returns(IF n = 0 THEN v
              ELSE IF step = 1 THEN EraseRange(v, low, high)
              ELSE FoldLeft(LAMBDA w, k : EraseRange(w, high - (k - 1) * step, high - (k - 1) * step),
                            v, [k \in 1 .. n |-> k]),
              <<>>)

GetSlice(v, s) ==
  LET c == slice_compute(s, Len(v)) IN Returns(v, [k \in 1 .. c.length |-> v[At(c, k) + 1]])

\* The value is a vector of its own, or (aliases) the vector itself: what is
\* read of it then has perhaps been assigned already.
SetSlice(v, s, value, aliases) ==
  LET c == slice_compute(s, Len(v))
      Source(w) == IF aliases THEN w ELSE value
  IN  IF c.length # Len(Source(v)) THEN Throws(v, "IndexError")
      ELSE Returns(FoldLeft(LAMBDA w, k : [w EXCEPT ![At(c, k) + 1] = Source(w)[k]], v,
                            [k \in 1 .. c.length |-> k]), <<>>)

GetItem(v, i)    == IF Wraps(i, Len(v)) THEN Returns(v, <<v[Wrapped(i, Len(v)) + 1]>>) ELSE Throws(v, "IndexError")
SetItem(v, i, x) == IF Wraps(i, Len(v)) THEN Returns([v EXCEPT ![Wrapped(i, Len(v)) + 1] = x], <<>>) ELSE Throws(v, "IndexError")
DelItem(v, i)    == IF Wraps(i, Len(v)) THEN Returns(RemoveAt(v, Wrapped(i, Len(v)) + 1), <<>>) ELSE Throws(v, "IndexError")
Pop(v, i)        == IF Wraps(i, Len(v)) THEN [DelItem(v, i) EXCEPT !.result = GetItem(v, i).result] ELSE Throws(v, "IndexError")
Insert(v, i, x)  == IF Wrapped(i, Len(v)) \in 0 .. Len(v)
                    THEN Returns(InsertAt(v, Wrapped(i, Len(v)) + 1, x), <<>>) ELSE Throws(v, "IndexError")
RemoveValue(v, x) == IF Contains(v, x) THEN Returns(RemoveFirst(v, x), <<>>) ELSE Throws(v, "ValueError")

\* A change of its size ends the validity of a vector's iterators, their end included.
Invalidated(i, new) == IF i # NoIterator /\ Len(new) # Len(items) THEN [i EXCEPT !.stale = TRUE] ELSE i

\* The outcome is recorded when there is no iterator.
Method(name, args, outcome) ==
  /\ kind = "vector" /\ "container" \in held
  /\ Len(outcome.items) <= MaxLen
  /\ last' = IF it # NoIterator \/ name = "init" THEN NoMethod
             ELSE [name |-> name, args |-> args, on |-> items,
                   result |-> outcome.result, error |-> outcome.error]
  /\ items' = outcome.items
  /\ it' = Invalidated(it, outcome.items)
  /\ UNCHANGED <<kind, held>>

\* extend(v) on v itself inserts v's own iterators into v (bind_vector.h:126), which C++ does
\* not define: elements that were moved to new memory before are read again as what a move
\* left of them.
MovedFrom == "moved from"
ExtendSelf ==
  \E tail \in {items, [k \in DOMAIN items |-> MovedFrom]} :
    Method("extendself", <<>>, Returns(items \o tail, <<>>))

Construct(s) == it = NoIterator /\ items = <<>> /\ Method("init", <<s>>, Returns(s, <<>>))

VectorMethod ==
  \/ \E x \in Values :
       \/ Method("append", <<x>>, Returns(Append(items, x), <<>>))
       \/ Method("remove", <<x>>, RemoveValue(items, x))
  \/ \E i \in Indices :
       \/ Method("getitem", <<i>>, GetItem(items, i))
       \/ Method("delitem", <<i>>, DelItem(items, i))
       \/ Method("pop", <<i>>, Pop(items, i))
       \/ \E x \in Values : \/ Method("insert", <<i, x>>, Insert(items, i, x))
                            \/ Method("setitem", <<i, x>>, SetItem(items, i, x))
  \/ \E s \in Slices :
       \/ Method("getslice", <<s>>, GetSlice(items, s))
       \/ Method("delslice", <<s>>, DeleteSlice(items, s))
       \/ \E x \in Values : \E y \in Values \ {x} :
            Method("setslice", <<s, <<x, y>>>>, SetSlice(items, s, <<x, y>>, FALSE))
       \/ Method("setself", <<s>>, SetSlice(items, s, <<>>, TRUE))
  \/ \E x, y \in Values : Method("extend", <<<<x, y>>>>, Returns(items \o <<x, y>>, <<>>))
  \/ ExtendSelf
  \/ Method("clear", <<>>, Returns(<<>>, <<>>))
  \/ \E n \in 1 .. MaxLen : \E s \in [1 .. n -> Values] : Construct(s)

-----------------------------------------------------------------------------
(* Methods of a map *)

\* An erased key takes along the iterator that stands on it.
Erased(i, keys) ==
  IF i = NoIterator THEN i
  ELSE [i EXCEPT !.stale = @ \/ (i.at \in keys), !.there = @ \ keys]

MapMethod(new, i) ==
  /\ kind # "vector" /\ "container" \in held
  /\ items' = new /\ it' = i
  /\ UNCHANGED <<kind, held, last>>

With(k, x) == [y \in DOMAIN items \union {k} |-> IF y = k THEN x ELSE items[y]]
Without(keys) == [y \in DOMAIN items \ keys |-> items[y]]

\* map_set: values that cannot be assigned are erased and put in again.
SetKey(k, x) == MapMethod(With(k, x), IF kind = "fixed" THEN Erased(it, {k} \intersect DOMAIN items) ELSE it)
DeleteKey(k) == k \in DOMAIN items /\ MapMethod(Without({k}), Erased(it, {k}))
ClearMap     == MapMethod(<<>>, Erased(it, DOMAIN items))

View ==
  /\ kind # "vector" /\ "container" \in held
  /\ held' = held \union {"view"}
  /\ UNCHANGED <<kind, items, it, last>>

\* A method whose outcome is recorded ends the behaviour: what it left could
\* have been constructed.
Next ==
  /\ last = NoMethod
  /\ \/ \E x \in {"container", "view"} : make_iterator(x) \/ DropName(x)
     \/ Advance \/ DropIterator
     \/ VectorMethod
     \/ \E k \in Keys : DeleteKey(k) \/ \E x \in Values : SetKey(k, x)
     \/ ClearMap \/ View

Spec == Init /\ [][Next]_vars

-----------------------------------------------------------------------------
(* Properties *)

\* The indices that Python's slice of a list of n elements selects, in its order: every
\* abs(step)th one from its start, which is the nearest end if it is beyond it, up to its stop.
Selected(n, s) ==
  LET from == Wrapped(s[1], n)   to == Wrapped(s[2], n)   step == s[3]
      up == Max({from, 0})       down == Min({from, n - 1})
  IN  IF step > 0
      THEN SetToSortSeq({k \in 0 .. n - 1 : up <= k /\ k < to /\ (k - up) % step = 0}, <)
      ELSE SetToSortSeq({k \in 0 .. n - 1 : to < k /\ k <= down /\ (down - k) % (-step) = 0}, >)

\* What is left of v without the elements at the indices.
Rest(v, gone) ==
  LET kept == SelectSeq([k \in 1 .. Len(v) |-> k - 1], LAMBDA k : k \notin gone)
  IN  [k \in 1 .. Len(kept) |-> v[kept[k] + 1]]

\* v with the values at the indices, one after the other.
Put(v, indices, values) ==
  [i \in DOMAIN v |-> IF \E k \in DOMAIN indices : indices[k] = i - 1
                      THEN values[CHOOSE k \in DOMAIN indices : indices[k] = i - 1] ELSE v[i]]

\* The elements that a Python list has after the method, and its result.
ListDoes(name, v, args) ==
  LET n     == Len(v)
      index == (args[1] + n) % n
      slice == Selected(n, args[1])
  IN  CASE name = "append"   -> Returns(Append(v, args[1]), <<>>)
        [] name = "extend"   -> Returns(v \o args[1], <<>>)
        [] name = "clear"    -> Returns(<<>>, <<>>)
        [] name = "remove"   -> LET i == Min({k \in DOMAIN v : v[k] = args[1]}) IN Returns(Rest(v, {i - 1}), <<>>)
        [] name = "getitem"  -> Returns(v, <<v[index + 1]>>)
        [] name = "setitem"  -> Returns(Put(v, <<index>>, <<args[2]>>), <<>>)
        [] name = "delitem"  -> Returns(Rest(v, {index}), <<>>)
        [] name = "pop"      -> Returns(Rest(v, {index}), <<v[index + 1]>>)
        [] name = "insert"   -> LET i == IF args[1] < 0 THEN args[1] + n ELSE args[1]
                                IN  Returns(SubSeq(v, 1, i) \o <<args[2]>> \o SubSeq(v, i + 1, n), <<>>)
        [] name = "getslice" -> Returns(v, [k \in DOMAIN slice |-> v[slice[k] + 1]])
        [] name = "delslice" -> Returns(Rest(v, Range(slice)), <<>>)
        [] name = "setslice" -> Returns(Put(v, slice, args[2]), <<>>)
        [] name = "setself"  -> Returns(Put(v, slice, v), <<>>)

\* When a list would not do that: an index that is out of range, a value that is not there,
\* values that are not as many as the slice.  (A list takes any index for insert, and resizes
\* for a slice of step 1; the vector throws.)
Refused(name, v, args) ==
  LET n == Len(v)
  IN  CASE name \in {"getitem", "setitem", "delitem", "pop"} -> args[1] \notin -n .. n - 1
        [] name = "insert"   -> args[1] \notin -n .. n
        [] name = "remove"   -> args[1] \notin Range(v)
        [] name = "setslice" -> Len(Selected(n, args[1])) # Len(args[2])
        [] name = "setself"  -> Len(Selected(n, args[1])) # n
        [] OTHER -> FALSE

\* Two calls are not like a list's: v.extend(v), whose behaviour is undefined, and v[::-1] = v,
\* which reads elements that it has already assigned (bind_vector.h:164).
OnItself(name, v, args) ==
  \/ name = "extendself"
  \/ name = "setself" /\ Len(v) > 1 /\ args[1][3] < 0

\* Every other method leaves the elements, and returns those, that a list's would, with slices
\* of either direction and any step; one that throws changes nothing.
LikeAList ==
  last # NoMethod /\ ~OnItself(last.name, last.on, last.args) =>
    IF Refused(last.name, last.on, last.args) THEN last.error # "" /\ items = last.on
    ELSE [items |-> items, result |-> last.result, error |-> last.error] = ListDoes(last.name, last.on, last.args)

\* An iterator only leaves defined behaviour when the program has changed the
\* container under it in a way that invalidates C++ iterators: names that go
\* away never do that, nor does stepping an iterator that has stopped.
UndefinedOnlyWhenChanged ==
  (it # NoIterator /\ it.answer = "undefined") => it.stale

\* An iterator visits places in order, and when it stops it has visited every
\* place that was there all the time; stopped, it never answers again.
IterationComplete ==
  (it # NoIterator /\ it.answer # "undefined") =>
    /\ \A i, j \in DOMAIN it.seen : i < j => it.seen[i] < it.seen[j]
    /\ it.stopped => /\ it.there \subseteq Range(it.seen)
                     /\ it.answer = "stop"
=============================================================================
