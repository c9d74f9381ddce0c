-------------------------------- MODULE Types --------------------------------
(***************************************************************************)
(* nanobind's registry of bound types (src/nb_type.cpp, src/nb_enum.cpp,   *)
(* src/nb_internals.cpp): two tables map std::type_info to the data of  *)
(* the Python type, a slow one that compares names and a fast one that     *)
(* compares addresses and caches, for each shared library's own copy of a  *)
(* type_info, what the slow one found.  Registering a type runs Python     *)
(* code, during which another thread may run; so does making the internals *)
(* that the tables are in, and so does the warning about a second          *)
(* registration.                                                           *)
(***************************************************************************)
EXTENDS SequencesExt, FiniteSetsExt, Integers

CONSTANTS
  CppTypes,     \* C++ types: classes and enumerations
  Enums,        \* the enumerations
  Base,         \* [CppTypes -> a type or "none"]: nb::class_<T, Base>
  Flags,        \* [CppTypes -> sets of flags]: what a binding asks for
  Libs,         \* extension modules: each has its own type_info of every type
  Importers,    \* threads that import them
  MaxClasses    \* bound on the type objects made

VARIABLES
  internals, \* [modules that called init -> the internals they use]
  registry, \* the internals in the interpreter's dictionary, or Null
  made,     \* how many internals were made
  raced,    \* two modules looked for the internals before either had made them
  deleted,  \* internals that were deleted at exit
  state,    \* "live", "exited", or where the process ends: "null" (a type data that is
            \* not there is read), "undefined" (an iterator that no longer points to its
            \* entry is used), "unknown base", "not found" (checks that abort)
  slow,     \* type_c2p_slow: <<internals, type>> |-> type data, Null while it is being made
  fast,     \* type_c2p_fast: type_info |-> type data; a library asks its own internals
  type_data, \* the type data records ever made
  freed,    \* lists of implicit conversions that were freed
  making,   \* [Importers -> the registration a thread is in]
  waiting   \* [Importers -> the Python code that init or a warning runs in a thread]

loadVars == <<internals, registry, made, raced>>

typeVars == <<loadVars, deleted, state, slow, fast, type_data, freed, making, waiting>>

Null == 0
Idle == [step |-> "idle"]
Infos == Libs \X CppTypes      \* std::type_info objects
TypeOf(i) == i[2]

Known(d) == d \in DOMAIN type_data /\ type_data[d].alive
Kind(t) == IF t \in Enums THEN "enum" ELSE "class"

\* What a class inherits from its base without asking (nb_type_new).
Inherited == {"has_dynamic_attr", "is_weak_referenceable", "intrusive_ptr", "has_shared_from_this"}

\* The entry of a type in the slow table that its library uses.
NameIn(libs, i) == <<libs[i[1]], TypeOf(i)>>

TypesInit ==
  /\ internals = <<>> /\ registry = Null /\ made = 0 /\ raced = FALSE /\ deleted = {}
  /\ state = "live"
  /\ slow = <<>> /\ fast = <<>> /\ type_data = <<>> /\ freed = {}
  /\ making = [th \in Importers |-> Idle] /\ waiting = [th \in Importers |-> Idle]

Free(th) == making[th] = Idle /\ waiting[th] = Idle

Loading(th) == waiting[th] # Idle /\ waiting[th].step = "loading"

With(f, k, v) == [x \in DOMAIN f \union {k} |-> IF x = k THEN v ELSE f[x]]
Less(f, ks) == Restrict(f, DOMAIN f \ ks)

-----------------------------------------------------------------------------
(* init: importing a module (Python lets one thread at a time import it)   *)

\* The internals are looked for in the dictionary.  When they are not there the module
\* makes them, which runs Python code.
LoadLook(th, lib) ==
  /\ state = "live" /\ Free(th) /\ lib \notin DOMAIN internals
  /\ \A o \in Importers : Loading(o) => waiting[o].lib # lib
  /\ IF registry # Null THEN
       internals' = With(internals, lib, registry) /\ UNCHANGED <<waiting, raced>>
     ELSE
       /\ waiting' = [waiting EXCEPT ![th] = [step |-> "loading", lib |-> lib]]
       /\ raced' = (raced \/ \E o \in Importers : Loading(o))
       /\ UNCHANGED internals
  /\ UNCHANGED <<registry, made, deleted, state, slow, fast, type_data, freed, making>>

\* They go into the dictionary, in the place of those another thread may have put there.
LoadSet(th) ==
  /\ state = "live" /\ Loading(th)
  /\ made' = made + 1 /\ registry' = made + 1
  /\ internals' = With(internals, waiting[th].lib, made + 1)
  /\ waiting' = [waiting EXCEPT ![th] = Idle]
  /\ UNCHANGED <<raced, deleted, state, slow, fast, type_data, freed, making>>

-----------------------------------------------------------------------------
(* Registering a type: nb_type_new and enum_create *)

\* Another thread's iterator into the slow table of internals k may not be valid any more.
TouchedIn(threads, k, self) ==
  [th \in Importers |->
     IF threads[th] # Idle /\ th # self /\ "info" \in DOMAIN threads[th] /\ internals[threads[th].info[1]] = k
     THEN [threads[th] EXCEPT !.stale = TRUE] ELSE threads[th]]

Touched(k, self) == TouchedIn(making, k, self)

\* The table's entry is claimed before Python code runs.
\* Mutant: the entry appears only with the type.
ClaimedLate(n) == slow

Claimed(n) == With(slow, n, Null)

Begin(th, i) ==
  /\ state = "live" /\ i[1] \in DOMAIN internals /\ Free(th)
  /\ Len(type_data) + Cardinality({o \in Importers : making[o] # Idle}) < MaxClasses
  /\ LET n == NameIn(internals, i) IN
     /\ n \notin DOMAIN slow
     /\ slow' = Claimed(n)
     /\ making' = [Touched(n[1], th) EXCEPT ![th] =
                     [step |-> "claimed", info |-> i, base |-> Null, stale |-> FALSE]]
     /\ waiting' = TouchedIn(waiting, n[1], th)
  /\ UNCHANGED <<loadVars, deleted, state, fast, type_data, freed>>

\* The type was registered before, or is being registered: there is a warning first,
\* which runs Python code.
Again(th, i) ==
  /\ state = "live" /\ i[1] \in DOMAIN internals /\ Free(th)
  /\ NameIn(internals, i) \in DOMAIN slow
  /\ waiting' = [waiting EXCEPT ![th] = [step |-> "warned", info |-> i, stale |-> FALSE]]
  /\ UNCHANGED <<loadVars, deleted, state, slow, fast, type_data, freed, making>>

\* Then the Python type of the entry is returned, through the iterator found before.
Return(th) ==
  /\ state = "live" /\ waiting[th] # Idle /\ waiting[th].step = "warned"
  /\ LET n == NameIn(internals, waiting[th].info) IN
     \/ waiting[th].stale /\ state' = "undefined"
     \/ /\ n \in DOMAIN slow
        /\ state' = IF slow[n] = Null THEN "null" ELSE state
  /\ waiting' = [waiting EXCEPT ![th] = Idle]
  /\ UNCHANGED <<loadVars, deleted, slow, fast, type_data, freed, making>>

\* The base is looked up and the type object is made from it.
Make(th) ==
  /\ state = "live" /\ making[th] # Idle /\ making[th].step = "claimed"
  /\ LET base == Base[TypeOf(making[th].info)]
         b == <<internals[making[th].info[1]], base>> IN
     IF base = "none" THEN
       making' = [making EXCEPT ![th].step = "made"] /\ UNCHANGED state
     ELSE IF b \notin DOMAIN slow THEN
       state' = "unknown base" /\ UNCHANGED making
     ELSE IF slow[b] = Null THEN
       state' = "null" /\ UNCHANGED making
     ELSE
       making' = [making EXCEPT ![th].step = "made", ![th].base = slow[b]] /\ UNCHANGED state
  /\ UNCHANGED <<loadVars, deleted, slow, fast, type_data, freed, waiting>>

\* Mutant: a class has only the flags its own binding asks for.
FlagsOfOwn(t, b) == Flags[t]

FlagsOf(t, b) ==
  Flags[t] \union (IF b = Null THEN {} ELSE type_data[b].flags \intersect Inherited)

\* Both tables get the type's data.  enum_create first writes through the iterator
\* it has kept since it claimed the entry.
Register(th) ==
  /\ state = "live" /\ making[th] # Idle /\ making[th].step = "made"
  /\ LET i == making[th].info
         t == TypeOf(i)
         b == making[th].base
         d == Len(type_data) + 1
     IN  \/ /\ Kind(t) = "enum" /\ making[th].stale
            /\ state' = "undefined" /\ UNCHANGED <<slow, fast, type_data>>
         \/ /\ type_data' = Append(type_data,
                 [info |-> i, kind |-> Kind(t), base |-> b, alive |-> TRUE, chain |-> <<>>,
                  flags |-> FlagsOf(t, b), implicit |-> {}])
            /\ fast' = With(fast, i, d)
            /\ slow' = With(slow, NameIn(internals, i), d)
            /\ UNCHANGED state
  /\ making' = [making EXCEPT ![th] = Idle]
  /\ UNCHANGED <<loadVars, deleted, freed, waiting>>

-----------------------------------------------------------------------------
(* Looking a type up, extending it, letting it go *)

\* nb_type_c2p: what only the slow table knows is cached under this address, and
\* the address noted in the type's alias chain.  Mutant: it is not noted.
NotedNone(d, i) == type_data[d].chain

Noted(d, i) == <<i>> \o type_data[d].chain

nb_type_c2p(i) ==
  /\ state = "live" /\ i[1] \in DOMAIN internals
  /\ i \notin DOMAIN fast /\ NameIn(internals, i) \in DOMAIN slow
  /\ LET d == slow[NameIn(internals, i)] IN
     IF d = Null THEN
       state' = "null" /\ UNCHANGED <<fast, type_data>>
     ELSE
       /\ type_data' = [type_data EXCEPT ![d].chain = Noted(d, i)]
       /\ fast' = With(fast, i, d)
       /\ UNCHANGED state
  /\ UNCHANGED <<loadVars, deleted, slow, freed, making, waiting>>

\* implicitly_convertible: the first conversion from a C++ type, or by a predicate,
\* allocates the list of its kind; more of them replace it by a longer one.
AddImplicit(d, list) ==
  /\ state = "live" /\ Known(d) /\ type_data[d].kind = "class"
  /\ type_data' = [type_data EXCEPT ![d].implicit = @ \union {<<d, list>>}]
  /\ UNCHANGED <<loadVars, deleted, state, slow, fast, freed, making, waiting>>

\* Mutant: a Python class keeps its base's lists.
DerivedImplicitShared(d) == type_data[d].implicit

DerivedImplicit(d) == {}

\* nb_type_init: a Python class extends the type and copies its data.
nb_type_init(d) ==
  /\ state = "live" /\ Known(d) /\ type_data[d].kind # "enum"
  /\ "is_final" \notin type_data[d].flags
  /\ Len(type_data) + Cardinality({o \in Importers : making[o] # Idle}) < MaxClasses
  /\ type_data' = Append(type_data,
       [type_data[d] EXCEPT !.kind = "python", !.base = d, !.chain = <<>>,
                            !.implicit = DerivedImplicit(d)])
  /\ UNCHANGED <<loadVars, deleted, state, slow, fast, freed, making, waiting>>

\* nb_type_unregister: the entries that are erased, each of which must be there.
Entries(d) == {type_data[d].info} \union Range(type_data[d].chain)

Unregisters(d) ==
  /\ NameIn(internals, type_data[d].info) \in DOMAIN slow
  /\ Entries(d) \subseteq DOMAIN fast
  /\ Cardinality(Entries(d)) = 1 + Len(type_data[d].chain)

Needed(d) ==
  \/ \E e \in DOMAIN type_data : Known(e) /\ type_data[e].base = d
  \/ \E th \in Importers : making[th] # Idle /\ making[th].base = d

\* nb_type_dealloc, and the destructor of an enumeration's __nb_enum__ capsule: the
\* last reference is gone.  A type that is extended is referenced.
nb_type_dealloc(d) ==
  /\ state = "live" /\ Known(d) /\ ~Needed(d)
  /\ type_data' = [type_data EXCEPT ![d].alive = FALSE]
  /\ freed' = freed \union type_data[d].implicit
  /\ IF type_data[d].kind = "python" THEN
       UNCHANGED <<slow, fast, making, waiting, state>>
     ELSE
       LET n == NameIn(internals, type_data[d].info) IN
       /\ slow' = Less(slow, {n})
       /\ fast' = Less(fast, Entries(d))
       /\ making' = Touched(n[1], Null) /\ waiting' = TouchedIn(waiting, n[1], Null)
       /\ state' = IF Unregisters(d) THEN state ELSE "not found"
  /\ UNCHANGED <<loadVars, deleted>>

\* internals_cleanup, at exit: the internals k go when nothing was leaked.
\* Mutant: types that are left do not count.
LeaksNothing(k) == FALSE

Leaks(k) == \/ \E n \in DOMAIN slow : n[1] = k
            \/ \E i \in DOMAIN fast : internals[i[1]] = k

internals_cleanup(k) ==
  /\ state \in {"live", "exited"} /\ \A th \in Importers : Free(th)
  /\ k \notin deleted
  /\ deleted' = IF Leaks(k) THEN deleted ELSE deleted \union {k}
  /\ state' = "exited"
  /\ UNCHANGED <<loadVars, slow, fast, type_data, freed, making, waiting>>

TypesNext ==
  \/ \E th \in Importers, lib \in Libs : LoadLook(th, lib)
  \/ \E th \in Importers, i \in Infos : Begin(th, i) \/ Again(th, i)
  \/ \E th \in Importers : LoadSet(th) \/ Return(th) \/ Make(th) \/ Register(th)
  \/ \E i \in Infos : nb_type_c2p(i)
  \/ \E d \in DOMAIN type_data :
       nb_type_init(d) \/ nb_type_dealloc(d) \/ \E list \in {"cpp", "py"} : AddImplicit(d, list)
  \/ \E k \in 1..made : internals_cleanup(k)

TypesSpec == TypesInit /\ [][TypesNext]_typeVars

-----------------------------------------------------------------------------
(* Properties *)

\* The tables agree with the types that exist: every registered type is found under
\* its name and under its own type_info, whichever library asks gets that type's
\* data, no entry outlives its type, and every cached address will be erased with it
\* (nb_type.cpp:315, 340).
TablesAgree ==
  state \in {"live", "exited"} =>
    /\ \A i \in DOMAIN fast :
         /\ Known(fast[i]) /\ slow[NameIn(internals, i)] = fast[i]
         /\ i \in Entries(fast[i])
    /\ \A n \in DOMAIN slow :
         IF slow[n] = Null
         THEN \E th \in Importers : making[th] # Idle /\ NameIn(internals, making[th].info) = n
         ELSE Known(slow[n]) /\ fast[type_data[slow[n]].info] = slow[n]
    /\ \A d \in DOMAIN type_data :
         (type_data[d].alive /\ type_data[d].kind # "python")
           => slow[NameIn(internals, type_data[d].info)] = d

\* A type is registered once among the libraries that share internals: two registrations
\* of it are never under way together, and what unregisters it finds all its entries (the
\* check at nb_type.cpp:362).
RegisteredOnce ==
  /\ state # "not found"
  /\ \A t, u \in Importers :
       (t # u /\ making[t] # Idle /\ making[u] # Idle)
         => NameIn(internals, making[t].info) # NameIn(internals, making[u].info)

\* All libraries share the internals of the first, unless two of them looked for the
\* internals before either had made them (nb_internals.cpp:359, 479).  Then there are
\* several, and a type may be registered in each.
InternalsShared ==
  ~raced => \A l, m \in DOMAIN internals : internals[l] = internals[m]

\* A list of implicit conversions belongs to one type: it is not freed while a type
\* still uses it, however the type was extended (nb_type.cpp:373, 418).
ListsOwned ==
  \A d \in DOMAIN type_data : Known(d) => type_data[d].implicit \intersect freed = {}

\* What instances of a base class rely on, a class derived from it provides, over
\* several generations and whether it was bound in C++ or written in Python
\* (nb_type.cpp:1021, 1152).
Provides ==
  \A d \in DOMAIN type_data : (Known(d) /\ type_data[d].base # Null)
    => type_data[type_data[d].base].flags \intersect Inherited \subseteq type_data[d].flags

\* The internals are deleted only when no type, bound or derived in Python, is left
\* that refers to them (nb_internals.cpp:285).
FreedWhenUnused ==
  \A d \in DOMAIN type_data : type_data[d].alive => internals[type_data[d].info[1]] \notin deleted

\* In each of the internals the tables of types agree with the types that exist, each
\* registered once and torn down with its last user, also when threads register types
\* together; a derived class provides what its base relies on; and libraries have
\* internals of their own only after a race of two imports (init, nb_type_new,
\* nb_type_c2p, nb_type_dealloc, internals_cleanup).  It says nothing of a process that
\* used an entry before its type was made, or an iterator after Python code ran
\* (nb_type.cpp:954, 1021; nb_enum.cpp:72): such a process ends as "null" or "undefined".
TypesRegistered ==
  /\ TablesAgree /\ RegisteredOnce /\ InternalsShared
  /\ ListsOwned /\ Provides /\ FreedWhenUnused
=============================================================================
