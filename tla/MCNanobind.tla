----------------------------- MODULE MCNanobind -----------------------------
(***************************************************************************)
(* Checks the models of nanobind's components together: the first step of  *)
(* a behaviour chooses the part that it is of.  The parts do not share     *)
(* state in these models, so the variables s1 to s9 serve each of them     *)
(* in turn; Counter, Instances, Ndarray and Errors, which are extended,    *)
(* have their own.                                                         *)
(***************************************************************************)
EXTENDS Counter, Instances, Ndarray, Errors, Integers, TLC

VARIABLES part, s1, s2, s3, s4, s5, s6, s7, s8, s9

Unused == "unused"

-----------------------------------------------------------------------------
(* Functions and calls *)

Param(name, type, default, convert, none) ==
  [kind |-> "arg", name |-> name, type |-> type, default |-> default, convert |-> convert, none |-> none]
Plain(type) == Param("", type, "no", TRUE, FALSE)

Signature(params, kw_only, has_args, implicit, body) ==
  [params |-> params, kw_only |-> kw_only, has_args |-> has_args, implicit |-> implicit,
   operator |-> FALSE, body |-> body]

\* What may be defined in the module: overloads with one argument, two arguments with
\* a default, an operator, and every kind of parameter.
ModuleFunctions ==
  {Signature(<<Plain("B")>>, 0, FALSE, FALSE, "raised"),
   Signature(<<Param("x", "A", "no", TRUE, FALSE), Param("y", "int", "int", TRUE, FALSE)>>, 0, TRUE, FALSE, "returned"),
   [Signature(<<Plain("float")>>, 0, FALSE, FALSE, "returned") EXCEPT !.operator = TRUE],
   Signature(<<Param("x", "int", "no", TRUE, FALSE), [kind |-> "args"],
               Param("y", "float", "no", TRUE, FALSE), [kind |-> "kwargs"]>>, 3, TRUE, FALSE, "returned"),
   Signature(<<Param("x", "pointer", "None", FALSE, TRUE), Param("y", "A", "no", TRUE, FALSE)>>, 2, TRUE, FALSE, "returned")}

\* The constructors of A: one that copies, and two that implicit conversions use, of
\* which one fails.
Constructors ==
  {Signature(<<Plain("self"), Plain("A")>>, 0, FALSE, FALSE, "returned"),
   Signature(<<Plain("self"), Plain("float")>>, 0, FALSE, TRUE, "returned"),
   Signature(<<Plain("self"), Plain("B")>>, 0, FALSE, TRUE, "raised")}

Arguments ==
  [pos : {<<"A">>, <<"B">>, <<"int">>, <<"None">>, <<"A", "int">>},
   kw  : {<<>>, [x |-> "int"], [y |-> "int"], [y |-> "B"]}]

CallPart == INSTANCE Calls WITH
  Objs <- {"o1", "o2", "o3", "o4"}, Scopes <- {"module", "A"}, MaxDefined <- 3, Calling <- Arguments,
  Overloads <- [s \in {"module", "A"} |-> IF s = "module" THEN ModuleFunctions ELSE Constructors],
  attr <- s1, aliased <- s2, chain <- s3, funcs <- s4, captures <- s5, implicit <- s6, last <- s7

-----------------------------------------------------------------------------
(* Arrays *)

Layout(shape, strides, dtype) == [shape |-> shape, strides |-> strides, dtype |-> dtype]
Ask(order, shape, dtype) == [order |-> order, shape |-> shape, dtype |-> dtype]
Offer(layout, req, convert) == [layout |-> layout, req |-> req, convert |-> convert]

ArrayOffers ==
  {Offer(Layout(<<2, 3>>, <<3, 1>>, "f64"), Ask("F", <<-1, -1>>, "any"), TRUE),
   Offer(Layout(<<2, 3>>, <<1, 2>>, "f64"), Ask("F", <<2, -1>>, "f64"), FALSE),
   Offer(Layout(<<1, 3>>, <<7, 1>>, "f64"), Ask("C", <<-1, -1>>, "any"), FALSE),
   Offer(Layout(<<0, 2>>, <<5, 5>>, "f64"), Ask("C", <<-1, -1>>, "any"), FALSE),
   Offer(Layout(<<2, 3>>, <<>>, "complex"), Ask("F", <<2, 3>>, "f64"), TRUE),
   Offer(Layout(<<2, 3>>, <<>>, "f64"), Ask("F", <<>>, "any"), FALSE),
   Offer(Layout(<<2, 3>>, <<1, 3>>, "f64"), Ask("F", <<>>, "f64"), FALSE),
   Offer(Layout(<<3>>, <<>>, "f64"), Ask("any", <<>>, "f64"), FALSE)}

-----------------------------------------------------------------------------
(* The other parts *)

\* Keys that collide at the start, at the end and across the end of 16 and 32 buckets.
HashPart == INSTANCE RobinHash WITH
  Keys <- {"k1", "k2", "k3", "k4", "k5", "k6"},
  HashOf <- [k1 |-> 15, k2 |-> 31, k3 |-> 0, k4 |-> 16, k5 |-> 2, k6 |-> 7],
  DIST_FROM_IDEAL_BUCKET_LIMIT <- 1, MaxBucketCount <- 32,
  table <- s1, present <- s2

ContainerPart == INSTANCE Containers WITH
  Values <- {"x", "y"}, Keys <- {1, 2, 3}, MaxLen <- 4, Indices <- -4 .. 4,
  Slices <- {-5, -1, 0, 1, 2, 3, 99} \X {-5, -2, 0, 2, 4, 99} \X {-3, -2, -1, 1, 2},
  kind <- s1, items <- s2, held <- s3, it <- s4, last <- s5

CasterPart == INSTANCE Casters WITH
  MaxItems <- 3,
  src <- s1, want <- s2, mode <- s3, pc <- s4, temp <- s5, emptied <- s6, error <- s7, out <- s8, temps <- s9

\* A translator that catches a part of what the other does.
ErrorCatches == [t1 |-> {"custom", "derived"}, t2 |-> {"derived"}]

\* The limits of integers of 2, 3, 5 and 7 bits, and of a digit of 4.
ConversionPart == INSTANCE Conversions WITH
  Widths <- {2, 3, 5, 7}, Word <- 7, Digit <- 4, MaxMembers <- 3,
  Numbers <- {-65, -64, -33, -32, -17, -16, -15, -9, -8, -5, -4, -3, -2, -1, 0, 1, 2, 3, 4, 5, 7, 8,
              15, 16, 31, 32, 63, 64, 127, 128},
  Enumerators <- {-64, -1, 1, 64, 127, 128},
  signed <- s1, members <- s2, value_map <- s3, fwd <- s4, rev <- s5, last <- s6

-----------------------------------------------------------------------------

\* The variables that a part does not use: those from the one in the name on.
rest8 == <<s8, s9>>
rest7 == <<s7, rest8>>
rest6 == <<s6, rest7>>
rest3 == <<s3, s4, s5, rest6>>
rest1 == <<s1, s2, rest3>>

Blank8 == s8 = Unused /\ s9 = Unused
Blank7 == s7 = Unused /\ Blank8
Blank6 == s6 = Unused /\ Blank7
Blank3 == s3 = Unused /\ s4 = Unused /\ s5 = Unused /\ Blank6
Blank1 == s1 = Unused /\ s2 = Unused /\ Blank3

NbInit ==
  /\ Init /\ InstInit /\ NdInit /\ ErrInit
  /\ \/ part \in {"counter", "instances", "arrays", "errors"} /\ Blank1
     \/ part = "calls" /\ CallPart!Init /\ Blank8
     \/ part = "hash" /\ HashPart!Init /\ Blank3
     \/ part = "containers" /\ ContainerPart!Init /\ Blank6
     \/ part = "casters" /\ CasterPart!Init
     \/ part = "conversions" /\ ConversionPart!Init /\ Blank7

NbNext ==
  /\ part' = part
  /\ \/ part = "counter" /\ Next /\ UNCHANGED <<instVars, ndVars, errVars, rest1>>
     \/ part = "instances" /\ InstNext /\ UNCHANGED <<vars, ndVars, errVars, rest1>>
     \/ part = "arrays" /\ NdNext /\ UNCHANGED <<vars, instVars, errVars, rest1>>
     \/ part = "errors" /\ ErrNext /\ UNCHANGED <<vars, instVars, ndVars, rest1>>
     \/ /\ UNCHANGED <<vars, instVars, ndVars, errVars>>
        /\ \/ part = "calls" /\ CallPart!Next /\ UNCHANGED rest8
           \/ part = "hash" /\ HashPart!Next /\ UNCHANGED rest3
           \/ part = "containers" /\ ContainerPart!Next /\ UNCHANGED rest6
           \/ part = "casters" /\ CasterPart!Next
           \/ part = "conversions" /\ ConversionPart!Next /\ UNCHANGED rest7

NbSpec == NbInit /\ [][NbNext]_<<vars, instVars, ndVars, errVars, part, rest1>>

Interchangeable == Permutations(Insts)

-----------------------------------------------------------------------------
(* The parts' properties, each the conjunction of those that its module
   states; Counted is Counter's, InstancesOwned, ArraysShared and ErrorsArrive those of
   Instances, Ndarray and Errors *)

\* A call reaches the overload that the rules name, with every argument once, by either of
\* the two paths, and ends; every overload belongs to one live function (nb_func.cpp:622).
CallsDispatched == part = "calls" =>
  /\ CallPart!ArgumentsConserved /\ CallPart!StrictFirst /\ CallPart!PathsAgree
  /\ CallPart!ConversionsEnd /\ CallPart!FuncsExact

\* A search of the table finds exactly the keys that are there, after any displacement, shift
\* and rehash, and always ends (robin_hash.h, find_impl).
KeysFound == part = "hash" => HashPart!FindsExactly /\ HashPart!HasRoom

\* Bound vectors do what lists do, with slices of either direction, but for v.extend(v) and
\* v[::-1] = v on the vector itself; and iterations visit what is there, as long as the
\* container is not changed under them; a caster makes its
\* container of every element or fails, uses nothing that is gone, and leaves neither a
\* reference nor an error behind (bind_vector.h, make_iterator.h:79, stl/detail, nb_cast.h:110).
ContainersKept ==
  /\ part = "containers" =>
       ContainerPart!LikeAList /\ ContainerPart!UndefinedOnlyWhenChanged /\ ContainerPart!IterationComplete
  /\ part = "casters" =>
       CasterPart!NothingLeftBehind /\ CasterPart!PointersLive /\ CasterPart!AllOrNothing

\* Numbers and members of enumerations keep their values both ways, or are refused, and the
\* elements of an array are where the requested order puts them, except for the arrays without
\* strides that a request for F order without a shape mistakes (load_int, nb_enum.cpp,
\* nb_ndarray.cpp:396).
ValuesKept == OrderExact /\ (part = "conversions" =>
  ConversionPart!NumbersExact /\ ConversionPart!EnumerationsAgree)
=============================================================================
