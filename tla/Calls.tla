------------------------------- MODULE Calls -------------------------------
(***************************************************************************)
(* Functions bound with nanobind (nb_func.cpp): definitions that extend an *)
(* overload chain, and calls, which bind their arguments to each overload  *)
(* in turn, first strictly and then with implicit conversions.  The bound  *)
(* names are a function f of a module, the constructors of a class A, and  *)
(* those of a class D derived from it.  Values are the kinds of object     *)
(* that the overloads can tell apart.                                      *)
(***************************************************************************)
EXTENDS Integers, Sequences, SequencesExt, FiniteSets

CONSTANTS
  Objs,       \* the nb_func objects
  Scopes,     \* "module", "A" and "D", or some of them
  Overloads,  \* what may be defined in each scope, [Scopes -> SUBSET signatures]
  Calling,    \* the calls made, [pos, kw] records
  MaxDefined  \* bound: overloads that exist at a time

\* A parameter: an annotated argument, nb::args or nb::kwargs.
Param(name, type, default, convert, none) ==
  [kind |-> "arg", name |-> name, type |-> type, default |-> default, convert |-> convert, none |-> none]
Plain(type) == Param("", type, "no", TRUE, FALSE)
VarArgs     == [kind |-> "args"]
VarKwargs   == [kind |-> "kwargs"]

VARIABLES
  attr,      \* the attribute of each scope
  aliased,   \* the functions that other Python variables have
  chain,     \* the overloads that each nb_func has
  funcs,     \* internals->funcs
  captures,  \* the overloads whose capture was made and not freed
  implicit,  \* A's implicit conversions: the types it may be made from
  last       \* the last call and its result

vars == <<attr, aliased, chain, funcs, captures, implicit, last>>

Error(what) == [what |-> what, overload |-> 0, args |-> <<>>]
NoKeywords  == [k \in {} |-> "no"]
NoCall      == [chain |-> <<>>, pos |-> <<>>, kw |-> NoKeywords, result |-> Error("none")]

Init ==
  /\ attr = [s \in Scopes |-> "none"] /\ aliased = {}
  /\ chain = [o \in Objs |-> <<>>] /\ funcs = {} /\ captures = {}
  /\ implicit = {} /\ last = NoCall

Alive(o) == o \in aliased \/ \E s \in Scopes : attr[s] = o

\* Attributes of D are looked up in A too.
Lookup(s) == IF s = "D" /\ attr[s] = "none" THEN attr["A"] ELSE attr[s]

-----------------------------------------------------------------------------
(* Definitions *)

IsConstructor(s) == s # "module"

\* Mutant: copy constructors convert like the others.
WithoutConversionNever(sig) == sig

\* A copy constructor gets an annotation that forbids conversions.
WithoutConversion(sig) ==
  IF Len(sig.params) = 2 /\ sig.params[1].type = "self" /\ sig.params[2].type = "A"
  THEN [sig EXCEPT !.has_args = TRUE, !.params[2].convert = FALSE]
  ELSE sig

\* Mutant: the function that was extended keeps its overloads too.
TakenFromNone(c, prev) == c

TakenFrom(c, prev) == [o \in Objs |-> IF o = prev THEN <<>> ELSE c[o]]

\* An object goes with its last reference (nb_func_dealloc); one that was extended has
\* nothing left to free.
Dealloc(o, c, fs) ==
  IF c[o] = <<>> THEN /\ funcs' = fs /\ chain' = c /\ captures' = captures
  ELSE /\ funcs' = fs \ {o} /\ chain' = [c EXCEPT ![o] = <<>>]
       /\ captures' = captures \ ToSet(c[o])

\* The object that is allocated; which one makes no difference.
Allocated == CHOOSE o \in Objs : ~Alive(o) /\ chain[o] = <<>>

\* What is left once the object has its overloads: the new one's data are copied, an
\* implicit constructor says what it converts from, and the scope gets the object.
Publish(s, o, sig, new) ==
  /\ captures' = captures \cup {new}
  /\ implicit' = IF sig.implicit THEN implicit \cup {sig.params[2].type} ELSE implicit
  /\ attr' = [attr EXCEPT ![s] = o]

\* nb_func_new: a new object that takes over the overloads of the one with this name, if
\* that has the same scope.
nb_func_new(s, sig) ==
  LET o == Allocated
      prev == Lookup(s)
      extends == prev # "none" /\ attr[s] = prev
      old == IF extends THEN chain[prev] ELSE <<>>
      new == IF IsConstructor(s) THEN WithoutConversion(sig) ELSE sig
      taken == IF extends THEN TakenFrom(chain, prev) ELSE chain
  IN  /\ new \notin captures /\ Cardinality(captures) < MaxDefined
      /\ chain' = [taken EXCEPT ![o] = Append(old, new)]
      /\ funcs' = (IF extends THEN funcs \ {prev} ELSE funcs) \cup {o}
      /\ Publish(s, o, sig, new)
      /\ UNCHANGED <<aliased, last>>

\* Python keeps the function of the module in another variable too, and drops it.
Alias ==
  /\ attr["module"] # "none" /\ aliased = {}
  /\ aliased' = {attr["module"]}
  /\ UNCHANGED <<attr, chain, funcs, captures, implicit, last>>

DropAlias(o) ==
  /\ o \in aliased /\ aliased' = {}
  /\ IF attr["module"] = o THEN UNCHANGED <<chain, funcs, captures>>
                                      ELSE Dealloc(o, chain, funcs)
  /\ UNCHANGED <<attr, implicit, last>>

\* Python deletes the function of the module.
DeleteAttr ==
  LET o == attr["module"]
  IN  /\ o # "none" /\ attr' = [attr EXCEPT !["module"] = "none"]
      /\ IF o \in aliased THEN UNCHANGED <<chain, funcs, captures>> ELSE Dealloc(o, chain, funcs)
      /\ UNCHANGED <<aliased, implicit, last>>

-----------------------------------------------------------------------------
(* Binding of arguments *)

Individual(sig) == {i \in DOMAIN sig.params : sig.params[i].kind = "arg"}
Has(sig, kind)  == \E i \in DOMAIN sig.params : sig.params[i].kind = kind

\* func_create: the parameters that positional arguments fill one by one.
nargs_pos(sig) ==
  CHOOSE n \in 0..Len(sig.params) :
    /\ \A i \in 1..n : sig.params[i].kind = "arg" /\ i # sig.kw_only
    /\ n < Len(sig.params) => sig.params[n + 1].kind # "arg" \/ sig.kw_only = n + 1

Positional(sig, pos, i) == i <= Len(pos) /\ i <= nargs_pos(sig)
Keyword(sig, kw, i)     == sig.has_args /\ sig.params[i].name \in DOMAIN kw

\* Mutant: a positional argument wins over a keyword argument of the same name.
ConflictNever(sig, pos, kw, i) == FALSE

Conflict(sig, pos, kw, i) == Positional(sig, pos, i) /\ Keyword(sig, kw, i)

Supplied(sig, pos, kw, i) ==
  CASE Positional(sig, pos, i) -> pos[i]
    [] Keyword(sig, kw, i)     -> kw[sig.params[i].name]
    [] OTHER                   -> IF sig.has_args THEN sig.params[i].default ELSE "no"

Unused(sig, kw) ==
  DOMAIN kw \ {sig.params[i].name : i \in IF sig.has_args THEN Individual(sig) ELSE {}}

\* The overload can be tried: every parameter has its argument, and every argument a parameter.
Binds(sig, pos, kw) ==
  /\ Len(pos) > nargs_pos(sig) => Has(sig, "args")
  /\ Len(pos) < nargs_pos(sig) => sig.has_args
  /\ \A i \in Individual(sig) :
       /\ ~Conflict(sig, pos, kw, i)
       /\ Supplied(sig, pos, kw, i) # "no"
       /\ Supplied(sig, pos, kw, i) = "None" => sig.has_args /\ sig.params[i].none
  /\ Unused(sig, kw) # {} => Has(sig, "kwargs")

Bound(sig, pos, kw) ==
  [i \in DOMAIN sig.params |->
     CASE sig.params[i].kind = "arg"    -> Supplied(sig, pos, kw, i)
       [] sig.params[i].kind = "args"   -> SubSeq(pos, nargs_pos(sig) + 1, Len(pos))
       [] sig.params[i].kind = "kwargs" -> [k \in Unused(sig, kw) |-> kw[k]]]

-----------------------------------------------------------------------------
(* Overload resolution *)

complex_call(c) ==
  \E n \in DOMAIN c : c[n].has_args \/ nargs_pos(c[n]) < Len(c[n].params)

\* The casters that need no other call: a strict match, a conversion of numbers, and the
\* null pointer of a parameter that is a pointer.
Loads(type, v, convert) ==
  \/ v = type
  \/ type = "float" /\ v = "int" /\ convert
  \/ type = "pointer" /\ v \in {"A", "None"}

RECURSIVE nb_func_vectorcall(_, _, _, _, _), Tried(_, _, _, _, _, _)

\* nb_type_get_implicit: the value is of a type that A can be made from, and A's
\* constructor takes it.  Errors of the constructor are cleared.
Implicit(v, make, depth) ==
  IF ~\E T \in make.implicit : Loads(T, v, TRUE) THEN "no"
  ELSE LET r == nb_func_vectorcall(make.ctors, <<"self", v>>, NoKeywords, make, depth - 1)
       IN  CASE r.what = "returned" -> "yes" [] r.what = "recursed" -> "recursed" [] OTHER -> "no"

\* The casters of one overload, in the order of its parameters, and then its body.
Impl(sig, args, converts, make, depth) ==
  LET cast == [i \in Individual(sig) |->
                 CASE Loads(sig.params[i].type, args[i], converts[i])   -> "yes"
                   [] sig.params[i].type = "A" /\ converts[i]           -> Implicit(args[i], make, depth)
                   [] OTHER                                             -> "no"]
      failed == {i \in DOMAIN cast : cast[i] # "yes"}
  IN  IF failed = {} THEN sig.body
      ELSE IF cast[CHOOSE i \in failed : \A j \in failed : i <= j] = "recursed" THEN "recursed" ELSE "next"

\* Mutant: each overload is tried both ways before the next one.
AttemptPerOverload(c, n) == [k |-> (n \div 2) + 1, convert |-> n % 2 = 1]

\* The n-th attempt, out of two passes over the chain; only the second one converts.
Attempt(c, n) == [k |-> (n % Len(c)) + 1, convert |-> n >= Len(c)]

Tried(c, n, pos, kw, make, depth) ==
  LET k == Attempt(c, n).k
      convert == Attempt(c, n).convert
      sig == c[k]
      took == IF ~Binds(sig, pos, kw) THEN "next"
              ELSE Impl(sig, Bound(sig, pos, kw),
                        [i \in DOMAIN sig.params |->
                           convert /\ (sig.has_args /\ i \in Individual(sig) => sig.params[i].convert)],
                        make, depth)
  IN  IF n = 2 * Len(c) THEN Error(IF c[1].operator THEN "not_implemented" ELSE "incompatible")
      ELSE IF took = "next" THEN Tried(c, n + 1, pos, kw, make, depth)
      ELSE [what |-> took, overload |-> k, args |-> Bound(sig, pos, kw)]

nb_func_vectorcall_complex(c, pos, kw, make, depth) ==
  Tried(c, IF Len(c) > 1 THEN 0 ELSE 1, pos, kw, make, depth)

\* Mutant: None is left to the overloads, as null pointers.
nb_func_vectorcall_simpleNone(c, pos, kw, make, depth) ==
  IF DOMAIN kw # {} THEN Error("incompatible")
  ELSE Tried([k \in DOMAIN c |-> [c[k] EXCEPT !.has_args = TRUE, !.params =
                [i \in DOMAIN c[k].params |-> [c[k].params[i] EXCEPT !.none = TRUE]]]],
             IF Len(c) > 1 THEN 0 ELSE 1, pos, kw, make, depth)

\* Functions without annotations: no keyword arguments, no None, and as many arguments as
\* the overload has parameters.
nb_func_vectorcall_simple(c, pos, kw, make, depth) ==
  IF DOMAIN kw # {} \/ "None" \in ToSet(pos)
  THEN Error(IF c[1].operator THEN "not_implemented" ELSE "incompatible")
  ELSE Tried(c, IF Len(c) > 1 THEN 0 ELSE 1, pos, kw, make, depth)

\* The depth of the conversions within conversions is bounded here, not in the code.
nb_func_vectorcall(c, pos, kw, make, depth) ==
  IF depth = 0 THEN Error("recursed")
  ELSE IF c = <<>> THEN Error("incompatible")
  ELSE IF complex_call(c) THEN nb_func_vectorcall_complex(c, pos, kw, make, depth)
                          ELSE nb_func_vectorcall_simple(c, pos, kw, make, depth)

MaxDepth == 3

\* What implicit conversions use: the type's constructors.
Making == [implicit |-> implicit, ctors |-> IF attr["A"] = "none" THEN <<>> ELSE chain[attr["A"]]]

\* A call of a function; a class is called through its constructors.  A function that was
\* extended under another name has no overloads left, not even the name for the error.
Call(o, call) ==
  /\ Alive(o)
  /\ LET method == \E s \in Scopes \ {"module"} : attr[s] = o
         pos == IF method THEN <<"self">> \o call.pos ELSE call.pos
     IN  last' = [chain |-> chain[o], pos |-> pos, kw |-> call.kw,
                  result |-> IF chain[o] = <<>> THEN Error("undefined")
                             ELSE nb_func_vectorcall(chain[o], pos, call.kw, Making, MaxDepth)]
  /\ UNCHANGED <<attr, aliased, chain, funcs, captures, implicit>>

\* A call leaves the definitions as they are: the model ends with it.
Next ==
  /\ last = NoCall
  /\ \/ \E s \in Scopes : \E sig \in Overloads[s] : nb_func_new(s, sig)
     \/ Alias \/ DeleteAttr
     \/ \E o \in Objs : DropAlias(o) \/ \E call \in Calling : Call(o, call)

Spec == Init /\ [][Next]_vars

-----------------------------------------------------------------------------
(* Properties *)

Returned == last.result.what \notin {"none", "incompatible", "not_implemented", "undefined", "recursed"}

\* Every argument of a call reaches the overload that takes it, once: a positional one at
\* its place or in *args, a keyword one by its name or in **kwargs; and a parameter that
\* was given none has its default.  (nb_func.cpp: nothing is dropped, nothing bound twice.)
ArgumentsConserved ==
  Returned =>
    LET sig == last.chain[last.result.overload]
        got == last.result.args
        rest == {i \in DOMAIN sig.params : sig.params[i].kind = "args"}
        named(k) == {i \in Individual(sig) : sig.params[i].name = k}
    IN  /\ \A j \in DOMAIN last.pos :
             IF j <= nargs_pos(sig) THEN got[j] = last.pos[j]
                                    ELSE \E i \in rest : got[i][j - nargs_pos(sig)] = last.pos[j]
        /\ \A i \in rest : Len(got[i]) <= Len(last.pos)
        /\ \A k \in DOMAIN last.kw :
             IF named(k) # {} THEN \A i \in named(k) : got[i] = last.kw[k] /\ i > Len(last.pos)
             ELSE \E i \in DOMAIN sig.params : sig.params[i].kind = "kwargs" /\ got[i][k] = last.kw[k]
        /\ \A i \in Individual(sig) :
             i > Len(last.pos) /\ sig.params[i].name \notin DOMAIN last.kw => got[i] = sig.params[i].default

\* The overload that takes a call is the first that does so without conversions, wherever it
\* was defined in the chain, and only if there is none the first that does so with them.
StrictFirst ==
  Returned =>
    LET takes(k, convert) ==
          Tried(<<last.chain[k]>>, IF convert THEN 1 ELSE 0, last.pos, last.kw, Making, MaxDepth)
        strict == {k \in DOMAIN last.chain :
                     Binds(last.chain[k], last.pos, last.kw)
                     /\ Impl(last.chain[k], Bound(last.chain[k], last.pos, last.kw),
                             [i \in DOMAIN last.chain[k].params |-> FALSE], Making, MaxDepth) # "next"}
        any == {k \in DOMAIN last.chain :
                  takes(k, TRUE).what \notin {"incompatible", "not_implemented"}}
        first == IF strict # {} THEN strict ELSE any
    IN  last.result.overload = CHOOSE k \in first : \A l \in first : k <= l

\* A function without annotations is called on a shorter path; the result is the same.
PathsAgree ==
  last.chain # <<>> =>
    last.result = nb_func_vectorcall_complex(last.chain, last.pos, last.kw, Making, MaxDepth)

\* Implicit conversions end, also where the converting constructors convert their
\* arguments.  (nb_func.cpp: "causes infinite recursion".)
ConversionsEnd == last.result.what # "recursed"

\* Every overload belongs to one function that is alive, and those are the ones registered:
\* no sequence of definitions, aliases and deletions frees a capture twice, or never.
FuncsExact ==
  /\ funcs = {o \in Objs : Alive(o) /\ chain[o] # <<>>}
  /\ captures = UNION {ToSet(chain[o]) : o \in funcs}
  /\ \A o, p \in funcs : o # p => ToSet(chain[o]) \cap ToSet(chain[p]) = {}
=============================================================================
