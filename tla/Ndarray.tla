------------------------------ MODULE Ndarray ------------------------------
(***************************************************************************)
(* N-dimensional arrays exchanged with Python (nb_ndarray.cpp): arrays of  *)
(* Python that C++ imports, arrays of C++ that it exports, the tensors and *)
(* capsules that carry them, and who frees what.  get_bitflips of the      *)
(* Python bindings returns its read-back buffer this way.                  *)
(***************************************************************************)
EXTENDS Integers, Sequences, FiniteSets, FiniteSetsExt, SequencesExt

CONSTANTS
  Arrays,    \* Python's arrays
  Copies,    \* the arrays that conversions may make
  Owners,    \* the capsules that own buffers of C++
  Selves,    \* bound instances whose methods return arrays
  Handles,   \* ndarray_handles
  Tensors,   \* managed_dltensors
  Offers,    \* the calls made: the layout [shape, strides, dtype] of the array passed (strides
             \* <<>> when not given), what the function asks, [order, shape, dtype], and convert
  MaxUses    \* bound: C++ arrays, views, capsules and consumers that are alive together

Objects == Arrays \cup Copies \cup Owners \cup Selves

ASSUME ArraysAssumption ==
  IsFiniteSet(Handles) /\ IsFiniteSet(Tensors) /\ "none" \notin Objects \cup Handles \cup Tensors

VARIABLES
  store,     \* [refs, tensor, handle]: reference counts, and the structures on the heap
  named,     \* the objects that Python's variables refer to
  cpp,       \* ndarray objects of C++, per handle
  views,     \* NumPy arrays and the nb_ndarray objects under them, per handle
  capsules,  \* capsules not consumed, per tensor
  consumers, \* arrays of other frameworks that took a capsule, per tensor
  answer,    \* the last import: what was passed, asked and answered
  misled     \* a capsule was made of a tensor that the handle does not manage

ndVars == <<store, named, cpp, views, capsules, consumers, answer, misled>>

NoTensor == [made |-> "no", holds |-> "none", handle |-> "none", strides |-> FALSE]
NoHandle == [tensor |-> "none", refcount |-> 0, owner |-> "none", self |-> "none",
             free_strides |-> FALSE, call_deleter |-> FALSE]
NoAnswer == [offer |-> CHOOSE f \in Offers : TRUE, order |-> TRUE, asked |-> FALSE]

NdInit ==
  /\ store = [refs |-> [o \in Objects |-> IF o \in Arrays \cup Selves THEN 1 ELSE 0],
              tensor |-> [t \in Tensors |-> NoTensor], handle |-> [h \in Handles |-> NoHandle]]
  /\ named = Arrays \cup Selves
  /\ cpp = [h \in Handles |-> 0] /\ views = [h \in Handles |-> 0]
  /\ capsules = [t \in Tensors |-> 0] /\ consumers = [t \in Tensors |-> 0]
  /\ answer = NoAnswer /\ misled = FALSE

IsHandle(h)  == store.handle[h] # NoHandle
IsTensor(t)  == store.tensor[t] # NoTensor
Uses == FoldFunction(+, 0, cpp) + FoldFunction(+, 0, views)
        + FoldFunction(+, 0, capsules) + FoldFunction(+, 0, consumers)

FreshHandle  == CHOOSE h \in Handles : ~IsHandle(h)
FreshTensor  == CHOOSE t \in Tensors : ~IsTensor(t)
HandleIsFree == \E h \in Handles : ~IsHandle(h)
TensorIsFree == \E t \in Tensors : ~IsTensor(t)

-----------------------------------------------------------------------------
(* Reference counts *)

Referred(m, o) == IF o = "none" THEN m ELSE [m EXCEPT !.refs[o] = @ + 1]
Unreferred(m, o) == IF o = "none" THEN m ELSE [m EXCEPT !.refs[o] = @ - 1]

ndarray_inc_ref(m, h) == [m EXCEPT !.handle[h].refcount = @ + 1]

\* Mutant: the owner of the buffer is kept for ever.
ReleasedKeepsOwner(m, h) ==
  [Unreferred(m, m.handle[h].self) EXCEPT !.handle[h] = NoHandle]

\* What the last reference to a handle gives back, but for its tensor.
Released(m, h) ==
  [Unreferred(Unreferred(m, m.handle[h].owner), m.handle[h].self) EXCEPT !.handle[h] = NoHandle]

\* A handle that ndarray_create made frees its tensor with itself.
DecOwn(m, h) ==
  IF m.handle[h].refcount > 1 THEN [m EXCEPT !.handle[h].refcount = @ - 1]
  ELSE [Released(m, h) EXCEPT !.tensor[m.handle[h].tensor] = NoTensor]

\* The deleter of a tensor: its producer's, or ndarray_create's.
Deleter(m, t) ==
  IF m.tensor[t].made = "producer"
  THEN [Unreferred(m, m.tensor[t].holds) EXCEPT !.tensor[t] = NoTensor]
  ELSE DecOwn(m, m.tensor[t].handle)

ndarray_dec_ref(m, h) ==
  CASE m.handle[h].refcount > 1   -> [m EXCEPT !.handle[h].refcount = @ - 1]
    [] ~m.handle[h].call_deleter -> DecOwn(m, h)
    [] OTHER ->
         LET t == m.handle[h].tensor
             freed == IF m.handle[h].free_strides THEN [m EXCEPT !.tensor[t].strides = FALSE] ELSE m
         IN  Deleter(Released(freed, h), t)

-----------------------------------------------------------------------------
(* Requirements of a bound function *)

Product(f, S) == FoldSet(LAMBDA i, acc : f[i] * acc, 1, S)

CStrides(shape) == [i \in DOMAIN shape |-> Product(shape, (i + 1)..Len(shape))]
FStrides(shape) == [i \in DOMAIN shape |-> Product(shape, 1..(i - 1))]

PassShape(l, req) ==
  req.shape # <<>> =>
    /\ Len(req.shape) = Len(l.shape)
    /\ \A i \in DOMAIN req.shape : req.shape[i] \in {l.shape[i], -1}

\* The elements counted: those of as many dimensions as the request names.
Size(l, req) == Product(l.shape, DOMAIN l.shape \cap DOMAIN req.shape)

\* Mutant: dimensions of a single element must have the canonical stride too.
SameStridesEverywhere(l, strides) == strides = l.strides

\* A dimension of a single element may have any stride.
SameStrides(l, strides) == \A i \in DOMAIN l.shape : l.shape[i] # 1 => strides[i] = l.strides[i]

PassOrder(l, req) ==
  \/ req.order = "any" \/ l.shape = <<>> \/ Size(l, req) = 0
  \/ IF l.strides = <<>> THEN req.order = "C" \/ Size(l, req) = 1
     ELSE SameStrides(l, IF req.order = "C" THEN CStrides(l.shape) ELSE FStrides(l.shape))

PassDtype(l, req) == req.dtype \in {"any", l.dtype}

\* A complex array is never converted to a request that is not for complex numbers.
RefusedConversion(l, req) == l.dtype = "complex" /\ req.dtype # "complex"

-----------------------------------------------------------------------------
(* Imports *)

\* The producer makes a tensor of o: __dlpack__, or dlpack_from_buffer_protocol.
Produced(m, t, o, l) ==
  [Referred(m, o) EXCEPT !.tensor[t] =
     [made |-> "producer", holds |-> o, handle |-> "none", strides |-> l.strides # <<>>]]

\* The tail of ndarray_import and the ndarray made from it.
Taken(m, h, t, self) ==
  ndarray_inc_ref(Referred([m EXCEPT !.handle[h] =
     [tensor |-> t, refcount |-> 0, owner |-> "none", self |-> self,
      free_strides |-> ~m.tensor[t].strides, call_deleter |-> TRUE],
     !.tensor[t].strides = TRUE], self), h)

\* A handle to the tensor of o, and the ndarray that the bound function gets.
Accept(o, l) ==
  LET h == FreshHandle
  IN  /\ HandleIsFree /\ TensorIsFree /\ Uses < MaxUses
      /\ store' = Taken(Produced(store, FreshTensor, o, l), h, FreshTensor, o)
      /\ cpp' = [cpp EXCEPT ![h] = 1]

\* What astype or to makes: a new array that satisfies the request.  The call's cleanup
\* list holds it until the call ends, the handle for longer.
ConvertedLayout(l, req) ==
  [shape |-> l.shape, dtype |-> IF req.dtype = "any" THEN l.dtype ELSE req.dtype,
   strides |-> IF req.order = "F" THEN FStrides(l.shape) ELSE CStrides(l.shape)]

ImportArray(o, offer) ==
  LET l == offer.layout   req == offer.req   convert == offer.convert
  IN  /\ ~misled /\ o \in named
      /\ answer' = [offer |-> offer, order |-> PassOrder(l, req), asked |-> TRUE]
      /\ \/ /\ PassShape(l, req) /\ PassDtype(l, req) /\ PassOrder(l, req) /\ Accept(o, l)
         \/ /\ PassShape(l, req) /\ ~(PassDtype(l, req) /\ PassOrder(l, req))
            /\ convert /\ ~RefusedConversion(l, req)
            /\ \E c \in Copies : store.refs[c] = 0 /\ Accept(c, ConvertedLayout(l, req))
         \/ /\ ~(PassShape(l, req) /\ PassDtype(l, req) /\ PassOrder(l, req))
            /\ ~convert \/ ~PassShape(l, req) \/ RefusedConversion(l, req)
            /\ UNCHANGED <<store, cpp>>
      /\ UNCHANGED <<named, views, capsules, consumers, misled>>

\* Python calls o.__dlpack__() itself.
MakeCapsule(o) ==
  /\ ~misled /\ o \in named \cap (Arrays \cup Copies) /\ TensorIsFree /\ Uses < MaxUses
  /\ store' = Produced(store, FreshTensor, o, (CHOOSE f \in Offers : TRUE).layout)
  /\ capsules' = [capsules EXCEPT ![FreshTensor] = 1]
  /\ answer' = NoAnswer
  /\ UNCHANGED <<named, cpp, views, consumers, misled>>

\* A bound function is passed the capsule: the handle has no self.
ImportCapsule(t) ==
  LET h == FreshHandle
  IN  /\ ~misled /\ capsules[t] > 0 /\ HandleIsFree
      /\ store' = Taken(store, h, t, "none")
      /\ cpp' = [cpp EXCEPT ![h] = 1]
      /\ capsules' = [capsules EXCEPT ![t] = @ - 1]
      /\ answer' = NoAnswer
      /\ UNCHANGED <<named, views, consumers, misled>>

-----------------------------------------------------------------------------
(* Arrays of C++ *)

\* ndarray_create with a capsule that owns the buffer (get_bitflips), which the function
\* lets go when it returns, or with no owner.
Create(owner) ==
  LET h == FreshHandle   t == FreshTensor
  IN  /\ ~misled /\ HandleIsFree /\ TensorIsFree /\ Uses < MaxUses /\ (owner # "none" => store.refs[owner] = 0)
      /\ store' = ndarray_inc_ref([Referred(store, owner) EXCEPT
                  !.tensor[t] = [made |-> "nanobind", holds |-> "none", handle |-> h, strides |-> TRUE],
                  !.handle[h] = [tensor |-> t, refcount |-> 0, owner |-> owner, self |-> "none",
                                 free_strides |-> TRUE, call_deleter |-> FALSE]], h)
      /\ cpp' = [cpp EXCEPT ![h] = 1]
      /\ answer' = NoAnswer
      /\ UNCHANGED <<named, views, capsules, consumers, misled>>

CopyArray(h) ==
  /\ ~misled /\ cpp[h] > 0 /\ Uses < MaxUses
  /\ store' = ndarray_inc_ref(store, h) /\ cpp' = [cpp EXCEPT ![h] = @ + 1] /\ answer' = NoAnswer
  /\ UNCHANGED <<named, views, capsules, consumers, misled>>

DropArray(h) ==
  /\ ~misled /\ cpp[h] > 0
  /\ store' = ndarray_dec_ref(store, h) /\ cpp' = [cpp EXCEPT ![h] = @ - 1] /\ answer' = NoAnswer
  /\ UNCHANGED <<named, views, capsules, consumers, misled>>

-----------------------------------------------------------------------------
(* Exports: ndarray_wrap *)

Managed(m, t) == m.tensor[t].made = "nanobind"
IsMaker(m, h) == m.tensor[m.handle[h].tensor].handle = h

\* reference_internal makes the first argument the owner, if there is none yet.
RefusedOwner(h, policy, self) ==
  policy = "reference_internal" /\ store.handle[h].owner \notin {"none", self}

WithOwner(h, policy, self) ==
  IF policy = "reference_internal" /\ self # "none" /\ store.handle[h].owner = "none"
  THEN Referred([store EXCEPT !.handle[h].owner = self], self) ELSE store

IsCopied(hd, policy) ==
  \/ policy = "copy"
  \/ policy \in {"automatic", "reference_internal"} /\ hd.owner = "none" /\ hd.self = "none"

\* The result is the object that was imported.
ReturnSelf(m, h) ==
  LET o == m.handle[h].self
  IN  /\ store' = IF o \in named THEN m ELSE Referred(m, o)
      /\ named' = named \cup {o}
      /\ UNCHANGED <<views, capsules, consumers, misled>>

\* Mutant: the nb_ndarray does not count as a user of the handle.
ReturnNumpyUncounted(m, h, copy) ==
  /\ store' = m
  /\ IF copy THEN views' = views ELSE Uses < MaxUses /\ views' = [views EXCEPT ![h] = @ + 1]
  /\ UNCHANGED <<named, capsules, consumers, misled>>

\* numpy.array of an nb_ndarray: a view of the data, or a copy that leaves nothing.
ReturnNumpy(m, h, copy) ==
  /\ IF copy THEN store' = m /\ views' = views
     ELSE /\ Uses < MaxUses
          /\ store' = ndarray_inc_ref(m, h) /\ views' = [views EXCEPT ![h] = @ + 1]
  /\ UNCHANGED <<named, capsules, consumers, misled>>

\* A capsule of the tensor, whose destructor takes the tensor for one of ndarray_create.
\* Without a framework Python gets the capsule itself, which has no copy().
ReturnCapsule(m, h, copy) ==
  LET t == m.handle[h].tensor
  IN  /\ misled' = ~IsMaker(m, h)
      /\ IF copy THEN store' = m /\ capsules' = capsules
         ELSE /\ Uses < MaxUses
              /\ store' = ndarray_inc_ref(m, h) /\ capsules' = [capsules EXCEPT ![t] = @ + 1]
      /\ UNCHANGED <<named, views, consumers>>

\* A framework takes the capsule at once; a copy lets it go again.
ReturnTensor(m, h, copy) ==
  LET t == m.handle[h].tensor
  IN  /\ misled' = ~IsMaker(m, h)
      /\ IF copy THEN store' = m /\ consumers' = consumers
         ELSE /\ Uses < MaxUses
              /\ store' = ndarray_inc_ref(m, h) /\ consumers' = [consumers EXCEPT ![t] = @ + 1]
      /\ UNCHANGED <<named, views, capsules>>

\* A function that returns a C++ array: the array goes after the call.
Wrap(h, framework, policy, self) ==
  LET m == WithOwner(h, policy, self)
      hd == m.handle[h]
      copy == IsCopied(hd, policy)
  IN  /\ ~misled /\ cpp[h] > 0 /\ ~RefusedOwner(h, policy, self)
      /\ \/ ~copy /\ hd.self # "none" /\ ReturnSelf(m, h)
         \/ ~copy /\ hd.self = "none" /\ policy = "none"
              /\ UNCHANGED <<store, named, views, capsules, consumers, misled>>
         \/ /\ copy \/ (hd.self = "none" /\ policy # "none")
            /\ \/ framework = "numpy" /\ ReturnNumpy(m, h, copy)
               \/ framework = "other" /\ ReturnTensor(m, h, copy)
               \/ framework = "none" /\ copy /\ hd.self # "none"  \* self.copy(): another array
                    /\ store' = m /\ UNCHANGED <<named, views, capsules, consumers, misled>>
               \/ framework = "none" /\ ~(copy /\ hd.self # "none") /\ ReturnCapsule(m, h, copy)
      /\ answer' = NoAnswer /\ UNCHANGED cpp

-----------------------------------------------------------------------------
(* Python and other frameworks *)

\* nb_ndarray_dealloc, after the NumPy array over it.
DropView(h) ==
  /\ ~misled /\ views[h] > 0
  /\ store' = ndarray_dec_ref(store, h) /\ views' = [views EXCEPT ![h] = @ - 1] /\ answer' = NoAnswer
  /\ UNCHANGED <<named, cpp, capsules, consumers, misled>>

\* ndarray_capsule_destructor, or the one of dlpack_from_buffer_protocol.
CapsuleDestructor(m, t) ==
  IF Managed(m, t) THEN ndarray_dec_ref(m, m.tensor[t].handle) ELSE Deleter(m, t)

DropCapsule(t) ==
  /\ ~misled /\ capsules[t] > 0
  /\ store' = CapsuleDestructor(store, t)
  /\ capsules' = [capsules EXCEPT ![t] = @ - 1] /\ answer' = NoAnswer
  /\ UNCHANGED <<named, cpp, views, consumers, misled>>

Consume(t) ==
  /\ ~misled /\ capsules[t] > 0
  /\ capsules' = [capsules EXCEPT ![t] = @ - 1] /\ consumers' = [consumers EXCEPT ![t] = @ + 1]
  /\ answer' = NoAnswer /\ UNCHANGED <<store, named, cpp, views, misled>>

ConsumerDone(t) ==
  /\ ~misled /\ consumers[t] > 0
  /\ store' = Deleter(store, t) /\ consumers' = [consumers EXCEPT ![t] = @ - 1] /\ answer' = NoAnswer
  /\ UNCHANGED <<named, cpp, views, capsules, misled>>

DropName(o) ==
  /\ ~misled /\ o \in named
  /\ store' = Unreferred(store, o) /\ named' = named \ {o} /\ answer' = NoAnswer
  /\ UNCHANGED <<cpp, views, capsules, consumers, misled>>

Frameworks == {"numpy", "other", "none"}
Policies   == {"automatic", "reference_internal", "copy", "reference", "none"}

NdNext ==
  \/ \E o \in Arrays, offer \in Offers : ImportArray(o, offer)
  \/ \E o \in Arrays : MakeCapsule(o)
  \/ \E t \in Tensors : ImportCapsule(t) \/ DropCapsule(t) \/ Consume(t) \/ ConsumerDone(t)
  \/ \E owner \in Owners \cup {"none"} : Create(owner)
  \/ \E h \in Handles : CopyArray(h) \/ DropArray(h) \/ DropView(h)
  \/ \E h \in {h \in Handles : cpp[h] > 0}, framework \in Frameworks, policy \in Policies,
        self \in (Selves \cap named) \cup {"none"} : Wrap(h, framework, policy, self)
  \/ \E o \in Objects : DropName(o)

NdSpec == NdInit /\ [][NdNext]_ndVars

-----------------------------------------------------------------------------
(* Properties *)

\* Whoever may still read the elements of an array finds its structures and its memory: the
\* handle and tensor of every ndarray and view, the tensor of every capsule and consumer, and
\* the object that owns the memory, until the last of them is gone in whatever order.
DataLives ==
  ~misled =>
    /\ \A h \in Handles : cpp[h] + views[h] > 0 => IsHandle(h) /\ IsTensor(store.handle[h].tensor)
    /\ \A t \in Tensors : capsules[t] + consumers[t] > 0 => IsTensor(t)
    /\ \A t \in Tensors : IsTensor(t) /\ Managed(store, t) => store.handle[store.tensor[t].handle].tensor = t
    /\ \A o \in named \cup {store.handle[h].owner : h \in Handles} \cup {store.handle[h].self : h \in Handles}
                \cup {store.tensor[t].holds : t \in Tensors} :
         o # "none" => store.refs[o] > 0

\* The users of a handle: for one that ndarray_create made also those of its tensor.
Users(h) ==
  LET t == store.handle[h].tensor
  IN  cpp[h] + views[h] +
      IF IsMaker(store, h)
      THEN capsules[t] + consumers[t] + Cardinality({k \in Handles \ {h} : store.handle[k].tensor = t})
      ELSE 0

\* Every structure and object is freed with the last user of the array: no handle, tensor or
\* reference to an object remains that nobody can reach any more.
NothingLeaks ==
  ~misled =>
    /\ \A h \in Handles : IsHandle(h) => Users(h) > 0
    /\ \A t \in Tensors : IsTensor(t) =>
         capsules[t] + consumers[t] > 0 \/ \E h \in Handles : store.handle[h].tensor = t
    /\ \A o \in Objects : store.refs[o] =
         (IF o \in named THEN 1 ELSE 0)
           + Cardinality({h \in Handles : store.handle[h].owner = o})
           + Cardinality({h \in Handles : store.handle[h].self = o})
           + Cardinality({t \in Tensors : store.tensor[t].holds = o})

\* An array's structures live as long as anyone reads it, and no longer (nb_ndarray.cpp:542).
ArraysShared == DataLives /\ NothingLeaks

\* Without a shape in the request the code counts one element, whatever the array has
\* (nb_ndarray.cpp:396), and so takes an array without strides for F order although it is in
\* C order (:425): the case that OrderExact excepts.
Mistaken(l, req) == l.strides = <<>> /\ req.shape = <<>> /\ req.order = "F"

\* An array accepted without conversion for a request that names an order has every element
\* where that order puts it, but for those Mistaken; and one with elements that gives its
\* strides is refused for its order only if some element is elsewhere.
OrderExact ==
  LET l == answer.offer.layout   req == answer.offer.req
  IN  answer.asked /\ req.order # "any" /\ PassShape(l, req) =>
    LET shape == l.shape
        Indices == {f \in [DOMAIN shape -> 0..2] : \A i \in DOMAIN shape : f[i] < shape[i]}
        Address(f, strides) == FoldSet(LAMBDA i, acc : acc + f[i] * strides[i], 0, DOMAIN shape)
        Given == IF l.strides = <<>> THEN CStrides(shape) ELSE l.strides
        Asked == IF req.order = "C" THEN CStrides(shape) ELSE FStrides(shape)
        same == \A f \in Indices : Address(f, Given) = Address(f, Asked)
    IN  /\ answer.order => same \/ Mistaken(l, req)
        /\ l.strides # <<>> /\ Indices # {} => (same => answer.order)
=============================================================================
