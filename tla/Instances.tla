----------------------------- MODULE Instances -----------------------------
(***************************************************************************)
(* The Python objects that nanobind makes of C++ objects (nb_type.cpp):    *)
(* construction from Python, the return value policies, unique and shared  *)
(* pointers that pass ownership across the border, the table from C++      *)
(* addresses to instances, keep_alive, and deallocation with what it sets  *)
(* off.  The interpreter's lock is held throughout, so a call is one step; *)
(* deallocation takes several, because destructors and callbacks run       *)
(* within it.                                                              *)
(***************************************************************************)
EXTENDS Naturals, Sequences, SequencesExt, FiniteSets

CONSTANTS
  Insts,          \* the nb_inst objects
  Addrs,          \* addresses of C++ objects, on the heap or within an nb_inst
  CppAddrs,       \* bound: of them, those where C++ makes objects of its own
  Made,           \* bound: the types of those
  Constructible,  \* types that have a constructor for Python
  MaxHeld,        \* bound: references that Python variables have to an instance
  MaxKept         \* bound: what an instance keeps when keep_alive adds to it

ASSUME InstsAssumption == IsFiniteSet(Insts) /\ Insts \cap (Addrs \cup {"raw", "shared"}) = {}

\* A Sub is a Part; the first member of a Whole is a Part, at the address of the Whole.
Types == {"Part", "Sub", "Whole"}

ASSUME PlacesAssumption == "none" \notin Addrs /\ Made \subseteq Types /\ Constructible \subseteq Types

PyType_IsSubtype(S, T) == S = T \/ (S = "Sub" /\ T = "Part")

VARIABLES
  inst,      \* the fields of each nb_inst
  refs,      \* Python's reference counts
  held,      \* of them, those of Python variables
  borrowed,  \* the C++ smart pointers that keep an instance: nb::deleter, py_deleter
  inflight,  \* the kind of unique_ptr a caster of the present call has taken an instance for
  inst_c2p,  \* the instances of each address, in the order of the table's list
  keep,      \* keep_alive: what an instance keeps, other instances and shares of C++ objects
  mem,       \* who has the memory at an address
  obj,       \* the C++ object that lives there
  own,       \* how C++ owns it
  shares,    \* shared_ptrs of the control block that C++ made
  frames,    \* the deallocations in progress, innermost last
  stopped    \* "no"; "aborted" by a check; "shadowed", see Shadowed; "doubled", see PutNone

instVars == <<inst, refs, held, borrowed, inflight, inst_c2p, keep, mem, obj, own, shares, frames, stopped>>

NoInst == [type |-> "none", ptr |-> "none", state |-> "none", internal |-> FALSE,
           destruct |-> FALSE, cpp_delete |-> FALSE]

Exists(i)  == inst[i] # NoInst
Free(i)    == ~Exists(i) /\ refs[i] = 0
Dying(i)   == \E k \in DOMAIN frames : frames[k].self = i
ReadyAt(a) == {i \in Insts : inst[i].ptr = a /\ inst[i].state = "ready" /\ ~Dying(i)}
UsedAt(a)  == ReadyAt(a) \cup {i \in Insts : inst[i].ptr = a /\ (inflight[i] # "no" \/ borrowed[i] # {})}

Owned(how) == {a \in Addrs : own[a] = how}

InstInit ==
  /\ inst = [i \in Insts |-> NoInst]
  /\ refs = [i \in Insts |-> 0] /\ held = [i \in Insts |-> 0]
  /\ borrowed = [i \in Insts |-> {}] /\ inflight = [i \in Insts |-> "no"]
  /\ inst_c2p = [a \in Addrs |-> <<>>]
  /\ keep = [i \in Insts |-> <<>>]
  /\ mem = [a \in Addrs |-> "free"] /\ obj = [a \in Addrs |-> "none"]
  /\ own = [a \in Addrs |-> "none"] /\ shares = [a \in Addrs |-> 0]
  /\ frames = <<>> /\ stopped = "no"

\* No deallocation is in progress, and no call that converts its arguments.
Converting == stopped = "no" /\ frames = <<>>
Running == Converting /\ \A i \in Insts : inflight[i] = "no"

\* C++ gives Python an object while an instance already stands at its address, for an
\* object that is gone or by a reference.  nb_type_put returns that instance, and the
\* object has no owner then: the model ends here.
Shadowed(a) == stopped' = IF inst_c2p[a] # <<>> THEN "shadowed" ELSE "no"

-----------------------------------------------------------------------------
(* References and deallocation *)

Destroyed(a, destroys, frees) ==
  /\ obj' = IF destroys THEN [obj EXCEPT ![a] = "none"] ELSE obj
  /\ mem' = IF frees THEN [mem EXCEPT ![a] = "free"] ELSE mem

\* inst_dealloc, as far as the tables: the destructor, operator delete, and what the
\* instance keeps is taken from the keep_alive table.
Dealloc(i, outer) ==
  /\ Destroyed(inst[i].ptr, inst[i].destruct, inst[i].cpp_delete)
  /\ frames' = Append(outer, [self |-> i, todo |-> keep[i]])
  /\ keep' = [keep EXCEPT ![i] = <<>>]

\* In the deallocations outer.
Py_DECREF(i, outer) ==
  /\ refs' = [refs EXCEPT ![i] = @ - 1]
  /\ IF refs[i] = 1 THEN Dealloc(i, outer) ELSE frames' = outer /\ UNCHANGED <<keep, obj, mem>>

\* A shared_ptr goes, and the object with the last one.
DropShare(a) ==
  /\ shares' = [shares EXCEPT ![a] = @ - 1]
  /\ Destroyed(a, shares[a] = 1, shares[a] = 1)

Top == Last(frames)

\* inst_dealloc gives up what the instance kept, one after the other.
Release ==
  /\ stopped = "no" /\ frames # <<>> /\ Top.todo # <<>>
  /\ LET kept  == Head(Top.todo)
         outer == [frames EXCEPT ![Len(frames)].todo = Tail(@)]
     IN  IF kept \in Insts
         THEN Py_DECREF(kept, outer) /\ UNCHANGED shares
         ELSE DropShare(kept) /\ frames' = outer /\ UNCHANGED <<refs, keep>>
  /\ UNCHANGED <<inst, held, borrowed, inflight, inst_c2p, own, stopped>>

\* Mutant: with several instances at the address, the first one goes.
UnlistedFirst(list, i) == Tail(list)

Unlisted(list, i) == RemoveFirst(list, i)

\* The end of inst_dealloc: the instance leaves the list of its address and is freed.
Unregister ==
  /\ stopped = "no" /\ frames # <<>> /\ Top.todo = <<>>
  /\ LET i == Top.self
         a == inst[i].ptr
     IN  /\ stopped' = IF Contains(inst_c2p[a], i) THEN "no" ELSE "aborted"
         /\ inst_c2p' = [inst_c2p EXCEPT ![a] = Unlisted(@, i)]
         /\ inst' = [inst EXCEPT ![i] = NoInst]
         /\ mem' = IF inst[i].internal THEN [mem EXCEPT ![a] = "free"] ELSE mem
  /\ frames' = Front(frames)
  /\ UNCHANGED <<refs, held, borrowed, inflight, keep, obj, own, shares>>

\* A Python variable goes.
Drop(i) ==
  /\ Running /\ held[i] > 0
  /\ held' = [held EXCEPT ![i] = @ - 1]
  /\ Py_DECREF(i, <<>>)
  /\ UNCHANGED <<inst, borrowed, inflight, inst_c2p, own, shares, stopped>>

-----------------------------------------------------------------------------
(* Construction from Python *)

GiveNew(i, a, fields) ==
  /\ inst' = [inst EXCEPT ![i] = fields]
  /\ inst_c2p' = [inst_c2p EXCEPT ![a] = Append(@, i)]
  /\ held' = [held EXCEPT ![i] = 1] /\ refs' = [refs EXCEPT ![i] = 1]

\* inst_new_int: an instance with the object in it, in memory that may have held an object
\* of C++ before.  The address must not be in the table.
inst_new_int(i, T, a, made) ==
  /\ Free(i) /\ mem[a] = "free"
  /\ IF inst_c2p[a] # <<>>
     THEN stopped' = "aborted" /\ UNCHANGED <<inst, refs, held, inst_c2p, mem, obj>>
     ELSE /\ GiveNew(i, a, [type |-> T, ptr |-> a, internal |-> TRUE,
                            state |-> IF made THEN "ready" ELSE "uninitialized",
                            destruct |-> made, cpp_delete |-> FALSE])
          /\ mem' = [mem EXCEPT ![a] = "python"]
          /\ obj' = IF made THEN [obj EXCEPT ![a] = T] ELSE obj
          /\ UNCHANGED stopped

\* nb_type_vectorcall with a constructor that succeeds, or __new__ alone.  (With one that
\* fails the instance is gone again.)
Construct(i, T, a, made) ==
  /\ Running
  /\ inst_new_int(i, T, a, made)
  /\ UNCHANGED <<borrowed, inflight, keep, own, shares, frames>>

\* __init__ called on an instance: nb_type_get accepts one that is not initialized.
InitInst(i) ==
  /\ Running /\ held[i] > 0 /\ inst[i].state = "uninitialized"
  /\ inst' = [inst EXCEPT ![i].state = "ready", ![i].destruct = TRUE]
  /\ obj' = [obj EXCEPT ![inst[i].ptr] = inst[i].type]
  /\ UNCHANGED <<refs, held, borrowed, inflight, inst_c2p, keep, mem, own, shares, frames, stopped>>

-----------------------------------------------------------------------------
(* C++ objects and what C++ does with them *)

\* C++ makes an object of its own, or one in a shared_ptr.
CppNew(a, T, how) ==
  /\ Running /\ mem[a] = "free"
  /\ mem' = [mem EXCEPT ![a] = "cpp"] /\ obj' = [obj EXCEPT ![a] = T]
  /\ own' = [own EXCEPT ![a] = how]
  /\ shares' = IF how = "shared" THEN [shares EXCEPT ![a] = 1] ELSE shares
  /\ UNCHANGED <<inst, refs, held, borrowed, inflight, inst_c2p, keep, frames, stopped>>

\* C++ deletes an object that it owns: never one that is still used through Python.
CppDelete(a) ==
  /\ Running /\ own[a] = "raw" /\ UsedAt(a) = {}
  /\ Destroyed(a, TRUE, TRUE)
  /\ own' = [own EXCEPT ![a] = "none"]
  /\ UNCHANGED <<inst, refs, held, borrowed, inflight, inst_c2p, keep, shares, frames, stopped>>

CppDropShared(a) ==
  /\ Running /\ own[a] = "shared"
  /\ own' = [own EXCEPT ![a] = "none"]
  /\ DropShare(a)
  /\ UNCHANGED <<inst, refs, held, borrowed, inflight, inst_c2p, keep, frames, stopped>>

\* C++ has a pointer to an S at a, of dynamic type D: to the object, to its base (with or
\* without virtual functions), or to the first member.
Points(a, S, D) ==
  \/ obj[a] = D /\ PyType_IsSubtype(D, S)
  \/ obj[a] \in {"Sub", "Whole"} /\ S = "Part" /\ D = "Part"

-----------------------------------------------------------------------------
(* C++ objects come to Python *)

\* The types that nb_type_put, where S = D, and nb_type_put_p accept in an instance.
Matches(i, S, D) == \E T \in {S, D} : PyType_IsSubtype(inst[i].type, T)

\* The place of the first instance of the address that matches, or 0: it is returned,
\* whatever the policy.
Known(a, S, D) == SelectInSeq(inst_c2p[a], LAMBDA i : Matches(i, S, D))

\* Mutant: the reference returned is the one that is already there.
HeldAgainUncounted(i) ==
  IF held[i] < MaxHeld
  THEN held' = [held EXCEPT ![i] = @ + 1] /\ UNCHANGED refs
  ELSE UNCHANGED <<held, refs>>

\* A reference for Python; beyond the bound it drops it at once.
HeldAgain(i) ==
  IF held[i] < MaxHeld
  THEN held' = [held EXCEPT ![i] = @ + 1] /\ refs' = [refs EXCEPT ![i] = @ + 1]
  ELSE UNCHANGED <<held, refs>>

Again(i) == HeldAgain(i) /\ UNCHANGED <<inst, inst_c2p>>

\* inst_new_ext and the end of nb_type_put_common.
inst_new_ext(i, a, T, destroys, deletes) ==
  /\ Free(i)
  /\ GiveNew(i, a, [type |-> T, ptr |-> a, internal |-> FALSE, state |-> "ready",
                    destruct |-> destroys, cpp_delete |-> deletes])

\* rv_policy::none without an instance that matches: the cast is refused when the address
\* has no entry at all; when it has, of another type, there is a new instance, which is to
\* destroy the object that C++ keeps.  The object has two owners: the model ends here.
PutNone(i, a, T) ==
  /\ inst_c2p[a] # <<>>
  /\ inst_new_ext(i, a, T, TRUE, FALSE) /\ stopped' = "doubled"

\* rv_policy::reference, and none: C++ keeps the object, and keeps it longer.
PutReference(i, a, S, D, rvp) ==
  /\ Running /\ own[a] = "raw" /\ Points(a, S, D)
  /\ IF Known(a, S, D) # 0
     THEN /\ i = inst_c2p[a][Known(a, S, D)] /\ Again(i)
          /\ stopped' = IF inst[i].state = "ready" THEN "no" ELSE "shadowed"
     ELSE \/ rvp = "reference" /\ inst_new_ext(i, a, D, FALSE, FALSE) /\ UNCHANGED stopped
          \/ rvp = "none" /\ PutNone(i, a, D)
  /\ UNCHANGED <<borrowed, inflight, keep, mem, obj, own, shares, frames>>

\* rv_policy::take_ownership.
PutOwnership(i, a) ==
  /\ Running /\ own[a] = "raw"
  /\ LET T == obj[a]
     IN  IF Known(a, T, T) # 0 THEN i = inst_c2p[a][Known(a, T, T)] /\ Again(i)
                                  ELSE inst_new_ext(i, a, T, TRUE, TRUE)
  /\ Shadowed(a)
  /\ own' = [own EXCEPT ![a] = "none"]
  /\ UNCHANGED <<borrowed, inflight, keep, mem, obj, shares, frames>>

\* Mutant: the field does not keep the object it is in.
KeptByFieldNone(self) == <<>>

KeptByField(self) == <<self>>

\* rv_policy::reference_internal, for the first member of self.
PutField(i, self) ==
  /\ Running /\ inst[self].state = "ready" /\ held[self] > 0 /\ inst[self].type = "Whole"
  /\ LET a == inst[self].ptr
     IN  IF Known(a, "Part", "Part") # 0
         THEN i = inst_c2p[a][Known(a, "Part", "Part")] /\ Again(i) /\ UNCHANGED keep
         ELSE /\ Free(i)
              /\ inst' = [inst EXCEPT ![i] = [type |-> "Part", ptr |-> a, internal |-> FALSE,
                            state |-> "ready", destruct |-> FALSE, cpp_delete |-> FALSE]]
              /\ inst_c2p' = [inst_c2p EXCEPT ![a] = Append(@, i)]
              /\ keep' = [keep EXCEPT ![i] = KeptByField(self)]
              /\ held' = [held EXCEPT ![i] = 1]
              /\ refs' = [refs EXCEPT ![i] = 1, ![self] = @ + Len(KeptByField(self))]
  /\ UNCHANGED <<borrowed, inflight, mem, obj, own, shares, frames, stopped>>

\* rv_policy::copy, and move for an object that no instance has.
PutCopy(i, a, b, T) ==
  /\ Running /\ own[a] = "raw" /\ Points(a, T, T)
  /\ inst_new_int(i, T, b, TRUE)
  /\ UNCHANGED <<borrowed, inflight, keep, own, shares, frames>>

\* keep_alive for instances of nanobind: one entry for each patient.
KeepAlive(nurse, patient) ==
  /\ Running /\ held[nurse] > 0 /\ held[patient] > 0
  /\ ~Contains(keep[nurse], patient) /\ Len(keep[nurse]) < MaxKept
  /\ keep' = [keep EXCEPT ![nurse] = Append(@, patient)]
  /\ refs' = [refs EXCEPT ![patient] = @ + 1]
  /\ UNCHANGED <<inst, held, borrowed, inflight, inst_c2p, mem, obj, own, shares, frames, stopped>>

-----------------------------------------------------------------------------
(* unique_ptr *)

\* A unique_ptr with the default deleter takes only what operator delete may free.
MayGive(i, kind) == kind = "default" => inst[i].cpp_delete /\ inst[i].destruct /\ ~inst[i].internal

\* The caster's can_cast, after nb_type_get: nb_type_relinquish_ownership.
Relinquish(i, kind) ==
  /\ Converting /\ held[i] > 0 /\ inst[i].state = "ready" /\ MayGive(i, kind)
  /\ inst' = [inst EXCEPT ![i].state = "relinquished",
                          ![i].destruct = kind # "default" /\ @,
                          ![i].cpp_delete = kind # "default" /\ @]
  /\ inflight' = [inflight EXCEPT ![i] = kind]
  /\ UNCHANGED <<refs, held, borrowed, inst_c2p, keep, mem, obj, own, shares, frames, stopped>>

\* Mutant: the instance can be used again, but owns nothing.
RestoredFlagsNone(i) == FALSE

RestoredFlags(i) == inflight[i] = "default"

\* The caster's destructor, when another argument has failed: nb_type_restore_ownership.
Restore(i) ==
  /\ Converting /\ inflight[i] # "no"
  /\ inst' = [inst EXCEPT ![i].state = "ready",
                          ![i].destruct = @ \/ RestoredFlags(i),
                          ![i].cpp_delete = @ \/ RestoredFlags(i)]
  /\ inflight' = [inflight EXCEPT ![i] = "no"]
  /\ UNCHANGED <<refs, held, borrowed, inst_c2p, keep, mem, obj, own, shares, frames, stopped>>

\* The caster's conversion: C++ has the unique_ptr.
TakeOver(i) ==
  /\ Converting /\ inflight[i] # "no"
  /\ inflight' = [inflight EXCEPT ![i] = "no"]
  /\ IF inflight[i] = "default"
     THEN own' = [own EXCEPT ![inst[i].ptr] = "raw"] /\ UNCHANGED <<refs, borrowed>>
     ELSE /\ borrowed' = [borrowed EXCEPT ![i] = @ \cup {"deleter"}]
          /\ refs' = [refs EXCEPT ![i] = @ + 1]
          /\ UNCHANGED own
  /\ UNCHANGED <<inst, held, inst_c2p, keep, mem, obj, shares, frames, stopped>>

\* Mutant: an instance that was given away is expected to have its flags still.
InUseFlagsSet(i) == inst[i].state # "relinquished" \/ ~(inst[i].destruct /\ inst[i].cpp_delete)

InUse(i) == inst[i].state # "relinquished" \/ inst[i].destruct \/ inst[i].cpp_delete

\* nb_type_put_unique of an object that C++ owns.  A registered instance has to be one that
\* was relinquished to a unique_ptr.
PutUnique(i, a) ==
  /\ Running /\ own[a] = "raw"
  /\ LET T == obj[a]
     IN  IF Known(a, T, T) # 0
         THEN /\ i = inst_c2p[a][Known(a, T, T)] /\ HeldAgain(i)
              /\ UNCHANGED inst_c2p
              /\ IF InUse(i)
                 THEN stopped' = "aborted" /\ UNCHANGED <<inst, own>>
                 ELSE /\ stopped' = IF inst[i].type # T \/ UsedAt(a) # {} THEN "shadowed" ELSE "no"
                      /\ inst' = [inst EXCEPT ![i].state = "ready", ![i].destruct = TRUE,
                                              ![i].cpp_delete = TRUE]
                      /\ own' = [own EXCEPT ![a] = "none"]
         ELSE inst_new_ext(i, a, T, TRUE, TRUE) /\ Shadowed(a) /\ own' = [own EXCEPT ![a] = "none"]
  /\ UNCHANGED <<borrowed, inflight, keep, mem, obj, shares, frames>>

\* nb_type_put_unique of an object that Python owns: the policy is none, so there must be
\* an instance.  The deleter then gives up its reference.
PutDeleter(i, j) ==
  /\ Running /\ "deleter" \in borrowed[i]
  /\ LET T == inst[i].type
         more == IF held[j] < MaxHeld THEN 1 ELSE 0
     IN  /\ j = inst_c2p[inst[i].ptr][Known(inst[i].ptr, T, T)]
         /\ held' = [held EXCEPT ![j] = @ + more]
         /\ refs' = [refs EXCEPT ![j] = @ + more, ![i] = @ - 1]
  /\ IF refs'[i] = 0 THEN Dealloc(i, <<>>) ELSE UNCHANGED <<frames, keep, obj, mem>>
  /\ stopped' = IF inst[j].state = "relinquished" THEN "no" ELSE "aborted"
  /\ inst' = [inst EXCEPT ![j].state = "ready"]
  /\ borrowed' = [borrowed EXCEPT ![i] = @ \ {"deleter"}]
  /\ UNCHANGED <<inflight, inst_c2p, own, shares>>

-----------------------------------------------------------------------------
(* shared_ptr *)

\* Python's object in a shared_ptr of its own, which holds a reference to the instance.
SharedFromPython(i) ==
  /\ Running /\ held[i] > 0 /\ inst[i].state = "ready" /\ "shared" \notin borrowed[i]
  /\ borrowed' = [borrowed EXCEPT ![i] = @ \cup {"shared"}]
  /\ refs' = [refs EXCEPT ![i] = @ + 1]
  /\ UNCHANGED <<inst, held, inflight, inst_c2p, keep, mem, obj, own, shares, frames, stopped>>

\* A deleter or py_deleter runs in C++.
DropBorrowed(i, how) ==
  /\ Running /\ how \in borrowed[i]
  /\ borrowed' = [borrowed EXCEPT ![i] = @ \ {how}]
  /\ Py_DECREF(i, <<>>)
  /\ UNCHANGED <<inst, held, inflight, inst_c2p, own, shares, stopped>>

\* keep_alive for a share: the newest entry comes first.
KeptShare(i, a) == <<a>> \o keep[i]

\* C++'s shared_ptr: a new instance refers to the object and keeps a share of it.
PutShared(i, a, S, D) ==
  /\ Running /\ own[a] = "shared" /\ Points(a, S, D)
  /\ IF Known(a, S, D) # 0
     THEN /\ i = inst_c2p[a][Known(a, S, D)] /\ Again(i) /\ UNCHANGED <<keep, shares>>
          /\ stopped' = IF inst[i].state = "ready" THEN "no" ELSE "shadowed"
     ELSE /\ inst_new_ext(i, a, D, FALSE, FALSE)
          /\ keep' = [keep EXCEPT ![i] = KeptShare(i, a)]
          /\ shares' = [shares EXCEPT ![a] = @ + 1]
          /\ UNCHANGED stopped
  /\ UNCHANGED <<borrowed, inflight, mem, obj, own, frames>>

-----------------------------------------------------------------------------
(* A destructor that runs in a deallocation makes an object and returns it to Python, by
   take_ownership.  The instance that is being deallocated is still in the table. *)
Reenter(i, a, T) ==
  /\ stopped = "no" /\ frames # <<>> /\ mem[a] = "free"
  /\ mem' = [mem EXCEPT ![a] = "cpp"] /\ obj' = [obj EXCEPT ![a] = T]
  /\ IF Known(a, T, T) # 0 THEN i = inst_c2p[a][Known(a, T, T)] /\ Again(i)
                              ELSE inst_new_ext(i, a, T, TRUE, TRUE)
  /\ Shadowed(a)
  /\ UNCHANGED <<borrowed, inflight, keep, own, shares, frames>>

InstNext ==
  \/ Release \/ Unregister
  \/ \E i \in Insts :
       \/ Drop(i) \/ InitInst(i) \/ Restore(i) \/ TakeOver(i) \/ SharedFromPython(i)
       \/ \E how \in {"deleter", "shared"} : DropBorrowed(i, how)
       \/ \E kind \in {"default", "deleter"} : Relinquish(i, kind)
       \/ \E j \in Insts : PutField(i, j) \/ KeepAlive(i, j) \/ PutDeleter(i, j)
       \/ \E a \in Addrs, T \in Constructible, made \in BOOLEAN : Construct(i, T, a, made)
       \/ \E a \in Addrs, T \in Made : Reenter(i, a, T)
       \/ \E a \in Owned("raw") :
            \/ PutOwnership(i, a) \/ PutUnique(i, a)
            \/ \E b \in Addrs, T \in Types : PutCopy(i, a, b, T)
            \/ \E S, D \in Types, rvp \in {"reference", "none"} : PutReference(i, a, S, D, rvp)
       \/ \E a \in Owned("shared"), S, D \in Types : PutShared(i, a, S, D)
  \/ \E a \in Addrs :
       \/ CppDelete(a) \/ CppDropShared(a)
       \/ a \in CppAddrs /\ \E T \in Made, how \in {"raw", "shared"} : CppNew(a, T, how)

InstSpec == InstInit /\ [][InstNext]_instVars

-----------------------------------------------------------------------------
(* Properties *)

\* The table lists, for every address, exactly the instances that refer to it, each once.
\* (nb_type.cpp: a missing entry makes a second owner, a stale one a dangling pointer.)
TableExact ==
  stopped = "no" => \A a \in Addrs :
    /\ ToSet(inst_c2p[a]) = {i \in Insts : inst[i].ptr = a}
    /\ IsInjective(inst_c2p[a])

\* Who will destroy what lives at a: C++ by a pointer or by shares, an instance, or the
\* unique_ptr that a caster makes of one.
OwnersOf(a) ==
  {i \in Insts : inst[i].ptr = a /\ inst[i].destruct /\ ~Dying(i)}
    \cup {i \in Insts : inst[i].ptr = a /\ inflight[i] = "default"}
    \cup (IF own[a] = "raw" THEN {"raw"} ELSE {})
    \cup (IF shares[a] > 0 THEN {"shared"} ELSE {})

\* What lives has one owner, and what is gone has none.  No sequence of policies, pointers
\* that come and go and failed calls leaks an object or destroys one twice.
OwnedOnce ==
  stopped = "no" => \A a \in Addrs :
    IF obj[a] = "none" THEN OwnersOf(a) = {} ELSE Cardinality(OwnersOf(a)) = 1

\* Also where the model ends no object has a second owner, but for the one that
\* rv_policy::none gives it.
TwiceByNoneOnly == \A a \in Addrs : Cardinality(OwnersOf(a)) > 1 => stopped = "doubled"

\* An instance that calls accept is a live object of its type: what it refers to cannot be
\* destroyed while Python has it, whatever is deallocated in which order.
ReadyIsLive ==
  stopped = "no" => \A a \in Addrs : \A i \in ReadyAt(a) :
    \/ PyType_IsSubtype(obj[a], inst[i].type)
    \/ obj[a] = "Whole" /\ inst[i].type = "Part"

\* Where x is in sequences, and in those that the deallocations have to give up.
Places(s, x) == {k \in DOMAIN s : s[k] = x}
Entries(seqs, x) == UNION {{j} \X Places(seqs[j], x) : j \in DOMAIN seqs}
Todo == [f \in DOMAIN frames |-> frames[f].todo]

\* Every reference is counted, and an instance is there as long as someone has it: Python,
\* smart pointers of C++, and the instances that keep it.
RefsExact ==
  stopped = "no" => \A i \in Insts :
    /\ refs[i] = held[i] + Cardinality(borrowed[i])
                 + Cardinality(Entries(keep, i)) + Cardinality(Entries(Todo, i))
    /\ (refs[i] > 0 \/ Dying(i)) <=> Exists(i)
    /\ Dying(i) => refs[i] = 0

\* The checks of the ownership code only fail where an instance stands for an object that
\* C++ took and deleted, or refers to one that C++ gives away.
AbortsOnlyOnStale ==
  stopped = "aborted" => \E a \in Addrs :
    \/ mem[a] = "free" /\ \E i \in Insts : inst[i].ptr = a /\ inst[i].state = "relinquished"
    \/ own[a] = "raw" /\ UsedAt(a) # {}

\* Until the process stands at one of the ends that stopped names, an object has one owner
\* whatever passes between C++ and Python, and its instances are listed under its address,
\* counted, and refer to it while it lives (nb_type.cpp, inst_c2p).  A second owner comes
\* from rv_policy::none alone, and the checks fail only on stale instances.
InstancesOwned ==
  /\ TableExact /\ OwnedOnce /\ TwiceByNoneOnly /\ ReadyIsLive /\ RefsExact /\ AbortsOnlyOnStale

\* rv_policy::none "simply refuses the cast unless the C++ instance already has a
\* corresponding Python object, in which case the question of ownership becomes moot"
\* (docs/ownership.rst:216): no policy gives an object a second owner.
NoneRefuses == \A a \in Addrs : Cardinality(OwnersOf(a)) <= 1
=============================================================================
