---------------------------- MODULE ClassesProofs ----------------------------
(***************************************************************************)
(* The parts of classes, each for any instances, names, types and threads: *)
(* OverridesCalled of Trampoline, DestroyedOnce of Lowlevel and            *)
(* TypesRegistered of Types.  And ErrorsArrive of Errors, for any          *)
(* exceptions, python_error objects and translators.                       *)
(***************************************************************************)
EXTENDS Trampoline, Lowlevel, Types, Errors, NaturalFacts, SequenceTheorems, FiniteSetTheorems, TLAPS

-----------------------------------------------------------------------------
(* Trampolines: what the slots of an object tell about its class decides what a call does. *)

CacheValues == Functions \cup {"None", "null"}
CacheSlots  == [name : Functions \cup {"none"}, value : CacheValues]
Tickets == [step : {"in"}, self : Objs, key : Functions]
Sweeps  == [step : {"name", "value"}, self : Objs, name : Functions, slot : 1 .. Size]
Founds  == [step : {"swept"}, self : Objs, name : Functions, key : Functions]
Asks    == [step : {"ensure"}, self : Objs, name : Functions]
Lookups == [step : {"lookup", "store"}, self : Objs, name : Functions, slot : 1 .. Size]
Pending == {NoCall} \cup Sweeps \cup Founds \cup Asks \cup Lookups
Made    == [step : {"override", "base", "error", "no slots", "failed"}, self : Objs,
            name : Functions, key : Functions \cup {"None"}, locked : BOOLEAN,
            from : {NoCall} \cup Tickets]

TypeOK ==
  /\ data \in [Objs -> [1 .. Size -> CacheSlots]]
  /\ call \in [Threads -> Pending]
  /\ tickets \in [Threads -> Seq(Tickets)]
  /\ gil \in Threads \cup {NoThread}
  /\ held \in [Threads -> Nat]
  /\ outcome \in [Threads -> {NoCall} \cup Made]
  /\ overlapped \in SUBSET Objs

\* A slot is free, or tells of its function whether Python overrides it, and is not of one
\* that neither Python nor C++ defines.
Tells(x, s) ==
  \/ s = Empty
  \/ /\ s.name \in Functions
     /\ s.value = (IF s.name \in Overridden[x] THEN s.name ELSE "None")
     /\ s.name \notin Overridden[x] => s.name \notin Pure

\* Call c has written the name to slot n of x and not yet the value.
Writes(c, x, n) == c.step = "store" /\ c.self = x /\ c.slot = n

Cached ==
  \A x \in Objs, n \in 1 .. Size : Tells(x, data[x][n]) \/ \E t \in Threads : Writes(call[t], x, n)

\* Call c of thread t agrees with the lock g, the slots d and the objects v of which lookups
\* have overlapped.  One that writes a slot has the lock.  For an object that is not of v the
\* slot had no value, the slot of which a name was read keeps it, and the key that was read
\* is that of the function.
Agrees(c, t, g, d, v) ==
  /\ c.step = "store" =>
       /\ g = t
       /\ d[c.self][c.slot].name = c.name
       /\ c.name \notin Overridden[c.self] => c.name \notin Pure
       /\ c.self \notin v => d[c.self][c.slot].value = "null"
  /\ c.step = "value" /\ c.self \notin v => d[c.self][c.slot].name = c.name
  /\ c.step = "swept" /\ c.self \notin v => c.key = c.name /\ c.name \in Overridden[c.self]

Told == \A t \in Threads : Agrees(call[t], t, gil, data, overlapped)

\* No two slots of a row are of one function.
Single(row) == \A m, n \in 1 .. Size : row[m] # Empty /\ row[m].name = row[n].name => m = n

\* What call c looks up is in no slot of the row d yet, and the slot it is for is free.
Awaited(c, row) ==
  c.step = "lookup" => row[c.slot] = Empty /\ \A n \in 1 .. Size : row[n].name # c.name

LooksAt(c, x) == c \in Lookups /\ c.self = x

\* Unless lookups overlapped for the object, no two of its slots are of one function and only
\* one of its functions is being looked up.
Apart ==
  \A x \in Objs \ overlapped :
    /\ Single(data[x])
    /\ \A t, u \in Threads : LooksAt(call[t], x) /\ LooksAt(call[u], x) => t = u
    /\ \A t \in Threads : LooksAt(call[t], x) => Awaited(call[t], data[x])

\* Where the call of outcome o goes to, the objects v being those of which lookups overlapped.
Arrives(o, v) ==
  \/ GoesWhereDue(o)
  \/ o.step = "failed" /\ o.locked
  \/ o.step = "no slots" /\ o.self \in v
  \/ ~o.locked /\ o.self \in v

IInv == TypeOK /\ LockBalanced /\ CallsArrive /\ Cached /\ Told /\ Apart

-----------------------------------------------------------------------------
(* What the operators of the model give *)

\* The step of a call tells which call it is.
LEMMA PendingKinds ==
  ASSUME NEW c \in Pending
  PROVE  /\ c.step \in {"lookup", "store"} <=> c \in Lookups
         /\ c.step \in {"name", "value"} <=> c \in Sweeps
         /\ c.step = "swept" <=> c \in Founds
         /\ c.step = "ensure" <=> c \in Asks
         /\ c = NoCall <=> c.step = "none"
         /\ c # NoCall => c.self \in Objs /\ c.name \in Functions
         /\ c.step \in {"none", "name", "value", "swept", "ensure", "lookup", "store"}
<1>1. NoCall.step = "none"
  BY DEF NoCall
<1>2. CASE c = NoCall
  BY <1>1, <1>2 DEF Sweeps, Founds, Asks, Lookups
<1>3. CASE c \in Sweeps
  <2>1. c.step \in {"name", "value"} /\ c.self \in Objs /\ c.name \in Functions
    BY <1>3 DEF Sweeps
  <2> QED BY <1>1, <1>3, <2>1 DEF Founds, Asks, Lookups
<1>4. CASE c \in Founds
  <2>1. c.step = "swept" /\ c.self \in Objs /\ c.name \in Functions
    BY <1>4 DEF Founds
  <2> QED BY <1>1, <1>4, <2>1 DEF Sweeps, Asks, Lookups
<1>5. CASE c \in Asks
  <2>1. c.step = "ensure" /\ c.self \in Objs /\ c.name \in Functions
    BY <1>5 DEF Asks
  <2> QED BY <1>1, <1>5, <2>1 DEF Sweeps, Founds, Lookups
<1>6. CASE c \in Lookups
  <2>1. c.step \in {"lookup", "store"} /\ c.self \in Objs /\ c.name \in Functions
    BY <1>6 DEF Lookups
  <2> QED BY <1>1, <1>6, <2>1 DEF Sweeps, Founds, Asks
<1> QED BY <1>2, <1>3, <1>4, <1>5, <1>6 DEF Pending

\* The least of some slots is one of them.
LEMMA MinIsOne ==
  ASSUME NEW S \in SUBSET (1 .. Size), S # {}
  PROVE  Min(S) \in S
<1>1. S \in SUBSET Nat
  BY SlotsAssumption
<1>2. \E x \in S : \A y \in S : x <= y
  BY <1>1, LeastNumber
<1> QED BY <1>2 DEF Min

\* The override a thread is in, if it is in one, is told from none.
LEMMA InnermostIsTicket ==
  ASSUME TypeOK, NEW th \in Threads
  PROVE  /\ tickets[th] = <<>> => Innermost(th) = NoCall
         /\ tickets[th] # <<>> => Innermost(th) \in Tickets /\ Innermost(th) # NoCall
         /\ Innermost(th) \in {NoCall} \cup Tickets
<1>1. CASE tickets[th] = <<>>
  BY <1>1 DEF Innermost
<1>2. CASE tickets[th] # <<>>
  <2>1. Innermost(th) = tickets[th][Len(tickets[th])]
    BY <1>2 DEF Innermost, Last
  <2>2. tickets[th] \in Seq(Tickets)
    BY DEF TypeOK
  <2>3. Innermost(th) \in Tickets
    BY <1>2, <2>1, <2>2
  <2>4. Innermost(th).step = "in"
    BY <2>3 DEF Tickets
  <2> QED BY <1>2, <2>3, <2>4 DEF NoCall
<1> QED BY <1>1, <1>2

\* A thread that may take the lock, and is not writing a slot, finds no other that is.
LEMMA NobodyWrites ==
  ASSUME IInv, NEW th \in Threads, gil \in {NoThread, th}, call[th].step # "store"
  PROVE  \A u \in Threads : call[u].step # "store"
<1> SUFFICES ASSUME NEW u \in Threads, call[u].step = "store" PROVE FALSE
  OBVIOUS
<1>1. gil = u
  BY DEF IInv, Told, Agrees
<1> QED BY <1>1, ThreadsAssumption DEF NoThread

\* With the lock, a slot of the function that is called says what Python defines.
LEMMA HitTells ==
  ASSUME IInv, NEW th \in Threads, call[th] # NoCall, Hits(th) # {},
         \A u \in Threads : call[u].step # "store"
  PROVE  /\ Hit(th) \in Functions \cup {"None"}
         /\ Hit(th) = "None" <=> call[th].name \notin Overridden[call[th].self]
         /\ Hit(th) # "None" => Hit(th) = call[th].name
<1> DEFINE x == call[th].self
           n == Min(Hits(th))
<1>1. x \in Objs /\ call[th].name \in Functions
  BY PendingKinds DEF IInv, TypeOK
<1>2. n \in 1 .. Size /\ data[x][n].name = call[th].name
  <2>1. Hits(th) \in SUBSET (1 .. Size)
    BY DEF Hits
  <2>2. n \in Hits(th)
    BY <2>1, MinIsOne
  <2> QED BY <2>2 DEF Hits
<1>3. data[x][n] # Empty
  BY <1>1, <1>2, NamesAssumption DEF Empty
<1>4. Tells(x, data[x][n])
  BY <1>1, <1>2 DEF IInv, Cached, Writes
<1>5. data[x][n].value = (IF call[th].name \in Overridden[x] THEN call[th].name ELSE "None")
  BY <1>2, <1>3, <1>4 DEF Tells
<1> QED BY <1>1, <1>5, NamesAssumption DEF Hit

-----------------------------------------------------------------------------
(* What a step does to the thread that takes it *)

\* The thread's call is decided, as outcome o; it is in the overrides t, and has the lock
\* k times.
Concludes(th, t, k, o) ==
  /\ call' = [call EXCEPT ![th] = NoCall]
  /\ tickets' = [tickets EXCEPT ![th] = t]
  /\ held' = [held EXCEPT ![th] = k]
  /\ outcome' = [outcome EXCEPT ![th] = o]
  /\ gil' \in {gil, th, NoThread} /\ (gil' = th => k > 0)
  /\ k = Len(t)
  /\ Arrives(o, overlapped)

\* A call that goes to the base is decided, rightly where Python has no override of the
\* function or where this override has called.
LEMMA BaseConcludes ==
  ASSUME IInv, NEW th \in Threads, call[th] # NoCall, NEW locked \in BOOLEAN,
         \/ call[th].name \notin Overridden[call[th].self]
         \/ IsSuper(th, call[th].name)
         \/ ~locked /\ call[th].self \in overlapped,
         ToBase(th, locked), UNCHANGED tickets,
         held' = [held EXCEPT ![th] = Len(tickets[th])],
         gil' \in {gil, th, NoThread} /\ (gil' = th => Len(tickets[th]) > 0)
  PROVE  \E o \in Made : Concludes(th, tickets[th], Len(tickets[th]), o)
<1> DEFINE o == [step |-> IF call[th].name \in Pure THEN "error" ELSE "base",
                 self |-> call[th].self, name |-> call[th].name, key |-> "None",
                 locked |-> locked, from |-> Innermost(th)]
<1>1. call[th].self \in Objs /\ call[th].name \in Functions
  BY PendingKinds DEF IInv, TypeOK
<1>2. Innermost(th) \in {NoCall} \cup Tickets
  BY InnermostIsTicket DEF IInv
<1>3. o \in Made
  BY <1>1, <1>2 DEF Made
<1>4. Arrives(o, overlapped)
  <2>1. \/ o.name \notin Overridden[o.self]
        \/ o.from # NoCall /\ o.from.self = o.self /\ o.from.key = o.name
        \/ ~o.locked /\ o.self \in overlapped
    BY InnermostIsTicket DEF IsSuper, IInv
  <2>2. o.step = (IF o.name \in Pure THEN "error" ELSE "base")
    OBVIOUS
  <2> HIDE DEF o
  <2> QED BY <2>1, <2>2 DEF Arrives, GoesWhereDue
<1>5. /\ call' = [call EXCEPT ![th] = NoCall]
      /\ outcome' = [outcome EXCEPT ![th] = o]
      /\ tickets' = [tickets EXCEPT ![th] = tickets[th]]
  BY DEF ToBase, Ends, IInv, TypeOK
<1> HIDE DEF o
<1>6. Concludes(th, tickets[th], Len(tickets[th]), o)
  BY <1>4, <1>5 DEF Concludes
<1> QED BY <1>3, <1>6

\* The lock is given back once, and let go when that was the last time.
LEMMA ReleasedOnce ==
  ASSUME IInv, NEW th \in Threads, NEW k \in Nat, NEW h, h = [held EXCEPT ![th] = k],
         ReleasedTo(h, th)
  PROVE  held' = h /\ gil' \in {gil, th, NoThread} /\ (gil' = th => k > 0)
<1>1. h[th] = k
  BY DEF IInv, TypeOK
<1>2. held' = h /\ gil' = (IF k = 0 THEN NoThread ELSE th)
  BY <1>1 DEF ReleasedTo
<1>3. th # NoThread
  BY ThreadsAssumption DEF NoThread
<1> QED BY <1>2, <1>3

\* Once an override is found, with the lock taken, the call is decided.
LEMMA EnterConcludes ==
  ASSUME IInv, NEW th \in Threads, call[th] # NoCall, NEW locked \in BOOLEAN, NEW key \in Functions,
         \/ key = call[th].name /\ call[th].name \in Overridden[call[th].self]
         \/ ~locked /\ call[th].self \in overlapped,
         NEW h, h = [held EXCEPT ![th] = Len(tickets[th]) + 1],
         Enter(th, h, key, locked)
  PROVE  \E t \in Seq(Tickets), k \in Nat, o \in Made : Concludes(th, t, k, o)
<1> DEFINE k == Len(tickets[th])
<1>0. tickets[th] \in Seq(Tickets) /\ k \in Nat /\ held \in [Threads -> Nat]
  BY DEF IInv, TypeOK
<1>1. CASE IsSuper(th, key)
  <2>1. ReleasedTo([h EXCEPT ![th] = @ - 1], th) /\ ToBase(th, locked) /\ UNCHANGED tickets
    BY <1>1 DEF Enter
  <2>2. [h EXCEPT ![th] = @ - 1] = [held EXCEPT ![th] = k]
    BY <1>0
  <2>3. held' = [held EXCEPT ![th] = k] /\ gil' \in {gil, th, NoThread} /\ (gil' = th => k > 0)
    BY <1>0, <2>1, <2>2, ReleasedOnce
  <2>4. \E o \in Made : Concludes(th, tickets[th], k, o)
    BY <1>1, <2>1, <2>3, BaseConcludes
  <2> QED BY <1>0, <2>4
<1>2. CASE ~IsSuper(th, key)
  <2> DEFINE o == [step |-> "override", self |-> call[th].self, name |-> call[th].name,
                   key |-> key, locked |-> locked, from |-> Innermost(th)]
             e == [step |-> "in", self |-> call[th].self, key |-> key]
             t == Append(tickets[th], e)
  <2>1. call[th].self \in Objs /\ call[th].name \in Functions
    BY PendingKinds DEF IInv, TypeOK
  <2>2. Innermost(th) \in {NoCall} \cup Tickets
    BY InnermostIsTicket DEF IInv
  <2>3. o \in Made /\ e \in Tickets
    BY <2>1, <2>2 DEF Made, Tickets
  <2>4. t \in Seq(Tickets) /\ Len(t) = k + 1
    BY <1>0, <2>3
  <2>5. Arrives(o, overlapped)
    <3>1. \/ /\ o.name \in Overridden[o.self] /\ o.key = o.name
             /\ ~(o.from # NoCall /\ o.from.self = o.self /\ o.from.key = o.name)
          \/ ~o.locked /\ o.self \in overlapped
      BY <1>2, InnermostIsTicket DEF IsSuper, IInv
    <3>2. o.step = "override"
      OBVIOUS
    <3> HIDE DEF o
    <3> QED BY <3>1, <3>2 DEF Arrives, GoesWhereDue
  <2>6. /\ gil' = th /\ held' = [held EXCEPT ![th] = k + 1]
        /\ outcome' = [outcome EXCEPT ![th] = o]
        /\ tickets' = [tickets EXCEPT ![th] = t]
        /\ call' = [call EXCEPT ![th] = NoCall]
    BY <1>2 DEF Enter, Ends
  <2>7. k + 1 \in Nat /\ k + 1 > 0
    BY <1>0
  <2> HIDE DEF o, t, k
  <2>8. Concludes(th, t, k + 1, o)
    BY <2>4, <2>5, <2>6, <2>7 DEF Concludes
  <2> QED BY <2>3, <2>4, <2>7, <2>8
<1> QED BY <1>1, <1>2

-----------------------------------------------------------------------------
(* A step changes one thread *)

Holding(c) == IF c.step \in {"lookup", "store"} THEN 1 ELSE 0

\* The other threads' calls and overrides are as they were, so the invariant holds of all
\* when it holds of the thread that took the step, and of the slots.
LEMMA OneChanges ==
  ASSUME IInv, NEW th \in Threads, NEW c \in Pending, NEW t \in Seq(Tickets), NEW k \in Nat,
         NEW o \in {NoCall} \cup Made,
         call' = [call EXCEPT ![th] = c],
         tickets' = [tickets EXCEPT ![th] = t],
         held' = [held EXCEPT ![th] = k],
         outcome' = [outcome EXCEPT ![th] = o],
         gil' \in {gil, th, NoThread}, gil' = th => k > 0,
         k = Len(t) + Holding(c),
         overlapped' \in SUBSET Objs, overlapped \subseteq overlapped',
         o # NoCall => Arrives(o, overlapped'),
         data' \in [Objs -> [1 .. Size -> CacheSlots]], Cached', Told', Apart'
  PROVE  IInv'
<1>1. TypeOK'
  <2>1. gil' \in Threads \cup {NoThread}
    BY DEF IInv, TypeOK
  <2>2. /\ call' \in [Threads -> Pending]
        /\ tickets' \in [Threads -> Seq(Tickets)]
        /\ held' \in [Threads -> Nat]
        /\ outcome' \in [Threads -> {NoCall} \cup Made]
    BY Zenon DEF IInv, TypeOK
  <2> QED BY <2>1, <2>2 DEF TypeOK
<1>2. /\ call'[th] = c /\ tickets'[th] = t /\ held'[th] = k /\ outcome'[th] = o
      /\ \A u \in Threads \ {th} :
           /\ call'[u] = call[u] /\ tickets'[u] = tickets[u]
           /\ held'[u] = held[u] /\ outcome'[u] = outcome[u]
  BY Zenon DEF IInv, TypeOK
<1>3. LockBalanced'
  <2>1. ASSUME NEW u \in Threads
        PROVE  held'[u] = Len(tickets'[u]) + Holding(call'[u])
    <3>1. CASE u = th
      BY <3>1, <1>2, Zenon
    <3>2. CASE u # th
      <4>1. held[u] = Len(tickets[u]) + Holding(call[u])
        BY Zenon DEF IInv, LockBalanced, Holding
      <4> QED BY <3>2, <4>1, <1>2, Zenon
    <3> QED BY <3>1, <3>2
  <2>2. gil' # NoThread => held'[gil'] > 0
    <3>1. CASE gil' = th
      BY <3>1, <1>2
    <3>2. CASE gil' = gil /\ gil # th /\ gil # NoThread
      BY <3>2, <1>2 DEF IInv, TypeOK, LockBalanced
    <3> QED BY <3>1, <3>2
  <2> QED BY <2>1, <2>2, Zenon DEF LockBalanced, Holding
<1>4. CallsArrive'
  <2>1. ASSUME NEW u \in Threads, outcome'[u] # NoCall
        PROVE  Arrives(outcome'[u], overlapped')
    <3>1. CASE u = th
      BY <3>1, <2>1, <1>2, Zenon
    <3>2. CASE u # th
      <4>1. outcome[u] # NoCall
        BY <3>2, <2>1, <1>2
      <4>2. Arrives(outcome[u], overlapped)
        BY <4>1, Zenon DEF IInv, CallsArrive, Arrives
      <4>3. Arrives(outcome[u], overlapped')
        BY <4>2, Zenon DEF Arrives
      <4> QED BY <3>2, <4>3, <1>2
    <3> QED BY <3>1, <3>2
  <2> QED BY <2>1, Zenon DEF CallsArrive, Arrives, GoesWhereDue
<1> QED BY <1>1, <1>3, <1>4 DEF IInv

\* A thread that neither writes a slot nor begins a lookup cannot disturb what is known of
\* the slots; it takes or gives back the lock only while no other thread writes one.
LEMMA SlotsKept ==
  ASSUME IInv, NEW th \in Threads, NEW c \in Pending, c \notin Lookups, call[th].step # "store",
         call' = [call EXCEPT ![th] = c],
         gil' # gil => \A u \in Threads \ {th} : call[u].step # "store",
         Agrees(c, th, gil', data, overlapped),
         UNCHANGED <<data, overlapped>>
  PROVE  data' \in [Objs -> [1 .. Size -> CacheSlots]] /\ Cached' /\ Told' /\ Apart'
<1>1. call'[th] = c /\ \A u \in Threads \ {th} : call'[u] = call[u]
  BY DEF IInv, TypeOK
<1>2. \A x \in Objs : ~LooksAt(c, x)
  BY DEF LooksAt
<1>3. Apart'
  <2> SUFFICES ASSUME NEW x \in Objs \ overlapped
               PROVE  /\ Single(data[x])
                      /\ \A t, u \in Threads : LooksAt(call'[t], x) /\ LooksAt(call'[u], x) => t = u
                      /\ \A t \in Threads : LooksAt(call'[t], x) => Awaited(call'[t], data[x])
    BY Zenon DEF Apart
  <2>1. /\ Single(data[x])
        /\ \A t, u \in Threads : LooksAt(call[t], x) /\ LooksAt(call[u], x) => t = u
        /\ \A t \in Threads : LooksAt(call[t], x) => Awaited(call[t], data[x])
    BY Zenon DEF Apart, IInv
  <2>2. \A t \in Threads : LooksAt(call'[t], x) => t # th /\ call'[t] = call[t]
    BY <1>1, <1>2
  <2> QED BY <2>1, <2>2, Zenon
<1>4. Cached'
  <2> SUFFICES ASSUME NEW x \in Objs, NEW n \in 1 .. Size, ~Tells(x, data[x][n])
               PROVE  \E t \in Threads : Writes(call'[t], x, n)
    BY Zenon DEF Cached, Tells, Empty
  <2>1. PICK t \in Threads : Writes(call[t], x, n)
    BY Zenon DEF IInv, Cached
  <2>2. t # th
    BY <2>1 DEF Writes
  <2> QED BY <1>1, <2>1, <2>2
<1>5. Told'
  <2> SUFFICES ASSUME NEW u \in Threads PROVE Agrees(call'[u], u, gil', data, overlapped)
    BY Zenon DEF Told
  <2>1. CASE u = th
    BY <1>1, <2>1, Zenon
  <2>2. CASE u # th
    <3>1. Agrees(call[u], u, gil, data, overlapped)
      BY Zenon DEF IInv, Told
    <3>2. Agrees(call[u], u, gil', data, overlapped)
      <4>1. CASE gil' = gil
        BY <3>1, <4>1
      <4>2. CASE gil' # gil
        BY <2>2, <3>1, <4>2 DEF Agrees
      <4> QED BY <4>1, <4>2
    <3> QED BY <1>1, <2>2, <3>2, Zenon
  <2> QED BY <2>1, <2>2
<1> QED BY <1>3, <1>4, <1>5 DEF IInv, TypeOK

\* A thread goes on with its call, the slots and the overrides being as they were.
LEMMA GoesOn ==
  ASSUME IInv, NEW th \in Threads, NEW c \in Pending, c \notin Lookups, call[th] \notin Lookups,
         call' = [call EXCEPT ![th] = c],
         Agrees(c, th, gil, data, overlapped),
         UNCHANGED <<data, tickets, gil, held, overlapped>>,
         outcome' = outcome \/ outcome' = [outcome EXCEPT ![th] = NoCall]
  PROVE  IInv'
<1>1. call[th].step \notin {"lookup", "store"} /\ c.step \notin {"lookup", "store"}
  BY PendingKinds DEF IInv, TypeOK
<1>2. data' \in [Objs -> [1 .. Size -> CacheSlots]] /\ Cached' /\ Told' /\ Apart'
  BY <1>1, SlotsKept
<1>3. tickets[th] \in Seq(Tickets) /\ Len(tickets[th]) \in Nat /\ held[th] \in Nat
  BY DEF IInv, TypeOK
<1>4. held[th] = Len(tickets[th]) + Holding(c)
  BY <1>1, Zenon DEF IInv, LockBalanced, Holding
<1>5. gil = th => held[th] > 0
  BY ThreadsAssumption DEF IInv, LockBalanced, NoThread
<1>6. /\ tickets' = [tickets EXCEPT ![th] = tickets[th]] /\ held' = [held EXCEPT ![th] = held[th]]
      /\ overlapped' \in SUBSET Objs /\ overlapped \subseteq overlapped'
      /\ gil' \in {gil, th, NoThread} /\ (gil' = th => held[th] > 0)
  BY <1>5 DEF IInv, TypeOK
<1>7. CASE outcome' = outcome
  <2>1. outcome' = [outcome EXCEPT ![th] = outcome[th]] /\ outcome[th] \in {NoCall} \cup Made
    BY <1>7 DEF IInv, TypeOK
  <2>2. outcome[th] # NoCall => Arrives(outcome[th], overlapped')
    BY Zenon DEF IInv, CallsArrive, Arrives
  <2> QED BY <1>2, <1>3, <1>4, <1>6, <2>1, <2>2, OneChanges
<1>8. CASE outcome' = [outcome EXCEPT ![th] = NoCall]
  <2>1. NoCall \in {NoCall} \cup Made /\ (NoCall # NoCall => Arrives(NoCall, overlapped'))
    OBVIOUS
  <2> QED BY <1>2, <1>3, <1>4, <1>6, <1>8, <2>1, OneChanges
<1> QED BY <1>7, <1>8

\* A call is decided, the slots having been seen to.
LEMMA Decided ==
  ASSUME IInv, NEW th \in Threads, NEW t \in Seq(Tickets), NEW k \in Nat, NEW o \in Made,
         Concludes(th, t, k, o), UNCHANGED overlapped,
         data' \in [Objs -> [1 .. Size -> CacheSlots]], Cached', Told', Apart'
  PROVE  IInv'
<1>1. NoCall \in Pending /\ Holding(NoCall) = 0
  BY DEF Pending, NoCall, Holding
<1>2. /\ call' = [call EXCEPT ![th] = NoCall]
      /\ tickets' = [tickets EXCEPT ![th] = t]
      /\ held' = [held EXCEPT ![th] = k]
      /\ outcome' = [outcome EXCEPT ![th] = o]
      /\ gil' \in {gil, th, NoThread} /\ (gil' = th => k > 0)
      /\ k = Len(t)
      /\ Arrives(o, overlapped)
  BY DEF Concludes
<1>3. k = Len(t) + Holding(NoCall)
  <2>1. Len(t) \in Nat
    OBVIOUS
  <2> QED BY <1>1, <1>2, <2>1
<1>4. overlapped' \in SUBSET Objs /\ overlapped \subseteq overlapped'
  BY DEF IInv, TypeOK
<1> QED BY <1>1, <1>2, <1>3, <1>4, OneChanges

\* A call is decided without a change of the slots.
LEMMA DecidedBySlots ==
  ASSUME IInv, NEW th \in Threads, call[th].step # "store",
         gil \in {NoThread, th} \/ UNCHANGED gil,
         \E t \in Seq(Tickets), k \in Nat, o \in Made : Concludes(th, t, k, o),
         UNCHANGED <<data, overlapped>>
  PROVE  IInv'
<1>1. NoCall \in Pending /\ NoCall \notin Lookups /\ Agrees(NoCall, th, gil', data, overlapped)
  BY DEF Pending, Lookups, NoCall, Agrees
<1>2. call' = [call EXCEPT ![th] = NoCall]
  BY DEF Concludes
<1>3. gil' # gil => \A u \in Threads \ {th} : call[u].step # "store"
  BY NobodyWrites
<1>4. data' \in [Objs -> [1 .. Size -> CacheSlots]] /\ Cached' /\ Told' /\ Apart'
  BY <1>1, <1>2, <1>3, SlotsKept
<1> QED BY <1>4, Decided

LEMMA Initially == Init => IInv
<1> SUFFICES ASSUME Init PROVE IInv
  OBVIOUS
<1>1. NoCall \in Pending /\ NoCall \notin Lookups /\ NoCall.step = "none"
  BY DEF Pending, NoCall, Lookups
<1>2. Empty \in CacheSlots
  BY DEF Empty, CacheSlots, CacheValues
<1>3. TypeOK
  <2>1. <<>> \in Seq(Tickets) /\ 0 \in Nat /\ {} \in SUBSET Objs
    OBVIOUS
  <2> QED BY <1>1, <1>2, <2>1, Zenon DEF Init, TypeOK
<1>4. LockBalanced
  BY <1>1 DEF Init, LockBalanced
<1>5. CallsArrive
  BY DEF Init, CallsArrive
<1>6. Cached
  BY DEF Init, Cached, Tells
<1>7. Told
  BY <1>1 DEF Init, Told, Agrees
<1>8. Apart
  BY <1>1 DEF Init, Apart, LooksAt, Single
<1> QED BY <1>3, <1>4, <1>5, <1>6, <1>7, <1>8 DEF IInv

-----------------------------------------------------------------------------
(* The slots *)

\* An object with a slot for each function has one left for a function that no slot is of,
\* unless lookups overlapped.
LEMMA SlotsSuffice ==
  ASSUME IInv, NEW th \in Threads, call[th] # NoCall,
         \A u \in Threads : call[u].step # "store",
         Hits(th) = {}, FreeSlots(call[th].self) = {}
  PROVE  call[th].self \in overlapped
<1> DEFINE x == call[th].self
           f == call[th].name
           g == [n \in 1 .. Size |-> data[x][n].name]
<1>1. x \in Objs /\ f \in Functions
  BY PendingKinds DEF IInv, TypeOK
<1>2. ASSUME NEW n \in 1 .. Size PROVE data[x][n] # Empty /\ data[x][n].name \in Functions \ {f}
  <2>1. data[x][n] # Empty
    BY DEF FreeSlots
  <2>2. Tells(x, data[x][n])
    BY <1>1 DEF IInv, Cached, Writes
  <2>3. data[x][n].name \in Functions /\ data[x][n].value # "null"
    BY <2>1, <2>2, NamesAssumption DEF Tells
  <2>4. data[x][n].name # f
    BY <2>3 DEF Hits
  <2> QED BY <2>1, <2>3, <2>4
<1>3. g \in [1 .. Size -> Functions \ {f}]
  BY <1>2
<1>4. /\ IsFiniteSet(Functions \ {f}) /\ Cardinality(Functions \ {f}) = Cardinality(Functions) - 1
  BY <1>1, SlotsAssumption, FS_RemoveElement
<1>5. IsFiniteSet(1 .. Size) /\ Cardinality(1 .. Size) = Size
  <2>1. 1 \in Int /\ Size \in Int /\ Size >= 0
    BY SlotsAssumption
  <2>2. IsFiniteSet(1 .. Size) /\ Cardinality(1 .. Size) = IF 1 > Size THEN 0 ELSE Size - 1 + 1
    BY <2>1, FS_Interval
  <2> QED BY <2>1, <2>2
<1>6. Cardinality(Functions \ {f}) < Cardinality(1 .. Size)
  <2>1. Cardinality(Functions) \in Nat
    BY SlotsAssumption, FS_CardinalityType
  <2> QED BY <2>1, <1>4, <1>5, SlotsAssumption
<1>7. PICK m, n \in 1 .. Size : m # n /\ g[m] = g[n]
  <2> DEFINE A == 1 .. Size
             B == Functions \ {f}
  <2>1. IsFiniteSet(A) /\ IsFiniteSet(B) /\ Cardinality(B) < Cardinality(A) /\ g \in [A -> B]
    BY <1>3, <1>4, <1>5, <1>6
  <2> HIDE DEF A, B, g
  <2>2. \E m, n \in A : m # n /\ g[m] = g[n]
    BY <2>1, FS_PigeonHole
  <2> QED BY <2>2 DEF A
<1>8. data[x][m].name = data[x][n].name /\ data[x][m] # Empty
  BY <1>2, <1>7
<1> QED BY <1>1, <1>7, <1>8 DEF IInv, Apart, Single

\* The slot that is chosen is free, and only overlapped lookups choose the same.
LEMMA LookupBegins ==
  ASSUME IInv, NEW th \in Threads, call[th] \in Asks,
         \A u \in Threads : call[u].step # "store",
         Hits(th) = {}, FreeSlots(call[th].self) # {},
         NEW c, c = [step |-> "lookup", self |-> call[th].self, name |-> call[th].name,
                     slot |-> Min(FreeSlots(call[th].self))],
         call' = [call EXCEPT ![th] = c],
         overlapped' = IF Overlaps(th) THEN overlapped \union {call[th].self} ELSE overlapped,
         UNCHANGED data
  PROVE  /\ c \in Lookups /\ overlapped' \in SUBSET Objs /\ overlapped \subseteq overlapped'
         /\ Cached' /\ Told' /\ Apart'
<1> DEFINE x == call[th].self
           f == call[th].name
<1>1. x \in Objs /\ f \in Functions
  BY DEF Asks
<1>2. Min(FreeSlots(x)) \in FreeSlots(x)
  BY MinIsOne DEF FreeSlots
<1>3. c \in Lookups /\ c.self = x /\ c.name = f /\ c.step = "lookup"
  BY <1>1, <1>2 DEF Lookups, FreeSlots
<1>4. data[x][c.slot] = Empty
  BY <1>2 DEF FreeSlots
<1>5. call'[th] = c /\ \A u \in Threads \ {th} : call'[u] = call[u]
  BY Zenon DEF IInv, TypeOK
<1>6. overlapped' \in SUBSET Objs /\ overlapped \subseteq overlapped'
  BY <1>1 DEF IInv, TypeOK
<1> HIDE DEF x, f
<1>7. Cached'
  <2> SUFFICES ASSUME NEW y \in Objs, NEW n \in 1 .. Size PROVE Tells(y, data[y][n])
    BY Zenon DEF Cached, Tells, Empty
  <2> QED BY DEF IInv, Cached, Writes
<1>8. Told'
  <2> SUFFICES ASSUME NEW u \in Threads PROVE Agrees(call'[u], u, gil', data, overlapped')
    BY Zenon DEF Told
  <2>1. CASE u = th
    BY <1>3, <1>5, <2>1 DEF Agrees
  <2>2. CASE u # th
    <3>1. Agrees(call[u], u, gil, data, overlapped) /\ call[u].step # "store"
      BY Zenon DEF IInv, Told
    <3>2. Agrees(call[u], u, gil', data, overlapped')
      BY <1>6, <3>1 DEF Agrees
    <3> QED BY <1>5, <2>2, <3>2, Zenon
  <2> QED BY <2>1, <2>2
<1>9. Apart'
  <2> SUFFICES ASSUME NEW y \in Objs \ overlapped'
               PROVE  /\ Single(data[y])
                      /\ \A t, u \in Threads : LooksAt(call'[t], y) /\ LooksAt(call'[u], y) => t = u
                      /\ \A t \in Threads : LooksAt(call'[t], y) => Awaited(call'[t], data[y])
    BY Zenon DEF Apart
  <2>1. /\ Single(data[y])
        /\ \A t, u \in Threads : LooksAt(call[t], y) /\ LooksAt(call[u], y) => t = u
        /\ \A t \in Threads : LooksAt(call[t], y) => Awaited(call[t], data[y])
    BY <1>6, Zenon DEF Apart, IInv
  <2>2. y = x => \A u \in Threads \ {th} : ~LooksAt(call[u], x)
    <3> SUFFICES ASSUME y = x, NEW u \in Threads \ {th}, LooksAt(call[u], x) PROVE FALSE
      OBVIOUS
    <3>1. call[u].step = "lookup" /\ call[u].self = x
      BY PendingKinds DEF LooksAt, Pending
    <3>2. Overlaps(th)
      BY <3>1 DEF Overlaps, x
    <3> QED BY <3>2 DEF x
  <2>3. LooksAt(c, y) => y = x
    BY <1>3 DEF LooksAt
  <2>4. y = x => Awaited(c, data[y])
    <3>1. \A n \in 1 .. Size : y = x => data[y][n].name # f
      <4> SUFFICES ASSUME NEW n \in 1 .. Size, y = x, data[y][n].name = f PROVE FALSE
        OBVIOUS
      <4>1. Tells(y, data[y][n])
        BY DEF IInv, Cached, Writes
      <4>2. data[y][n] # Empty
        BY <1>1, NamesAssumption DEF Empty, f
      <4>3. data[y][n].value # "null"
        BY <1>1, <4>1, <4>2, NamesAssumption DEF Tells, f
      <4> QED BY <4>3 DEF Hits, x, f
    <3> QED BY <1>3, <1>4, <3>1 DEF Awaited
  <2> QED BY <1>5, <2>1, <2>2, <2>3, <2>4
<1> QED BY <1>3, <1>6, <1>7, <1>8, <1>9

\* One slot of one object is set.
LEMMA SlotSet ==
  ASSUME TypeOK, NEW x \in Objs, NEW s \in 1 .. Size, NEW v \in CacheSlots,
         data' = [data EXCEPT ![x][s] = v]
  PROVE  /\ data' \in [Objs -> [1 .. Size -> CacheSlots]]
         /\ \A y \in Objs, n \in 1 .. Size : data'[y][n] = IF y = x /\ n = s THEN v ELSE data[y][n]
         /\ \A y \in Objs \ {x} : data'[y] = data[y]
<1>1. data \in [Objs -> [1 .. Size -> CacheSlots]]
  BY DEF TypeOK
<1> DEFINE row == [data[x] EXCEPT ![s] = v]
<1>2. row \in [1 .. Size -> CacheSlots]
  BY <1>1
<1>3. \A n \in 1 .. Size : row[n] = IF n = s THEN v ELSE data[x][n]
  BY <1>1
<1>4. data' = [data EXCEPT ![x] = row]
  OBVIOUS
<1> HIDE DEF row
<1>5. data' \in [Objs -> [1 .. Size -> CacheSlots]]
  BY <1>1, <1>2, <1>4
<1>6. data'[x] = row /\ \A y \in Objs \ {x} : data'[y] = data[y]
  BY <1>1, <1>4
<1> QED BY <1>3, <1>5, <1>6

\* The slot a lookup chose takes the name, and until it has the value the thread has the lock.
LEMMA NameStored ==
  ASSUME IInv, NEW th \in Threads, StoreName(th)
  PROVE  /\ [call[th] EXCEPT !.step = "store"] \in Pending
         /\ call' = [call EXCEPT ![th] = [call[th] EXCEPT !.step = "store"]]
         /\ data' \in [Objs -> [1 .. Size -> CacheSlots]] /\ Cached' /\ Told' /\ Apart'
<1> DEFINE x == call[th].self
           f == call[th].name
           s == call[th].slot
           v == [data[x][s] EXCEPT !.name = f]
           c == [call[th] EXCEPT !.step = "store"]
<1>1. /\ call[th].step = "lookup" /\ gil = th /\ gil' = gil /\ overlapped' = overlapped
      /\ f \notin Overridden[x] => f \notin Pure
      /\ data' = [data EXCEPT ![x][s].name = f]
      /\ call' = [call EXCEPT ![th].step = "store"]
  BY DEF StoreName, IsOverridden
<1>2. call[th] \in Lookups
  BY <1>1, PendingKinds DEF IInv, TypeOK
<1>3. x \in Objs /\ f \in Functions /\ s \in 1 .. Size
  BY <1>2 DEF Lookups
<1>4. /\ c \in Lookups /\ c \in Pending /\ c.step = "store" /\ c.self = x /\ c.name = f /\ c.slot = s
  BY <1>2 DEF Lookups, Pending
<1>5. call' = [call EXCEPT ![th] = c]
  BY <1>1 DEF IInv, TypeOK
<1>6. call'[th] = c /\ \A u \in Threads \ {th} : call'[u] = call[u]
  BY <1>5 DEF IInv, TypeOK
<1>7. v \in CacheSlots /\ v.name = f /\ v.value = data[x][s].value
  <2>1. data[x][s] \in CacheSlots
    BY <1>3 DEF IInv, TypeOK
  <2> HIDE DEF x, f, s
  <2> QED BY <1>3, <2>1 DEF CacheSlots
<1>8. /\ data' \in [Objs -> [1 .. Size -> CacheSlots]]
      /\ \A y \in Objs, n \in 1 .. Size : data'[y][n] = IF y = x /\ n = s THEN v ELSE data[y][n]
      /\ \A y \in Objs \ {x} : data'[y] = data[y]
  <2>1. data' = [data EXCEPT ![x][s] = v]
    BY <1>1
  <2> HIDE DEF v, x, s
  <2> QED BY <1>3, <1>7, <2>1, SlotSet DEF IInv
<1>9. \A u \in Threads : call[u].step # "store"
  BY <1>1, NobodyWrites
<1>10. x \notin overlapped =>
         /\ Single(data[x])
         /\ \A t, u \in Threads : LooksAt(call[t], x) /\ LooksAt(call[u], x) => t = u
         /\ data[x][s] = Empty /\ \A n \in 1 .. Size : data[x][n].name # f
  BY <1>1, <1>2, <1>3 DEF IInv, Apart, LooksAt, Awaited
<1> HIDE DEF x, f, s, v, c
<1>11. Cached'
  <2> SUFFICES ASSUME NEW y \in Objs, NEW n \in 1 .. Size
               PROVE  Tells(y, data'[y][n]) \/ \E t \in Threads : Writes(call'[t], y, n)
    BY Zenon DEF Cached, Tells, Empty
  <2>1. CASE y = x /\ n = s
    BY <1>4, <1>6, <2>1 DEF Writes
  <2>2. CASE ~(y = x /\ n = s)
    <3>1. Tells(y, data[y][n])
      BY <1>9 DEF IInv, Cached, Writes
    <3> QED BY <1>8, <2>2, <3>1
  <2> QED BY <2>1, <2>2
<1>12. Told'
  <2> SUFFICES ASSUME NEW u \in Threads PROVE Agrees(call'[u], u, gil', data', overlapped')
    BY Zenon DEF Told
  <2>1. CASE u = th
    <3>1. data'[x][s] = v
      BY <1>3, <1>8
    <3>2. x \notin overlapped => v.value = "null"
      BY <1>7, <1>10 DEF Empty
    <3>3. c.name \notin Overridden[c.self] => c.name \notin Pure
      BY <1>1, <1>4 DEF x, f
    <3>4. Agrees(c, th, gil', data', overlapped')
      BY <1>1, <1>4, <1>7, <3>1, <3>2, <3>3 DEF Agrees
    <3> QED BY <1>6, <2>1, <3>4, Zenon
  <2>2. CASE u # th
    <3>1. Agrees(call[u], u, gil, data, overlapped) /\ call[u].step # "store" /\ call[u] \in Pending
      BY <1>9, Zenon DEF IInv, Told, TypeOK
    <3>2. call[u].step = "value" /\ call[u].self \notin overlapped
             => data'[call[u].self][call[u].slot].name = call[u].name
      <4> SUFFICES ASSUME call[u].step = "value", call[u].self \notin overlapped
                   PROVE  data'[call[u].self][call[u].slot].name = call[u].name
        OBVIOUS
      <4>1. call[u] \in Sweeps
        BY <3>1, PendingKinds
      <4>2. call[u].self \in Objs /\ call[u].slot \in 1 .. Size /\ call[u].name \in Functions
        BY <4>1 DEF Sweeps
      <4>3. data[call[u].self][call[u].slot].name = call[u].name
        BY <3>1 DEF Agrees
      <4>4. ~(call[u].self = x /\ call[u].slot = s)
        BY <1>10, <4>2, <4>3, NamesAssumption DEF Empty
      <4> QED BY <1>8, <4>2, <4>3, <4>4
    <3>3. Agrees(call[u], u, gil', data', overlapped')
      BY <1>1, <3>1, <3>2 DEF Agrees
    <3> QED BY <1>6, <2>2, <3>3, Zenon
  <2> QED BY <2>1, <2>2
<1>13. Apart'
  <2> SUFFICES ASSUME NEW y \in Objs \ overlapped
               PROVE  /\ Single(data'[y])
                      /\ \A t, u \in Threads : LooksAt(call'[t], y) /\ LooksAt(call'[u], y) => t = u
                      /\ \A t \in Threads : LooksAt(call'[t], y) => Awaited(call'[t], data'[y])
    BY <1>1, Zenon DEF Apart
  <2>1. /\ Single(data[y])
        /\ \A t, u \in Threads : LooksAt(call[t], y) /\ LooksAt(call[u], y) => t = u
        /\ \A t \in Threads : LooksAt(call[t], y) => Awaited(call[t], data[y])
    BY Zenon DEF Apart, IInv
  <2>2. \A t \in Threads : LooksAt(call'[t], y) => LooksAt(call[t], y)
    BY <1>2, <1>4, <1>6 DEF LooksAt, x
  <2>3. \A t, u \in Threads : LooksAt(call'[t], y) /\ LooksAt(call'[u], y) => t = u
    BY <2>1, <2>2
  <2>4. CASE y = x
    <3>1. Single(data'[y])
      <4> SUFFICES ASSUME NEW m \in 1 .. Size, NEW n \in 1 .. Size,
                          data'[y][m] # Empty, data'[y][m].name = data'[y][n].name
                   PROVE  m = n
        BY DEF Single
      <4>1. \A k \in 1 .. Size : data[y][k].name # f
        BY <1>10, <2>4
      <4>2. /\ data'[y][m] = IF m = s THEN v ELSE data[y][m]
            /\ data'[y][n] = IF n = s THEN v ELSE data[y][n]
        BY <1>8, <2>4
      <4> QED BY <1>7, <2>1, <4>1, <4>2 DEF Single
    <3>2. \A t \in Threads : LooksAt(call'[t], y) => Awaited(call'[t], data'[y])
      <4>1. LooksAt(call[th], y)
        BY <1>2, <2>4 DEF LooksAt, x
      <4>2. \A t \in Threads : LooksAt(call'[t], y) => t = th
        BY <2>1, <2>2, <4>1
      <4> QED BY <1>4, <1>6, <4>2 DEF Awaited
    <3> QED BY <2>3, <3>1, <3>2
  <2>5. CASE y # x
    <3>1. data'[y] = data[y]
      BY <1>8, <2>5
    <3>2. \A t \in Threads : LooksAt(call'[t], y) => t # th
      BY <1>4, <1>6, <2>5 DEF LooksAt
    <3> QED BY <1>6, <2>1, <2>2, <2>3, <3>1, <3>2
  <2> QED BY <2>4, <2>5
<1> QED BY <1>4, <1>5, <1>8, <1>11, <1>12, <1>13 DEF c

\* With the value the slot is whole.
LEMMA ValueStored ==
  ASSUME IInv, NEW th \in Threads, call[th].step = "store",
         NEW x, x = call[th].self, NEW f, f = call[th].name, NEW s, s = call[th].slot,
         NEW v \in CacheSlots, v.name = f, v.value = (IF f \in Overridden[x] THEN f ELSE "None"),
         call' = [call EXCEPT ![th] = NoCall], UNCHANGED overlapped,
         data' = [data EXCEPT ![x][s] = v]
  PROVE  data' \in [Objs -> [1 .. Size -> CacheSlots]] /\ Cached' /\ Told' /\ Apart'
<1>1. call[th] \in Lookups
  BY PendingKinds DEF IInv, TypeOK
<1>2. x \in Objs /\ f \in Functions /\ s \in 1 .. Size
  BY <1>1 DEF Lookups
<1>3. /\ gil = th /\ data[x][s].name = f
      /\ f \notin Overridden[x] => f \notin Pure
      /\ \A u \in Threads \ {th} : call[u].step # "store"
  <2>1. Agrees(call[th], th, gil, data, overlapped)
    BY DEF IInv, Told
  <2>2. \A u \in Threads : call[u].step = "store" => gil = u
    BY DEF IInv, Told, Agrees
  <2> QED BY <2>1, <2>2 DEF Agrees
<1>4. Tells(x, v)
  BY <1>2, <1>3 DEF Tells
<1>5. /\ data' \in [Objs -> [1 .. Size -> CacheSlots]]
      /\ \A y \in Objs, n \in 1 .. Size : data'[y][n] = IF y = x /\ n = s THEN v ELSE data[y][n]
      /\ \A y \in Objs \ {x} : data'[y] = data[y]
  <2>1. TypeOK /\ data' = [data EXCEPT ![x][s] = v] /\ v \in CacheSlots
    BY DEF IInv
  <2>2. x \in Objs /\ s \in 1 .. Size
    BY <1>2
  <2> QED BY ONLY <2>1, <2>2, SlotSet
<1>6. call'[th] = NoCall /\ \A u \in Threads \ {th} : call'[u] = call[u]
  BY DEF IInv, TypeOK
<1>7. NoCall \notin Lookups /\ NoCall.step = "none"
  BY DEF Lookups, NoCall
<1>8. \A y \in Objs, n \in 1 .. Size : data'[y][n].name = data[y][n].name
  BY <1>3, <1>5
<1>9. Cached'
  <2> SUFFICES ASSUME NEW y \in Objs, NEW n \in 1 .. Size PROVE Tells(y, data'[y][n])
    BY Zenon DEF Cached, Tells, Empty
  <2>1. CASE y = x /\ n = s
    BY <1>4, <1>5, <2>1
  <2>2. CASE ~(y = x /\ n = s)
    <3>1. \A u \in Threads : ~Writes(call[u], y, n)
      BY <1>3, <2>2 DEF Writes
    <3>2. Tells(y, data[y][n])
      BY <3>1, Zenon DEF IInv, Cached
    <3> QED BY <1>5, <2>2, <3>2
  <2> QED BY <2>1, <2>2
<1>10. Told'
  <2> SUFFICES ASSUME NEW u \in Threads PROVE Agrees(call'[u], u, gil', data', overlapped')
    BY Zenon DEF Told
  <2>1. CASE u = th
    BY <1>6, <1>7, <2>1 DEF Agrees
  <2>2. CASE u # th
    <3>1. Agrees(call[u], u, gil, data, overlapped) /\ call[u].step # "store" /\ call[u] \in Pending
      BY <1>3, <2>2, Zenon DEF IInv, Told, TypeOK
    <3>2. call[u].step = "value" => call[u].self \in Objs /\ call[u].slot \in 1 .. Size
      BY <3>1, PendingKinds DEF Sweeps
    <3>3. Agrees(call[u], u, gil', data', overlapped')
      BY <1>8, <3>1, <3>2 DEF Agrees
    <3> QED BY <1>6, <2>2, <3>3, Zenon
  <2> QED BY <2>1, <2>2
<1>11. Apart'
  <2> SUFFICES ASSUME NEW y \in Objs \ overlapped
               PROVE  /\ Single(data'[y])
                      /\ \A t, u \in Threads : LooksAt(call'[t], y) /\ LooksAt(call'[u], y) => t = u
                      /\ \A t \in Threads : LooksAt(call'[t], y) => Awaited(call'[t], data'[y])
    BY Zenon DEF Apart
  <2>1. /\ Single(data[y])
        /\ \A t, u \in Threads : LooksAt(call[t], y) /\ LooksAt(call[u], y) => t = u
        /\ \A t \in Threads : LooksAt(call[t], y) => Awaited(call[t], data[y])
    BY Zenon DEF Apart, IInv
  <2>2. \A t \in Threads : LooksAt(call'[t], y) => t # th /\ call'[t] = call[t]
    BY <1>6, <1>7 DEF LooksAt
  <2>3. CASE y = x
    <3>1. Single(data'[y])
      <4> SUFFICES ASSUME NEW m \in 1 .. Size, NEW n \in 1 .. Size,
                          data'[y][m] # Empty, data'[y][m].name = data'[y][n].name
                   PROVE  m = n
        BY DEF Single
      <4>1. data[y][m].name = data[y][n].name
        BY <1>8
      <4>2. data[y][m] # Empty
        <5>1. CASE m = s
          BY <1>2, <1>3, <2>3, <5>1, NamesAssumption DEF Empty
        <5>2. CASE m # s
          BY <1>5, <5>2
        <5> QED BY <5>1, <5>2
      <4> QED BY <2>1, <4>1, <4>2 DEF Single
    <3>2. LooksAt(call[th], x)
      BY <1>1 DEF LooksAt
    <3> QED BY <2>1, <2>2, <2>3, <3>1, <3>2
  <2>4. CASE y # x
    BY <1>5, <2>1, <2>2, <2>4
  <2> QED BY <2>3, <2>4
<1> QED BY <1>5, <1>9, <1>10, <1>11

-----------------------------------------------------------------------------
(* The steps *)

\* A thread has the lock as often as it is in overrides, and in a lookup.
LEMMA HeldByOverrides ==
  ASSUME IInv, NEW th \in Threads
  PROVE  /\ tickets[th] \in Seq(Tickets) /\ Len(tickets[th]) \in Nat
         /\ held \in [Threads -> Nat] /\ held[th] = Len(tickets[th]) + Holding(call[th])
         /\ call[th].step \notin {"lookup", "store"} =>
              /\ held[th] = Len(tickets[th])
              /\ More(th) = [held EXCEPT ![th] = Len(tickets[th]) + 1]
         /\ call[th].step \in {"lookup", "store"} =>
              /\ held = [held EXCEPT ![th] = Len(tickets[th]) + 1]
              /\ Left(th) = [held EXCEPT ![th] = Len(tickets[th])]
<1>1. tickets[th] \in Seq(Tickets) /\ held \in [Threads -> Nat] /\ Len(tickets[th]) \in Nat
  BY DEF IInv, TypeOK
<1>2. held[th] = Len(tickets[th]) + Holding(call[th])
  BY Zenon DEF IInv, LockBalanced, Holding
<1>3. call[th].step \notin {"lookup", "store"} => held[th] = Len(tickets[th])
  BY <1>1, <1>2 DEF Holding
<1>4. call[th].step \in {"lookup", "store"} => held[th] = Len(tickets[th]) + 1
  BY <1>1, <1>2 DEF Holding
<1>5. /\ call[th].step \notin {"lookup", "store"} => More(th) = [held EXCEPT ![th] = Len(tickets[th]) + 1]
      /\ call[th].step \in {"lookup", "store"} => Left(th) = [held EXCEPT ![th] = Len(tickets[th])]
  <2>1. More(th) = [held EXCEPT ![th] = held[th] + 1] /\ Left(th) = [held EXCEPT ![th] = held[th] - 1]
    BY DEF More, Left
  <2>3. CASE call[th].step \notin {"lookup", "store"}
    <3>1. held[th] = Len(tickets[th])
      BY <1>3, <2>3
    <3>2. More(th) = [held EXCEPT ![th] = Len(tickets[th]) + 1]
      BY <2>1, <3>1, Zenon
    <3> QED BY <2>3, <3>2
  <2>4. CASE call[th].step \in {"lookup", "store"}
    <3>1. held[th] - 1 = Len(tickets[th])
      BY <1>1, <1>4, <2>4
    <3>2. Left(th) = [held EXCEPT ![th] = Len(tickets[th])]
      BY <2>1, <3>1, Zenon
    <3> QED BY <2>4, <3>2
  <2> QED BY <2>3, <2>4
<1>6. held = [held EXCEPT ![th] = held[th]]
  BY <1>1
<1> HIDE DEF Holding
<1> QED BY <1>1, <1>2, <1>3, <1>4, <1>5, <1>6

\* To the base, with the lock as it was.
LEMMA BaseKeepsLock ==
  ASSUME IInv, NEW th \in Threads, call[th] # NoCall, call[th].step \notin {"lookup", "store"},
         NEW locked \in BOOLEAN,
         \/ call[th].name \notin Overridden[call[th].self]
         \/ ~locked /\ call[th].self \in overlapped,
         ToBase(th, locked), UNCHANGED <<tickets, gil, held, data, overlapped>>
  PROVE  IInv'
<1>1. tickets[th] \in Seq(Tickets) /\ Len(tickets[th]) \in Nat /\ held[th] = Len(tickets[th])
  BY HeldByOverrides
<1>2. held' = [held EXCEPT ![th] = Len(tickets[th])]
  BY <1>1 DEF IInv, TypeOK
<1>3. gil' \in {gil, th, NoThread} /\ (gil' = th => Len(tickets[th]) > 0)
  BY <1>1, ThreadsAssumption DEF IInv, LockBalanced, NoThread
<1>4. \E o \in Made : Concludes(th, tickets[th], Len(tickets[th]), o)
  BY <1>2, <1>3, BaseConcludes
<1> QED BY <1>1, <1>4, DecidedBySlots

\* An outcome without a call of the base or of an override.
LEMMA FailureConcludes ==
  ASSUME IInv, NEW th \in Threads, call[th] # NoCall, NEW step \in {"failed", "no slots"},
         step = "no slots" => call[th].self \in overlapped,
         Ends(th, step, "None", TRUE), UNCHANGED tickets,
         held' = [held EXCEPT ![th] = Len(tickets[th])],
         gil' \in {gil, th, NoThread} /\ (gil' = th => Len(tickets[th]) > 0)
  PROVE  \E o \in Made : Concludes(th, tickets[th], Len(tickets[th]), o)
<1> DEFINE o == [step |-> step, self |-> call[th].self, name |-> call[th].name, key |-> "None",
                 locked |-> TRUE, from |-> Innermost(th)]
<1>1. call[th].self \in Objs /\ call[th].name \in Functions
  BY PendingKinds DEF IInv, TypeOK
<1>2. Innermost(th) \in {NoCall} \cup Tickets
  BY InnermostIsTicket DEF IInv
<1>3. o \in Made
  BY <1>1, <1>2 DEF Made
<1>4. Arrives(o, overlapped)
  BY DEF Arrives
<1>5. /\ call' = [call EXCEPT ![th] = NoCall]
      /\ outcome' = [outcome EXCEPT ![th] = o]
      /\ tickets' = [tickets EXCEPT ![th] = tickets[th]]
  BY DEF Ends, IInv, TypeOK
<1> HIDE DEF o
<1>6. Concludes(th, tickets[th], Len(tickets[th]), o)
  BY <1>4, <1>5 DEF Concludes
<1> QED BY <1>3, <1>6

\* Without its step a call that sweeps goes on to the next slot, or to the lock.
LEMMA NextSlotGoesOn ==
  ASSUME IInv, NEW th \in Threads, call[th] \in Sweeps, NextSlot(th),
         UNCHANGED <<data, tickets, gil, held, outcome, overlapped>>
  PROVE  IInv'
<1>1. /\ call[th].self \in Objs /\ call[th].name \in Functions /\ call[th].slot \in 1 .. Size
      /\ call[th].step \in {"name", "value"} /\ Size \in Nat
  BY SlotsAssumption DEF Sweeps
<1>2. call[th] \notin Lookups
  BY <1>1 DEF Lookups
<1>3. CASE call[th].slot < Size
  <2> DEFINE n == call[th].slot + 1
             c == [call[th] EXCEPT !.step = "name", !.slot = n]
  <2>1. call' = [call EXCEPT ![th] = c]
    BY <1>3 DEF NextSlot
  <2>2. c \in Sweeps /\ c.step = "name"
    <3>1. n \in 1 .. Size
      BY <1>1, <1>3
    <3> HIDE DEF n
    <3> QED BY <3>1 DEF Sweeps
  <2> HIDE DEF c
  <2>3. c \in Pending /\ c \notin Lookups /\ Agrees(c, th, gil, data, overlapped)
    BY <2>2 DEF Pending, Lookups, Agrees
  <2> QED BY <1>2, <2>1, <2>3, GoesOn
<1>4. CASE ~(call[th].slot < Size)
  <2> DEFINE c == [step |-> "ensure", self |-> call[th].self, name |-> call[th].name]
  <2>1. c \in Asks /\ c.step = "ensure"
    BY <1>1 DEF Asks
  <2>2. call' = [call EXCEPT ![th] = c]
    BY <1>4 DEF NextSlot
  <2> HIDE DEF c
  <2>3. c \in Pending /\ c \notin Lookups /\ Agrees(c, th, gil, data, overlapped)
    BY <2>1 DEF Pending, Lookups, Agrees
  <2> QED BY <1>2, <2>2, <2>3, GoesOn
<1> QED BY <1>3, <1>4

\* A function that is called has a first slot to be looked for in.
LEMMA FirstSlot ==
  ASSUME NEW f \in Functions
  PROVE  1 \in 1 .. Size
<1>1. Functions # {} /\ Cardinality(Functions) \in Nat
  BY SlotsAssumption, FS_CardinalityType
<1>2. Cardinality(Functions) # 0
  BY <1>1, SlotsAssumption, FS_EmptySet
<1> QED BY <1>1, <1>2, SlotsAssumption

LEMMA CallKeeps ==
  ASSUME IInv, NEW th \in Threads, NEW x \in Objs, NEW f \in Functions, Call(th, x, f)
  PROVE  IInv'
<1> DEFINE c == [step |-> "name", self |-> x, name |-> f, slot |-> 1]
<1>1. /\ call[th] = NoCall /\ call' = [call EXCEPT ![th] = c]
      /\ outcome' = [outcome EXCEPT ![th] = NoCall]
      /\ UNCHANGED <<data, tickets, gil, held, overlapped>>
  BY DEF Call
<1>2. c \in Sweeps /\ c.step = "name"
  BY FirstSlot DEF Sweeps
<1> HIDE DEF c
<1>3. c \in Pending /\ c \notin Lookups /\ Agrees(c, th, gil, data, overlapped)
  BY <1>2 DEF Pending, Lookups, Agrees
<1>4. call[th] \notin Lookups
  BY <1>1 DEF NoCall, Lookups
<1> QED BY <1>1, <1>3, <1>4, GoesOn

LEMMA SweepNameKeeps ==
  ASSUME IInv, NEW th \in Threads, SweepName(th)
  PROVE  IInv'
<1>1. /\ call[th].step = "name" /\ UNCHANGED <<data, tickets, gil, held, outcome, overlapped>>
      /\ IF SlotOf(th).name = call[th].name THEN call' = [call EXCEPT ![th].step = "value"] ELSE NextSlot(th)
  BY DEF SweepName
<1>2. call[th] \in Sweeps
  BY <1>1, PendingKinds DEF IInv, TypeOK
<1>3. CASE SlotOf(th).name = call[th].name
  <2> DEFINE c == [call[th] EXCEPT !.step = "value"]
  <2>1. /\ c \in Sweeps /\ c.step = "value" /\ c.self = call[th].self /\ c.name = call[th].name
        /\ c.slot = call[th].slot
    BY <1>2 DEF Sweeps
  <2>2. call' = [call EXCEPT ![th] = c]
    BY <1>1, <1>3 DEF IInv, TypeOK
  <2> HIDE DEF c
  <2>3. data[c.self][c.slot].name = c.name
    BY <1>3, <2>1 DEF SlotOf
  <2>4. c \in Pending /\ c \notin Lookups /\ Agrees(c, th, gil, data, overlapped)
    BY <2>1, <2>3 DEF Pending, Lookups, Agrees
  <2>5. call[th] \notin Lookups
    BY <1>1 DEF Lookups
  <2> QED BY <1>1, <2>2, <2>4, <2>5, GoesOn
<1>4. CASE SlotOf(th).name # call[th].name
  BY <1>1, <1>2, <1>4, NextSlotGoesOn
<1> QED BY <1>3, <1>4

LEMMA SweepValueKeeps ==
  ASSUME IInv, NEW th \in Threads, SweepValue(th)
  PROVE  IInv'
<1> DEFINE x == call[th].self
           v == SlotOf(th).value
<1>1. /\ call[th].step = "value" /\ UNCHANGED <<data, tickets, gil, held, overlapped>>
  BY DEF SweepValue
<1>2. call[th] \in Sweeps /\ call[th] # NoCall
  BY <1>1, PendingKinds DEF IInv, TypeOK
<1>3. x \in Objs /\ call[th].name \in Functions /\ call[th].slot \in 1 .. Size
  BY <1>2 DEF Sweeps
<1>4. x \notin overlapped /\ v # "null" =>
        v = IF call[th].name \in Overridden[x] THEN call[th].name ELSE "None"
  <2> SUFFICES ASSUME x \notin overlapped, v # "null"
               PROVE  v = IF call[th].name \in Overridden[x] THEN call[th].name ELSE "None"
    OBVIOUS
  <2> DEFINE s == data[x][call[th].slot]
  <2>1. s.name = call[th].name
    BY <1>1 DEF IInv, Told, Agrees
  <2>2. \A t \in Threads : ~Writes(call[t], x, call[th].slot)
    BY DEF IInv, Told, Agrees, Writes, SlotOf
  <2>3. Tells(x, s)
    BY <1>3, <2>2 DEF IInv, Cached
  <2>4. s # Empty
    BY <1>3, <2>1, NamesAssumption DEF Empty
  <2> QED BY <2>1, <2>3, <2>4 DEF Tells, SlotOf
<1>5. CASE v = "null"
  <2>1. NextSlot(th) /\ UNCHANGED outcome
    BY <1>5, NamesAssumption DEF SweepValue
  <2> QED BY <1>1, <1>2, <2>1, NextSlotGoesOn
<1>6. CASE v = "None"
  <2>1. ToBase(th, FALSE)
    BY <1>6, NamesAssumption DEF SweepValue
  <2>2. \/ call[th].name \notin Overridden[x]
        \/ x \in overlapped
    BY <1>3, <1>4, <1>6, NamesAssumption
  <2> QED BY <1>1, <1>2, <2>1, <2>2, BaseKeepsLock
<1>7. CASE v \in Functions
  <2> DEFINE c == [step |-> "swept", self |-> x, name |-> call[th].name, key |-> v]
  <2>1. call' = [call EXCEPT ![th] = c] /\ UNCHANGED outcome
    BY <1>7, NamesAssumption DEF SweepValue
  <2>2. c \in Founds /\ c.step = "swept" /\ c.self = x /\ c.name = call[th].name /\ c.key = v
    BY <1>3, <1>7 DEF Founds
  <2>3. x \notin overlapped => v = call[th].name /\ call[th].name \in Overridden[x]
    BY <1>4, <1>7, NamesAssumption
  <2> HIDE DEF c, v
  <2>4. c \in Pending /\ c \notin Lookups /\ Agrees(c, th, gil, data, overlapped)
    BY <2>2, <2>3 DEF Pending, Lookups, Agrees
  <2>5. call[th] \notin Lookups
    BY <1>1 DEF Lookups
  <2> QED BY <1>1, <2>1, <2>4, <2>5, GoesOn
<1>8. v \in CacheValues
  BY <1>3 DEF IInv, TypeOK, CacheSlots, SlotOf
<1> QED BY <1>5, <1>6, <1>7, <1>8 DEF CacheValues

LEMMA EnterSweptKeeps ==
  ASSUME IInv, NEW th \in Threads, EnterSwept(th)
  PROVE  IInv'
<1>1. /\ call[th].step = "swept" /\ gil \in {NoThread, th} /\ UNCHANGED <<data, overlapped>>
      /\ Enter(th, More(th), call[th].key, FALSE)
  BY DEF EnterSwept
<1>2. call[th] \in Founds /\ call[th] # NoCall
  BY <1>1, PendingKinds DEF IInv, TypeOK
<1>3. call[th].key \in Functions
  BY <1>2 DEF Founds
<1>4. \/ call[th].key = call[th].name /\ call[th].name \in Overridden[call[th].self]
      \/ call[th].self \in overlapped
  BY <1>1 DEF IInv, Told, Agrees
<1>5. More(th) = [held EXCEPT ![th] = Len(tickets[th]) + 1]
  BY <1>1, HeldByOverrides
<1>6. \E t \in Seq(Tickets), k \in Nat, o \in Made : Concludes(th, t, k, o)
  BY <1>1, <1>2, <1>3, <1>4, <1>5, EnterConcludes
<1> QED BY <1>1, <1>6, DecidedBySlots

LEMMA EnsureKeeps ==
  ASSUME IInv, NEW th \in Threads, Ensure(th)
  PROVE  IInv'
<1>1. call[th].step = "ensure" /\ gil \in {NoThread, th} /\ UNCHANGED data
  BY DEF Ensure
<1>2. call[th] \in Asks /\ call[th] # NoCall
  BY <1>1, PendingKinds DEF IInv, TypeOK
<1>3. \A u \in Threads : call[u].step # "store"
  BY <1>1, NobodyWrites
<1>4. CASE Hits(th) # {} /\ Hit(th) = "None"
  <2>1. ToBase(th, TRUE) /\ UNCHANGED <<tickets, gil, held, data, overlapped>>
    BY <1>1, <1>4 DEF Ensure, BaseReleases
  <2>2. call[th].name \notin Overridden[call[th].self]
    BY <1>2, <1>3, <1>4, HitTells
  <2> QED BY <1>1, <1>2, <2>1, <2>2, BaseKeepsLock
<1>5. CASE Hits(th) # {} /\ Hit(th) # "None"
  <2>1. Enter(th, More(th), Hit(th), TRUE) /\ UNCHANGED <<data, overlapped>>
    BY <1>1, <1>5 DEF Ensure
  <2>2. Hit(th) \in Functions /\ Hit(th) = call[th].name /\ call[th].name \in Overridden[call[th].self]
    BY <1>2, <1>3, <1>5, HitTells
  <2>3. More(th) = [held EXCEPT ![th] = Len(tickets[th]) + 1]
    BY <1>1, HeldByOverrides
  <2>4. \E t \in Seq(Tickets), k \in Nat, o \in Made : Concludes(th, t, k, o)
    BY <1>2, <2>1, <2>2, <2>3, EnterConcludes
  <2> QED BY <1>1, <2>1, <2>4, DecidedBySlots
<1>6. CASE Hits(th) = {} /\ FreeSlots(call[th].self) = {}
  <2>1. Ends(th, "no slots", "None", TRUE) /\ UNCHANGED <<tickets, gil, held, data, overlapped>>
    BY <1>1, <1>6 DEF Ensure, BaseReleases
  <2>2. call[th].self \in overlapped
    BY <1>2, <1>3, <1>6, SlotsSuffice
  <2>3. tickets[th] \in Seq(Tickets) /\ Len(tickets[th]) \in Nat /\ held[th] = Len(tickets[th])
    BY <1>1, HeldByOverrides
  <2>4. held' = [held EXCEPT ![th] = Len(tickets[th])]
    BY <2>1, <2>3 DEF IInv, TypeOK
  <2>5. gil' \in {gil, th, NoThread} /\ (gil' = th => Len(tickets[th]) > 0)
    BY <2>1, <2>3, ThreadsAssumption DEF IInv, LockBalanced, NoThread
  <2>6. \E o \in Made : Concludes(th, tickets[th], Len(tickets[th]), o)
    BY <1>2, <2>1, <2>2, <2>4, <2>5, FailureConcludes
  <2> QED BY <1>1, <2>1, <2>3, <2>6, DecidedBySlots
<1>7. CASE Hits(th) = {} /\ FreeSlots(call[th].self) # {}
  <2> DEFINE c == [step |-> "lookup", self |-> call[th].self, name |-> call[th].name,
                   slot |-> Min(FreeSlots(call[th].self))]
             k == Len(tickets[th]) + 1
  <2>1. /\ Ensured(th) /\ call' = [call EXCEPT ![th] = c]
        /\ overlapped' = IF Overlaps(th) THEN overlapped \union {call[th].self} ELSE overlapped
        /\ UNCHANGED <<tickets, outcome, data>>
    BY <1>1, <1>7 DEF Ensure
  <2>2. c.step = "lookup" /\ Holding(c) = 1
    BY DEF Holding
  <2>3. /\ c \in Lookups /\ overlapped' \in SUBSET Objs /\ overlapped \subseteq overlapped'
        /\ Cached' /\ Told' /\ Apart'
    BY <1>2, <1>3, <1>7, <2>1, LookupBegins
  <2> HIDE DEF c
  <2>4. c \in Pending
    BY <2>3 DEF Pending
  <2>5. /\ tickets[th] \in Seq(Tickets) /\ Len(tickets[th]) \in Nat
        /\ More(th) = [held EXCEPT ![th] = k]
    BY <1>1, HeldByOverrides
  <2>6. k \in Nat /\ k > 0 /\ k = Len(tickets[th]) + Holding(c)
    BY <2>2, <2>5
  <2>7. /\ tickets' = [tickets EXCEPT ![th] = tickets[th]] /\ held' = [held EXCEPT ![th] = k]
        /\ gil' = th
        /\ outcome' = [outcome EXCEPT ![th] = outcome[th]] /\ outcome[th] \in {NoCall} \cup Made
        /\ data' \in [Objs -> [1 .. Size -> CacheSlots]]
    BY <2>1, <2>5 DEF IInv, TypeOK, Ensured, More
  <2> HIDE DEF k
  <2>8. outcome[th] # NoCall => Arrives(outcome[th], overlapped')
    <3>1. outcome[th] # NoCall => Arrives(outcome[th], overlapped)
      BY Zenon DEF IInv, CallsArrive, Arrives
    <3> QED BY <2>3, <3>1, Zenon DEF Arrives
  <2> QED BY <2>1, <2>3, <2>4, <2>5, <2>6, <2>7, <2>8, OneChanges
<1> QED BY <1>4, <1>5, <1>6, <1>7

\* A lookup that stores nothing.
LEMMA LookupEndsKeeps ==
  ASSUME IInv, NEW th \in Threads, LookupFails(th) \/ LookupPure(th)
  PROVE  IInv'
<1>1. /\ call[th].step = "lookup" /\ gil = th /\ ReleasedTo(Left(th), th)
      /\ UNCHANGED <<data, tickets, overlapped>>
  BY DEF LookupFails, LookupPure
<1>2. call[th] # NoCall
  BY <1>1 DEF NoCall
<1>3. /\ tickets[th] \in Seq(Tickets) /\ Len(tickets[th]) \in Nat
      /\ Left(th) = [held EXCEPT ![th] = Len(tickets[th])]
  BY <1>1, HeldByOverrides
<1>4. held' = [held EXCEPT ![th] = Len(tickets[th])]
      /\ gil' \in {gil, th, NoThread} /\ (gil' = th => Len(tickets[th]) > 0)
  BY <1>1, <1>3, ReleasedOnce
<1>5. \E o \in Made : Concludes(th, tickets[th], Len(tickets[th]), o)
  <2>1. CASE LookupFails(th)
    BY <1>1, <1>2, <1>4, <2>1, FailureConcludes DEF LookupFails
  <2>2. CASE LookupPure(th)
    <3>1. ToBase(th, TRUE) /\ call[th].name \notin Overridden[call[th].self]
      BY <2>2 DEF LookupPure, IsOverridden
    <3> QED BY <1>1, <1>2, <1>4, <3>1, BaseConcludes
  <2> QED BY <2>1, <2>2
<1> QED BY <1>1, <1>3, <1>5, DecidedBySlots

LEMMA StoreNameKeeps ==
  ASSUME IInv, NEW th \in Threads, StoreName(th)
  PROVE  IInv'
<1> DEFINE c == [call[th] EXCEPT !.step = "store"]
<1>1. call[th].step = "lookup" /\ gil = th /\ UNCHANGED <<tickets, gil, held, outcome, overlapped>>
  BY DEF StoreName
<1>2. /\ c \in Pending /\ call' = [call EXCEPT ![th] = c]
      /\ data' \in [Objs -> [1 .. Size -> CacheSlots]] /\ Cached' /\ Told' /\ Apart'
  BY NameStored
<1>3. call[th] \in Lookups
  BY <1>1, PendingKinds DEF IInv, TypeOK
<1>4. Holding(c) = 1
  BY <1>3 DEF Holding, Lookups
<1> HIDE DEF c
<1>5. tickets[th] \in Seq(Tickets) /\ Len(tickets[th]) + 1 \in Nat /\ Len(tickets[th]) + 1 > 0
  BY HeldByOverrides
<1>6. held = [held EXCEPT ![th] = Len(tickets[th]) + 1]
  BY <1>1, HeldByOverrides
<1>7. /\ tickets' = [tickets EXCEPT ![th] = tickets[th]]
      /\ held' = [held EXCEPT ![th] = Len(tickets[th]) + 1]
      /\ outcome' = [outcome EXCEPT ![th] = outcome[th]] /\ outcome[th] \in {NoCall} \cup Made
      /\ gil' \in {gil, th, NoThread} /\ overlapped' \in SUBSET Objs /\ overlapped \subseteq overlapped'
  BY <1>1, <1>6 DEF IInv, TypeOK
<1>8. outcome[th] # NoCall => Arrives(outcome[th], overlapped')
  BY <1>1, Zenon DEF IInv, CallsArrive, Arrives
<1>9. Len(tickets[th]) + 1 = Len(tickets[th]) + Holding(c)
  BY <1>4
<1> QED BY <1>2, <1>5, <1>7, <1>8, <1>9, OneChanges

LEMMA StoreValueKeeps ==
  ASSUME IInv, NEW th \in Threads, StoreValue(th)
  PROVE  IInv'
<1> DEFINE x == call[th].self
           f == call[th].name
           s == call[th].slot
           r == IF f \in Overridden[x] THEN f ELSE "None"
           v == [data[x][s] EXCEPT !.value = r]
<1>1. /\ call[th].step = "store" /\ gil = th /\ UNCHANGED overlapped
      /\ data' = [data EXCEPT ![x][s].value = r]
      /\ IF f \in Overridden[x] THEN Enter(th, held, f, TRUE)
         ELSE ReleasedTo(Left(th), th) /\ ToBase(th, TRUE) /\ UNCHANGED tickets
  BY DEF StoreValue, IsOverridden
<1>2. call[th] \in Lookups /\ call[th] # NoCall
  BY <1>1, PendingKinds DEF IInv, TypeOK
<1>3. x \in Objs /\ f \in Functions /\ s \in 1 .. Size
  BY <1>2 DEF Lookups
<1>4. v \in CacheSlots /\ v.name = f /\ v.value = r
  <2>1. data[x][s] \in CacheSlots
    BY <1>3 DEF IInv, TypeOK
  <2>2. data[x][s].name = f
    BY <1>1 DEF IInv, Told, Agrees
  <2>3. r \in CacheValues
    BY <1>3 DEF CacheValues
  <2> HIDE DEF r, x, s, f
  <2> QED BY <2>1, <2>2, <2>3 DEF CacheSlots
<1>5. data' = [data EXCEPT ![x][s] = v]
  BY <1>1
<1>6. /\ tickets[th] \in Seq(Tickets) /\ Len(tickets[th]) \in Nat
      /\ held = [held EXCEPT ![th] = Len(tickets[th]) + 1]
      /\ Left(th) = [held EXCEPT ![th] = Len(tickets[th])]
  BY <1>1, HeldByOverrides
<1>7. \E t \in Seq(Tickets), k \in Nat, o \in Made : Concludes(th, t, k, o)
  <2>1. CASE f \in Overridden[x]
    BY <1>1, <1>2, <1>3, <1>6, <2>1, EnterConcludes
  <2>2. CASE f \notin Overridden[x]
    <3>1. ReleasedTo(Left(th), th) /\ ToBase(th, TRUE) /\ UNCHANGED tickets
      BY <1>1, <2>2
    <3>2. held' = [held EXCEPT ![th] = Len(tickets[th])]
          /\ gil' \in {gil, th, NoThread} /\ (gil' = th => Len(tickets[th]) > 0)
      BY <1>6, <3>1, ReleasedOnce
    <3>3. \E o \in Made : Concludes(th, tickets[th], Len(tickets[th]), o)
      BY <1>2, <2>2, <3>1, <3>2, BaseConcludes
    <3> QED BY <1>6, <3>3
  <2> QED BY <2>1, <2>2
<1>8. call' = [call EXCEPT ![th] = NoCall]
  BY <1>7 DEF Concludes
<1>9. data' \in [Objs -> [1 .. Size -> CacheSlots]] /\ Cached' /\ Told' /\ Apart'
  <2>1. v.value = IF f \in Overridden[x] THEN f ELSE "None"
    BY <1>4
  <2> HIDE DEF v, x, f, s
  <2>2. x = call[th].self /\ f = call[th].name /\ s = call[th].slot
    BY DEF x, f, s
  <2>3. v \in CacheSlots /\ v.name = f /\ call[th].step = "store" /\ UNCHANGED overlapped
    BY <1>1, <1>4
  <2> QED BY <1>5, <1>8, <2>1, <2>2, <2>3, ValueStored
<1> QED BY <1>1, <1>7, <1>9, Decided

LEMMA LeaveKeeps ==
  ASSUME IInv, NEW th \in Threads, Leave(th)
  PROVE  IInv'
<1> DEFINE k == Len(tickets[th]) - 1
<1>1. /\ call[th] = NoCall /\ tickets[th] # <<>> /\ gil = th
      /\ tickets' = [tickets EXCEPT ![th] = Front(tickets[th])]
      /\ ReleasedTo(Left(th), th)
      /\ outcome' = [outcome EXCEPT ![th] = NoCall]
      /\ UNCHANGED <<data, call, overlapped>>
  BY DEF Leave
<1>2. Front(tickets[th]) \in Seq(Tickets) /\ Len(Front(tickets[th])) = k /\ k \in Nat
  <2>1. tickets[th] \in Seq(Tickets) /\ Len(tickets[th]) \in Nat \ {0}
    <3>1. tickets[th] \in Seq(Tickets)
      BY DEF IInv, TypeOK
    <3> QED BY <1>1, <3>1
  <2>2. SubSeq(tickets[th], 1, k) \in Seq(Tickets) /\ Len(SubSeq(tickets[th], 1, k)) = k
    BY <2>1
  <2> QED BY <2>1, <2>2 DEF Front
<1>3. /\ NoCall \in Pending /\ NoCall \notin Lookups /\ NoCall.step = "none" /\ Holding(NoCall) = 0
      /\ Agrees(NoCall, th, gil', data, overlapped)
  BY DEF Pending, Lookups, NoCall, Holding, Agrees
<1>4. Left(th) = [held EXCEPT ![th] = k]
  BY <1>1, <1>3, HeldByOverrides DEF Left
<1> HIDE DEF k
<1>5. held' = [held EXCEPT ![th] = k] /\ gil' \in {gil, th, NoThread} /\ (gil' = th => k > 0)
  BY <1>1, <1>2, <1>4, ReleasedOnce
<1>6. call' = [call EXCEPT ![th] = NoCall]
      /\ overlapped' \in SUBSET Objs /\ overlapped \subseteq overlapped'
  BY <1>1 DEF IInv, TypeOK
<1>7. data' \in [Objs -> [1 .. Size -> CacheSlots]] /\ Cached' /\ Told' /\ Apart'
  <2>1. \A u \in Threads : call[u].step # "store"
    BY <1>1, <1>3, NobodyWrites
  <2> QED BY <1>1, <1>3, <1>6, <2>1, SlotsKept
<1>8. k = Len(Front(tickets[th])) + Holding(NoCall)
  BY <1>2, <1>3
<1>9. NoCall \in {NoCall} \cup Made /\ (NoCall # NoCall => Arrives(NoCall, overlapped'))
  OBVIOUS
<1> QED BY <1>1, <1>2, <1>3, <1>5, <1>6, <1>7, <1>8, <1>9, OneChanges

\* The lock changes hands while Python code runs; a thread that writes a slot runs none.
LEMMA HandOverKeeps ==
  ASSUME IInv, NEW th \in Threads, Yield(th) \/ Resume(th)
  PROVE  IInv'
<1>1. /\ UNCHANGED <<data, call, tickets, held, outcome, overlapped>>
      /\ gil \in {NoThread, th} /\ RunsPython(th)
      /\ gil' = NoThread \/ (gil' = th /\ held[th] > 0)
  BY DEF Yield, Resume
<1>2. call[th].step # "store"
  BY <1>1 DEF RunsPython, NoCall
<1>3. \A u \in Threads : call[u].step # "store"
  BY <1>1, <1>2, NobodyWrites
<1>4. TypeOK' /\ Apart' /\ CallsArrive'
  BY <1>1 DEF IInv, TypeOK, Apart, CallsArrive, GoesWhereDue
<1>5. LockBalanced'
  BY <1>1 DEF IInv, LockBalanced
<1>6. Cached'
  BY <1>1 DEF IInv, Cached, Tells, Writes, Empty
<1>7. Told'
  <2> SUFFICES ASSUME NEW u \in Threads PROVE Agrees(call[u], u, gil', data, overlapped)
    BY <1>1, Zenon DEF Told
  <2>1. Agrees(call[u], u, gil, data, overlapped) /\ call[u].step # "store"
    BY <1>3, Zenon DEF IInv, Told
  <2> QED BY <2>1 DEF Agrees
<1> QED BY <1>4, <1>5, <1>6, <1>7 DEF IInv

\* Every step of a thread keeps the invariant.
LEMMA Inductive == IInv /\ [Next]_vars => IInv'
<1> SUFFICES ASSUME IInv, [Next]_vars PROVE IInv'
  OBVIOUS
<1>1. CASE UNCHANGED vars
  <2>1. UNCHANGED <<data, call, tickets, gil, held, outcome, overlapped>>
    BY <1>1 DEF vars
  <2>2. TypeOK' /\ LockBalanced' /\ Apart' /\ Told'
    BY <2>1 DEF IInv, TypeOK, LockBalanced, Apart, Told
  <2>3. CallsArrive'
    BY <2>1, Zenon DEF IInv, CallsArrive, GoesWhereDue
  <2>4. Cached'
    BY <2>1 DEF IInv, Cached, Tells, Writes, Empty
  <2> QED BY <2>2, <2>3, <2>4 DEF IInv
<1>2. CASE Next
  <2>1. PICK th \in Threads :
          \/ \E x \in Objs, f \in Functions : Call(th, x, f)
          \/ SweepName(th) \/ SweepValue(th) \/ EnterSwept(th) \/ Ensure(th)
          \/ LookupFails(th) \/ LookupPure(th) \/ StoreName(th) \/ StoreValue(th)
          \/ Leave(th) \/ Yield(th) \/ Resume(th)
    BY <1>2, Zenon DEF Next
  <2> QED BY <2>1, CallKeeps, SweepNameKeeps, SweepValueKeeps, EnterSweptKeeps, EnsureKeeps,
             LookupEndsKeeps, StoreNameKeeps, StoreValueKeeps, LeaveKeeps, HandOverKeeps
<1> QED BY <1>1, <1>2

\* However threads call each other's objects, and while lookups store in the slots what the
\* sweeps of others read, the lock is given back as often as it was taken, and a virtual call
\* goes to Python's override where there is one, else to the base, if it had the lock when it
\* was decided or lookups for its object have not overlapped (trampoline.cpp:34, 148).
THEOREM CallsGoWhereDue == Spec => []OverridesCalled
<1>1. IInv => OverridesCalled
  BY DEF IInv, OverridesCalled
<1> QED BY <1>1, Initially, Inductive, PTL DEF Spec

-----------------------------------------------------------------------------
(* The low-level interface to instances, however its functions follow each other. *)

States == {"none", "uninitialized", "ready", "relinquished"}
Sides  == {"object", "memory"}
Fields == [internal : BOOLEAN, state : States, destruct : BOOLEAN, cpp_delete : BOOLEAN]

LowTypeOK ==
  /\ inst \in [Handles -> Fields]
  /\ lives \in [Handles -> {0, 1}]
  /\ cpp \in [Handles -> SUBSET Sides]
  /\ stale \in BOOLEAN

\* What DestroyedOnce says of one instance with fields f, n objects at its address and what
\* C++ has there, and that the fields of no instance say nothing.
Sound(f, n, c) ==
  /\ n = Who(f.destruct) + Who("object" \in c)
  /\ f.state # "none" /\ ~f.internal => (f.cpp_delete <=> "memory" \notin c)
  /\ f.internal => ~f.cpp_delete /\ "memory" \notin c
  /\ f.state = "ready" => n = 1
  /\ f.state = "none" => f = NoInst /\ ("object" \in c => "memory" \in c)

LowIInv ==
  /\ LowTypeOK
  /\ \A i \in Handles : Sound(inst[i], lives[i], cpp[i])
  /\ ~stale

\* Nothing exists yet.
LEMMA LowInitially == LowInit => LowIInv
<1> SUFFICES ASSUME LowInit PROVE LowIInv
  OBVIOUS
<1>1. NoInst \in Fields
  BY DEF NoInst, Fields, States
<1>2. LowTypeOK
  BY <1>1, Zenon DEF LowInit, LowTypeOK, Sides
<1>3. \A i \in Handles : Sound(inst[i], lives[i], cpp[i])
  <2>1. Sound(NoInst, 0, {})
    BY DEF Sound, NoInst, Who
  <2> QED BY <2>1, Zenon DEF LowInit
<1> QED BY <1>2, <1>3 DEF LowInit, LowIInv

\* A function changes one instance, its objects and what C++ has there; the rest of the
\* state is as sound as it was.
LEMMA OneInstanceChanges ==
  ASSUME LowIInv, NEW i \in Handles, NEW f \in Fields, NEW n \in {0, 1}, NEW c \in SUBSET Sides,
         inst' = [inst EXCEPT ![i] = f],
         lives' = [lives EXCEPT ![i] = n],
         cpp' = [cpp EXCEPT ![i] = c],
         Sound(f, n, c),
         stale' = FALSE
  PROVE  LowIInv'
<1>1. LowTypeOK'
  BY DEF LowIInv, LowTypeOK
<1>2. ASSUME NEW j \in Handles
      PROVE  Sound(inst'[j], lives'[j], cpp'[j])
  <2>1. CASE j = i
    <3>1. inst'[j] = f /\ lives'[j] = n /\ cpp'[j] = c
      BY <2>1 DEF LowIInv, LowTypeOK
    <3> QED BY <3>1, Zenon
  <2>2. CASE j # i
    <3>1. inst'[j] = inst[j] /\ lives'[j] = lives[j] /\ cpp'[j] = cpp[j]
      BY <2>2 DEF LowIInv, LowTypeOK
    <3> QED BY <3>1, Zenon DEF LowIInv
  <2> QED BY <2>1, <2>2
<1> QED BY <1>1, <1>2, Zenon DEF LowIInv

\* Every function, called as the documentation asks, keeps the invariant.
LEMMA LowInductive == LowIInv /\ [LowNext]_lowVars => LowIInv'
<1> SUFFICES ASSUME LowIInv, LowNext PROVE LowIInv'
  BY DEF lowVars, LowIInv, LowTypeOK
<1> SUFFICES ASSUME NEW i \in Handles,
                    \/ CppNew(i) \/ Construct(i) \/ CppDestroy(i) \/ CppFree(i)
                    \/ nb_inst_alloc(i) \/ nb_inst_reference(i) \/ nb_inst_take_ownership(i) \/ inst_dealloc(i)
                    \/ nb_inst_alloc_zero(i) \/ nb_inst_zero(i) \/ Relinquish(i) \/ nb_inst_destruct(i)
                    \/ \E ready, destruct \in BOOLEAN : nb_inst_set_state(i, ready, destruct)
                    \/ \E src \in Handles :
                         \/ nb_inst_copy(i, src) \/ nb_inst_move(i, src)
                         \/ nb_inst_replace_copy(i, src) \/ nb_inst_replace_move(i, src)
             PROVE  LowIInv'
  BY DEF LowNext
<1> DEFINE f == inst[i]
           n == lives[i]
           c == cpp[i]
<1>0. /\ f \in Fields /\ n \in {0, 1} /\ c \in SUBSET Sides /\ Sound(f, n, c) /\ stale = FALSE
      /\ inst = [inst EXCEPT ![i] = f] /\ lives = [lives EXCEPT ![i] = n] /\ cpp = [cpp EXCEPT ![i] = c]
  BY DEF LowIInv, LowTypeOK
<1>1. CASE CppNew(i)
  <2> DEFINE d == Sides
             m == 1
  <2>2. n = 0
    BY <1>0, <1>1 DEF CppNew, Exists, Sound, Who, NoInst, Fields
  <2>3. /\ inst' = [inst EXCEPT ![i] = f] /\ lives' = [lives EXCEPT ![i] = m]
        /\ cpp' = [cpp EXCEPT ![i] = d] /\ stale' = FALSE
    BY <1>0, <1>1, <2>2 DEF CppNew, Sides
  <2>4. d \in SUBSET Sides /\ m \in {0, 1} /\ Sound(f, m, d)
    BY <1>0, <1>1, <2>2 DEF CppNew, Exists, Sound, Who, Sides, NoInst, Fields, States
  <2> HIDE DEF d, m
  <2> QED BY <1>0, <2>3, <2>4, OneInstanceChanges
<1>2. CASE Construct(i)
  <2> DEFINE d == c \cup {"object"}
             m == 1
  <2>2. n = 0
    BY <1>0, <1>2 DEF Construct, Exists, Sound, Who, NoInst, Fields
  <2>3. /\ inst' = [inst EXCEPT ![i] = f] /\ lives' = [lives EXCEPT ![i] = m]
        /\ cpp' = [cpp EXCEPT ![i] = d] /\ stale' = FALSE
    BY <1>0, <1>2, <2>2 DEF Construct, Sides
  <2>4. d \in SUBSET Sides /\ m \in {0, 1} /\ Sound(f, m, d)
    BY <1>0, <1>2, <2>2 DEF Construct, Exists, Sound, Who, Sides, NoInst, Fields, States
  <2> HIDE DEF d, m
  <2> QED BY <1>0, <2>3, <2>4, OneInstanceChanges
<1>3. CASE CppDestroy(i)
  <2> DEFINE d == c \ {"object"}
             m == 0
  <2>2. n = 1
    BY <1>0, <1>3 DEF CppDestroy, Exists, Sound, Who, NoInst, Fields
  <2>3. /\ inst' = [inst EXCEPT ![i] = f] /\ lives' = [lives EXCEPT ![i] = m]
        /\ cpp' = [cpp EXCEPT ![i] = d] /\ stale' = FALSE
    BY <1>0, <1>3, <2>2 DEF CppDestroy, Sides
  <2>4. d \in SUBSET Sides /\ m \in {0, 1} /\ Sound(f, m, d)
    BY <1>0, <1>3, <2>2 DEF CppDestroy, Exists, Sound, Who, Sides, NoInst, Fields, States
  <2> HIDE DEF d, m
  <2> QED BY <1>0, <2>3, <2>4, OneInstanceChanges
<1>4. CASE CppFree(i)
  <2> DEFINE d == {}
             m == n
  <2>3. /\ inst' = [inst EXCEPT ![i] = f] /\ lives' = [lives EXCEPT ![i] = m]
        /\ cpp' = [cpp EXCEPT ![i] = d] /\ stale' = FALSE
    BY <1>0, <1>4 DEF CppFree, Sides
  <2>4. d \in SUBSET Sides /\ m \in {0, 1} /\ Sound(f, m, d)
    BY <1>0, <1>4 DEF CppFree, Exists, Sound, Who, Sides, NoInst, Fields, States
  <2> HIDE DEF d, m
  <2> QED BY <1>0, <2>3, <2>4, OneInstanceChanges
<1>5. CASE nb_inst_alloc(i)
  <2> DEFINE g == [NoInst EXCEPT !.internal = TRUE, !.state = "uninitialized"]
             d == c
             m == n
  <2>1. g \in Fields /\ g.internal /\ g.state = "uninitialized" /\ ~g.destruct /\ ~g.cpp_delete
    BY <1>0 DEF Fields, States, NoInst
  <2>3. /\ inst' = [inst EXCEPT ![i] = g] /\ lives' = [lives EXCEPT ![i] = m]
        /\ cpp' = [cpp EXCEPT ![i] = d] /\ stale' = FALSE
    BY <1>0, <1>5 DEF nb_inst_alloc, Sides
  <2> HIDE DEF g
  <2>4. d \in SUBSET Sides /\ m \in {0, 1} /\ Sound(g, m, d)
    BY <1>0, <1>5, <2>1 DEF nb_inst_alloc, Exists, Sound, Who, Sides, NoInst, Fields, States
  <2> HIDE DEF d, m
  <2> QED BY <1>0, <2>1, <2>3, <2>4, OneInstanceChanges
<1>6. CASE nb_inst_reference(i)
  <2> DEFINE g == [NoInst EXCEPT !.state = "ready"]
             d == c
             m == n
  <2>1. g \in Fields /\ ~g.internal /\ g.state = "ready" /\ ~g.destruct /\ ~g.cpp_delete
    BY <1>0 DEF Fields, States, NoInst
  <2>3. /\ inst' = [inst EXCEPT ![i] = g] /\ lives' = [lives EXCEPT ![i] = m]
        /\ cpp' = [cpp EXCEPT ![i] = d] /\ stale' = FALSE
    BY <1>0, <1>6 DEF nb_inst_reference, Sides
  <2> HIDE DEF g
  <2>4. d \in SUBSET Sides /\ m \in {0, 1} /\ Sound(g, m, d)
    BY <1>0, <1>6, <2>1 DEF nb_inst_reference, Exists, Sound, Who, Sides, NoInst, Fields, States
  <2> HIDE DEF d, m
  <2> QED BY <1>0, <2>1, <2>3, <2>4, OneInstanceChanges
<1>7. CASE nb_inst_take_ownership(i)
  <2> DEFINE g == [NoInst EXCEPT !.state = "ready", !.destruct = TRUE, !.cpp_delete = TRUE]
             d == {}
             m == n
  <2>1. g \in Fields /\ ~g.internal /\ g.state = "ready" /\ g.destruct /\ g.cpp_delete
    BY <1>0 DEF Fields, States, NoInst
  <2>3. /\ inst' = [inst EXCEPT ![i] = g] /\ lives' = [lives EXCEPT ![i] = m]
        /\ cpp' = [cpp EXCEPT ![i] = d] /\ stale' = FALSE
    BY <1>0, <1>7 DEF nb_inst_take_ownership, Sides
  <2> HIDE DEF g
  <2>4. d \in SUBSET Sides /\ m \in {0, 1} /\ Sound(g, m, d)
    BY <1>0, <1>7, <2>1 DEF nb_inst_take_ownership, Exists, Sound, Who, Sides, NoInst, Fields, States
  <2> HIDE DEF d, m
  <2> QED BY <1>0, <2>1, <2>3, <2>4, OneInstanceChanges
<1>8. CASE inst_dealloc(i)
  <2> DEFINE g == NoInst
             d == c
             m == IF f.destruct THEN 0 ELSE n
  <2>1. g \in Fields /\ ~g.internal /\ g.state = "none" /\ ~g.destruct /\ ~g.cpp_delete /\ g = NoInst
    BY <1>0 DEF Fields, States, NoInst
  <2>2. f.destruct => n = 1
    BY <1>0, <1>8 DEF inst_dealloc, Exists, Sound, Who, NoInst, Fields
  <2>3. /\ inst' = [inst EXCEPT ![i] = g] /\ lives' = [lives EXCEPT ![i] = m]
        /\ cpp' = [cpp EXCEPT ![i] = d] /\ stale' = FALSE
    <3>1. CASE f.destruct
      <4>1. m = 0 /\ lives[i] - 1 = 0
        BY <2>2, <3>1
      <4> HIDE DEF m
      <4>2. lives' = [lives EXCEPT ![i] = lives[i] - 1]
        BY <1>8, <3>1, Zenon DEF inst_dealloc
      <4> QED BY <1>0, <1>8, <4>1, <4>2 DEF inst_dealloc
    <3>2. CASE ~f.destruct
      BY <1>0, <1>8, <3>2 DEF inst_dealloc
    <3> QED BY <3>1, <3>2
  <2> HIDE DEF g
  <2>4. d \in SUBSET Sides /\ m \in {0, 1} /\ Sound(g, m, d)
    BY <1>0, <1>8, <2>1, <2>2 DEF inst_dealloc, Exists, Sound, Who, Sides, NoInst, Fields, States
  <2> HIDE DEF d, m
  <2> QED BY <1>0, <2>1, <2>3, <2>4, OneInstanceChanges
<1>9. CASE nb_inst_alloc_zero(i)
  <2> DEFINE g == Filled([NoInst EXCEPT !.internal = TRUE])
             d == c
             m == 1
  <2>1. g \in Fields /\ g.internal /\ g.state = "ready" /\ g.destruct /\ ~g.cpp_delete
    BY <1>0 DEF Fields, States, Filled, NoInst
  <2>2. n = 0
    BY <1>0, <1>9 DEF nb_inst_alloc_zero, Exists, Sound, Who, NoInst, Fields
  <2>3. /\ inst' = [inst EXCEPT ![i] = g] /\ lives' = [lives EXCEPT ![i] = m]
        /\ cpp' = [cpp EXCEPT ![i] = d] /\ stale' = FALSE
    BY <1>0, <1>9, <2>2 DEF nb_inst_alloc_zero, Sides
  <2> HIDE DEF g
  <2>4. d \in SUBSET Sides /\ m \in {0, 1} /\ Sound(g, m, d)
    BY <1>0, <1>9, <2>1, <2>2 DEF nb_inst_alloc_zero, Exists, Sound, Who, Sides, NoInst, Fields, States
  <2> HIDE DEF d, m
  <2> QED BY <1>0, <2>1, <2>3, <2>4, OneInstanceChanges
<1>10. CASE nb_inst_zero(i)
  <2> DEFINE g == Filled(f)
             d == c
             m == 1
  <2>1. g \in Fields /\ g.internal = f.internal /\ g.state = "ready" /\ g.destruct /\ g.cpp_delete = f.cpp_delete
    BY <1>0 DEF Fields, States, Filled
  <2>3. /\ inst' = [inst EXCEPT ![i] = g] /\ lives' = [lives EXCEPT ![i] = m]
        /\ cpp' = [cpp EXCEPT ![i] = d] /\ stale' = FALSE
    BY <1>0, <1>10 DEF nb_inst_zero, Sides
  <2> HIDE DEF g
  <2>4. d \in SUBSET Sides /\ m \in {0, 1} /\ Sound(g, m, d)
    BY <1>0, <1>10, <2>1 DEF nb_inst_zero, Exists, Sound, Who, Sides, NoInst, Fields, States
  <2> HIDE DEF d, m
  <2> QED BY <1>0, <2>1, <2>3, <2>4, OneInstanceChanges
<1>11. CASE Relinquish(i)
  <2> DEFINE g == [f EXCEPT !.state = "relinquished", !.destruct = FALSE, !.cpp_delete = FALSE]
             d == Sides
             m == n
  <2>1. g \in Fields /\ g.internal = f.internal /\ g.state = "relinquished" /\ ~g.destruct /\ ~g.cpp_delete
    BY <1>0 DEF Fields, States
  <2>3. /\ inst' = [inst EXCEPT ![i] = g] /\ lives' = [lives EXCEPT ![i] = m]
        /\ cpp' = [cpp EXCEPT ![i] = d] /\ stale' = FALSE
    BY <1>0, <1>11 DEF Relinquish, Sides
  <2> HIDE DEF g
  <2>4. d \in SUBSET Sides /\ m \in {0, 1} /\ Sound(g, m, d)
    BY <1>0, <1>11, <2>1 DEF Relinquish, Exists, Sound, Who, Sides, NoInst, Fields, States
  <2> HIDE DEF d, m
  <2> QED BY <1>0, <2>1, <2>3, <2>4, OneInstanceChanges
<1>12. CASE nb_inst_destruct(i)
  <2> DEFINE g == Emptied(f)
             d == c
             m == IF f.destruct THEN 0 ELSE n
  <2>1. g \in Fields /\ g.internal = f.internal /\ g.state = "uninitialized" /\ ~g.destruct /\ g.cpp_delete = f.cpp_delete
    BY <1>0 DEF Fields, States, Emptied
  <2>2. f.destruct => n = 1
    BY <1>0, <1>12 DEF nb_inst_destruct, Exists, Sound, Who, NoInst, Fields
  <2>3. /\ inst' = [inst EXCEPT ![i] = g] /\ lives' = [lives EXCEPT ![i] = m]
        /\ cpp' = [cpp EXCEPT ![i] = d] /\ stale' = FALSE
    <3>1. CASE f.destruct
      <4>1. m = 0 /\ lives[i] - 1 = 0
        BY <2>2, <3>1
      <4> HIDE DEF m
      <4>2. lives' = [lives EXCEPT ![i] = lives[i] - 1]
        BY <1>12, <3>1, Zenon DEF nb_inst_destruct
      <4> QED BY <1>0, <1>12, <4>1, <4>2 DEF nb_inst_destruct
    <3>2. CASE ~f.destruct
      BY <1>0, <1>12, <3>2 DEF nb_inst_destruct
    <3> QED BY <3>1, <3>2
  <2> HIDE DEF g
  <2>4. d \in SUBSET Sides /\ m \in {0, 1} /\ Sound(g, m, d)
    BY <1>0, <1>12, <2>1, <2>2 DEF nb_inst_destruct, Exists, Sound, Who, Sides, NoInst, Fields, States
  <2> HIDE DEF d, m
  <2> QED BY <1>0, <2>1, <2>3, <2>4, OneInstanceChanges
<1>13. ASSUME NEW ready \in BOOLEAN, NEW destruct \in BOOLEAN, nb_inst_set_state(i, ready, destruct)
      PROVE  LowIInv'
  <2> DEFINE g == [f EXCEPT !.state = IF ready THEN "ready" ELSE "uninitialized",
                            !.destruct = destruct, !.cpp_delete = Frees(f, destruct)]
             d == IF destruct THEN {} ELSE {x \in Sides : IF x = "object" THEN n = 1 ELSE ~f.internal}
  <2>1. /\ g \in Fields /\ g.internal = f.internal /\ (g.destruct <=> destruct)
        /\ g.state = (IF ready THEN "ready" ELSE "uninitialized")
        /\ (g.cpp_delete <=> destruct /\ ~f.internal)
    BY <1>0 DEF Fields, States, Frees
  <2>2. /\ inst' = [inst EXCEPT ![i] = g] /\ lives' = [lives EXCEPT ![i] = n]
        /\ cpp' = [cpp EXCEPT ![i] = d] /\ stale' = FALSE
    BY <1>0, <1>13 DEF nb_inst_set_state, Sides
  <2> HIDE DEF g
  <2>3. d \in SUBSET Sides /\ Sound(g, n, d)
    <3>1. d \in SUBSET Sides /\ ("object" \in d <=> ~destruct /\ n = 1)
          /\ ("memory" \in d <=> ~destruct /\ ~f.internal)
      BY DEF Sides
    <3> HIDE DEF d
    <3>2. f.state # "none" /\ (ready \/ destruct => n = 1) /\ n = Who(f.destruct) + Who("object" \in c)
      BY <1>0, <1>13 DEF nb_inst_set_state, Exists, Sound
    <3>3. n = Who(destruct) + Who("object" \in d)
      BY <1>0, <3>1, <3>2 DEF Who
    <3>5. n = Who(g.destruct) + Who("object" \in d)
      BY <2>1, <3>3 DEF Who
    <3>6. g.internal => ~g.cpp_delete /\ "memory" \notin d
      BY <2>1, <3>1
    <3>7. ~g.internal => (g.cpp_delete <=> "memory" \notin d)
      BY <2>1, <3>1
    <3>8. (g.state = "ready" => n = 1) /\ g.state # "none"
      BY <2>1, <3>2
    <3> QED BY <3>1, <3>5, <3>6, <3>7, <3>8 DEF Sound
  <2> HIDE DEF d
  <2> QED BY <1>0, <2>1, <2>2, <2>3, OneInstanceChanges
<1>14. ASSUME NEW src \in Handles, nb_inst_copy(i, src)
      PROVE  LowIInv'
  <2>1. src # i /\ lives[src] = 1
    BY <1>14 DEF nb_inst_copy, LowIInv, Sound
  <2> DEFINE g == Filled(f)
  <2>2. g \in Fields /\ g.internal = f.internal /\ g.state = "ready" /\ g.destruct /\ g.cpp_delete = f.cpp_delete
    BY <1>0 DEF Fields, States, Filled
  <2>3. /\ inst' = [inst EXCEPT ![i] = g] /\ lives' = [lives EXCEPT ![i] = 1]
        /\ cpp' = [cpp EXCEPT ![i] = c] /\ stale' = FALSE
    BY <1>0, <1>14, <2>1 DEF nb_inst_copy, Reads, LowIInv, LowTypeOK
  <2> HIDE DEF g
  <2>4. Sound(g, 1, c)
    BY <1>0, <1>14, <2>2 DEF nb_inst_copy, Sound, Who, Fields
  <2> QED BY <1>0, <2>2, <2>3, <2>4, OneInstanceChanges
<1>15. ASSUME NEW src \in Handles, nb_inst_replace_copy(i, src)
      PROVE  LowIInv'
  <2>1. CASE i = src
    BY <1>15, <2>1 DEF nb_inst_replace_copy, Distinct, LowIInv, LowTypeOK
  <2>2. CASE i # src
    <3> DEFINE g == [Filled(Emptied(f)) EXCEPT !.destruct = f.destruct]
    <3>1. n = 1 /\ lives[src] = 1
      BY <1>0, <1>15 DEF nb_inst_replace_copy, LowIInv, Sound
    <3>2. g \in Fields /\ Sound(g, 1, c)
      BY <1>0, <1>15, <3>1 DEF nb_inst_replace_copy, Sound, Who, Fields, States, Filled, Emptied
    <3>3. /\ inst' = [inst EXCEPT ![i] = g] /\ lives' = [lives EXCEPT ![i] = 1]
          /\ cpp' = [cpp EXCEPT ![i] = c] /\ stale' = FALSE
      BY <1>0, <1>15, <2>2, <3>1 DEF nb_inst_replace_copy, Distinct, LowIInv, LowTypeOK
    <3> HIDE DEF g
    <3> QED BY <1>0, <3>2, <3>3, OneInstanceChanges
  <2> QED BY <2>1, <2>2
<1> QED BY <1>1, <1>2, <1>3, <1>4, <1>5, <1>6, <1>7, <1>8, <1>9, <1>10, <1>11, <1>12, <1>13, <1>14, <1>15 DEF nb_inst_move, nb_inst_replace_move

\* However the functions follow each other, an object is destroyed by exactly one side, its
\* memory freed by exactly one, and nothing is constructed from what was destroyed
\* (nb_type.cpp:1952, 2026).
THEOREM DestroyedByOneSide == LowSpec => []DestroyedOnce
<1>1. LowIInv => DestroyedOnce
  BY DEF LowIInv, LowTypeOK, Sound, DestroyedOnce, Exists
<1> QED BY LowInitially, LowInductive, <1>1, PTL DEF LowSpec

-----------------------------------------------------------------------------
(* Types: the two tables agree with the types that exist, whatever order types are
   registered, looked up, extended and released in. *)

Flag == UNION {Flags[t] : t \in CppTypes}
List == Nat \X {"cpp", "py"}

Data == [info : Infos, kind : {"enum", "class", "python"}, base : Nat, alive : BOOLEAN,
         chain : Seq(Infos), flags : SUBSET Flag, implicit : SUBSET List]

Claim == [step : {"claimed", "made"}, info : Infos, base : Nat, stale : BOOLEAN]

TypesTypeOK ==
  /\ type_data \in Seq(Data)
  /\ DOMAIN slow \subseteq Nat \X CppTypes /\ \A t \in DOMAIN slow : slow[t] \in Nat
  /\ DOMAIN fast \subseteq Infos /\ \A i \in DOMAIN fast : fast[i] \in Nat
  /\ making \in [Importers -> Claim \union {Idle}]
  /\ freed \subseteq List
  /\ DOMAIN internals \subseteq Libs /\ \A l \in DOMAIN internals : internals[l] \in Nat \ {Null}

\* A type that exists is made from an older one that exists, whose flags it has.
Lineage ==
  \A d \in DOMAIN type_data :
    /\ type_data[d].base < d
    /\ type_data[d].kind = "python" => type_data[d].base # Null
    /\ Known(d) /\ type_data[d].base # Null =>
         /\ Known(type_data[d].base)
         /\ type_data[type_data[d].base].flags \intersect Inherited \subseteq type_data[d].flags

\* A list of implicit conversions names its owner, and is freed with it.
Owned ==
  /\ \A d \in DOMAIN type_data : \A l \in type_data[d].implicit : l[1] = d
  /\ \A l \in freed : ~Known(l[1]) /\ l[1] \in DOMAIN type_data

\* The thread that registers a type is the only one, and its base exists.
Claims ==
  \A th \in Importers : making[th] # Idle =>
    /\ making[th].base # Null => Known(making[th].base)
    /\ \A u \in Importers \ {th} :
         making[u] # Idle => NameIn(internals, making[u].info) # NameIn(internals, making[th].info)

Bound(d) == Known(d) /\ type_data[d].kind # "python"

\* The claims are in the slow table; what is found there, or in the fast table, is the
\* bound type that has the address among its entries.
SlowRight ==
  /\ \A th \in Importers : making[th] # Idle =>
       /\ NameIn(internals, making[th].info) \in DOMAIN slow
       /\ slow[NameIn(internals, making[th].info)] = Null
  /\ \A t \in DOMAIN slow :
       /\ slow[t] = Null => \E th \in Importers : making[th] # Idle /\ NameIn(internals, making[th].info) = t
       /\ slow[t] # Null => Bound(slow[t]) /\ NameIn(internals, type_data[slow[t]].info) = t

FastRight ==
  \A i \in DOMAIN fast :
    /\ Bound(fast[i]) /\ i \in Entries(fast[i])
    /\ NameIn(internals, i) \in DOMAIN slow /\ slow[NameIn(internals, i)] = fast[i]

\* A bound type is in both tables, under each of its addresses once.
EntriesKept ==
  \A d \in DOMAIN type_data : Bound(d) =>
    /\ NameIn(internals, type_data[d].info) \in DOMAIN slow /\ slow[NameIn(internals, type_data[d].info)] = d
    /\ \A e \in Entries(d) : e \in DOMAIN fast /\ fast[e] = d
    /\ IsFiniteSet(Entries(d)) /\ Cardinality(Entries(d)) = 1 + Len(type_data[d].chain)

Tables == SlowRight /\ FastRight /\ EntriesKept

\* Whoever is in the tables, or registers, is in a library that has loaded.
Placed ==
  /\ \A d \in DOMAIN type_data : type_data[d].info[1] \in DOMAIN internals
  /\ \A th \in Importers : making[th] # Idle => making[th].info[1] \in DOMAIN internals
  /\ \A i \in DOMAIN fast : i[1] \in DOMAIN internals

\* A type and its base use the same internals.
SameInternals(i, b) ==
  b # Null => b \in DOMAIN type_data /\ internals[type_data[b].info[1]] = internals[i[1]]

Kin ==
  /\ \A d \in DOMAIN type_data : SameInternals(type_data[d].info, type_data[d].base)
  /\ \A th \in Importers : making[th] # Idle => SameInternals(making[th].info, making[th].base)

\* A library makes internals once, and has none before.
Loader == [step : {"loading"}, lib : Libs]
Warned == [step : {"warned"}, info : Infos, stale : BOOLEAN]

LoadsRight ==
  /\ waiting \in [Importers -> {Idle} \union Loader \union Warned]
  /\ made \in Nat /\ registry \in Nat
  /\ \A th \in Importers : Loading(th) => waiting[th].lib \notin DOMAIN internals
  /\ \A th, o \in Importers : Loading(th) /\ Loading(o) /\ waiting[th].lib = waiting[o].lib => th = o

\* Without a race one module makes the internals, while there are none.
OneMakes ==
  ~raced =>
    /\ \A th, o \in Importers : Loading(th) /\ Loading(o) => th = o
    /\ \A th \in Importers : Loading(th) => DOMAIN internals = {} /\ registry = Null
    /\ \A l \in DOMAIN internals : internals[l] = registry

\* Internals that are deleted had no entries, and nothing runs after the first cleanup.
Buried ==
  /\ state # "exited" => deleted = {}
  /\ \A k \in deleted : \A n \in DOMAIN slow : n[1] # k

LoadIInv == Placed /\ Kin /\ LoadsRight /\ OneMakes /\ Buried

TypesIInv ==
  /\ TypesTypeOK /\ Lineage /\ Owned /\ Claims
  /\ state \in {"live", "exited"} => Tables
  /\ state # "not found"
  /\ LoadIInv

-----------------------------------------------------------------------------
(* The records of types *)

LEMMA Records ==
  ASSUME TypesTypeOK
  PROVE  /\ Len(type_data) \in Nat /\ DOMAIN type_data = 1..Len(type_data)
         /\ \A d \in DOMAIN type_data : d \in Nat /\ d # Null /\ type_data[d] \in Data
         /\ \A d : Known(d) => d \in DOMAIN type_data
<1>1. type_data \in Seq(Data)
  BY DEF TypesTypeOK
<1>2. Len(type_data) \in Nat /\ DOMAIN type_data = 1..Len(type_data)
  BY <1>1
<1>3. \A d \in DOMAIN type_data : d \in Nat /\ d # Null /\ type_data[d] \in Data
  BY <1>1, <1>2 DEF Null
<1>4. \A d : Known(d) => d \in DOMAIN type_data
  BY DEF Known
<1> QED BY <1>2, <1>3, <1>4

LEMMA RecordFields ==
  ASSUME TypesTypeOK, NEW d \in DOMAIN type_data
  PROVE  /\ type_data[d].info \in Infos /\ type_data[d].base \in Nat
         /\ type_data[d].kind \in {"enum", "class", "python"}
         /\ type_data[d].chain \in Seq(Infos) /\ type_data[d].flags \subseteq Flag
         /\ type_data[d].implicit \subseteq List /\ type_data[d].alive \in BOOLEAN
  BY Records DEF Data

LEMMA ClaimFields ==
  ASSUME TypesTypeOK, NEW th \in Importers
  PROVE  /\ making[th] # Idle => making[th] \in Claim
         /\ \A c \in Claim : c # Idle /\ c.info \in Infos /\ c.base \in Nat
                             /\ c.step \in {"claimed", "made"}
<1>1. making[th] \in Claim \union {Idle}
  BY DEF TypesTypeOK
<1>2. ASSUME NEW c \in Claim
      PROVE  c # Idle /\ c.info \in Infos /\ c.base \in Nat /\ c.step \in {"claimed", "made"}
  BY DEF Claim, Idle
<1> QED BY <1>1, <1>2

\* What the frame of a step that leaves the records alone is.
LEMMA RecordsKept ==
  ASSUME UNCHANGED type_data
  PROVE  \A d : (Known(d)' <=> Known(d)) /\ Entries(d)' = Entries(d) /\ (Bound(d)' <=> Bound(d))
  BY DEF Known, Entries, Bound

\* A new record leaves the others as they are.
LEMMA RecordAdded ==
  ASSUME TypesTypeOK, NEW r \in Data, type_data' = Append(type_data, r)
  PROVE  /\ type_data' \in Seq(Data)
         /\ DOMAIN type_data' = DOMAIN type_data \union {Len(type_data) + 1}
         /\ Len(type_data) + 1 \notin DOMAIN type_data /\ Len(type_data) + 1 # Null
         /\ type_data'[Len(type_data) + 1] = r
         /\ \A d \in DOMAIN type_data :
              /\ type_data'[d] = type_data[d] /\ (Known(d)' <=> Known(d))
              /\ Entries(d)' = Entries(d) /\ (Bound(d)' <=> Bound(d))
<1>1. type_data \in Seq(Data) /\ Len(type_data) \in Nat /\ DOMAIN type_data = 1..Len(type_data)
  BY Records DEF TypesTypeOK
<1>2. /\ type_data' \in Seq(Data) /\ Len(type_data') = Len(type_data) + 1
      /\ type_data'[Len(type_data) + 1] = r
      /\ \A d \in 1..Len(type_data) : type_data'[d] = type_data[d]
  BY <1>1
<1>3. DOMAIN type_data' = DOMAIN type_data \union {Len(type_data) + 1}
  <2>1. DOMAIN type_data' = 1..Len(type_data')
    BY <1>2
  <2> QED BY <1>1, <1>2, <2>1
<1>4. Len(type_data) + 1 \notin DOMAIN type_data /\ Len(type_data) + 1 # Null
  BY <1>1 DEF Null
<1>5. \A d \in DOMAIN type_data : type_data'[d] = type_data[d] /\ d \in DOMAIN type_data'
  BY <1>1, <1>2, <1>3
<1>6. \A d \in DOMAIN type_data : Known(d)' <=> Known(d)
  BY <1>5, Zenon DEF Known
<1>7. \A d \in DOMAIN type_data : Entries(d)' = Entries(d)
  BY <1>5, Zenon DEF Entries
<1>8. \A d \in DOMAIN type_data : Bound(d)' <=> Bound(d)
  BY <1>5, <1>6, Zenon DEF Bound
<1> QED BY <1>2, <1>3, <1>4, <1>5, <1>6, <1>7, <1>8

\* A changed record leaves the others as they are.
LEMMA RecordChanged ==
  ASSUME TypesTypeOK, NEW d \in DOMAIN type_data, NEW r \in Data,
         type_data' = [type_data EXCEPT ![d] = r]
  PROVE  /\ type_data' \in Seq(Data)
         /\ DOMAIN type_data' = DOMAIN type_data /\ type_data'[d] = r
         /\ \A e \in DOMAIN type_data \ {d} :
              /\ type_data'[e] = type_data[e] /\ (Known(e)' <=> Known(e))
              /\ Entries(e)' = Entries(e) /\ (Bound(e)' <=> Bound(e))
<1>1. type_data \in Seq(Data)
  BY DEF TypesTypeOK
<1>2. /\ type_data' \in Seq(Data) /\ DOMAIN type_data' = DOMAIN type_data
      /\ type_data'[d] = r
  BY <1>1
<1>5. \A e \in DOMAIN type_data \ {d} : type_data'[e] = type_data[e] /\ e \in DOMAIN type_data'
  BY <1>1, <1>2
<1>6. \A e \in DOMAIN type_data \ {d} : Known(e)' <=> Known(e)
  BY <1>5, Zenon DEF Known
<1>7. \A e \in DOMAIN type_data \ {d} : Entries(e)' = Entries(e)
  BY <1>5, Zenon DEF Entries
<1>8. \A e \in DOMAIN type_data \ {d} : Bound(e)' <=> Bound(e)
  BY <1>5, <1>6, Zenon DEF Bound
<1> QED BY <1>2, <1>5, <1>6, <1>7, <1>8

-----------------------------------------------------------------------------
(* The tables and the claims *)

\* The claims as they were, but for what an iterator is worth.
Unmoved(m) ==
  /\ m \in [Importers -> Claim \union {Idle}]
  /\ \A th \in Importers :
       /\ m[th] = Idle <=> making[th] = Idle
       /\ m[th] # Idle => m[th].info = making[th].info /\ m[th].base = making[th].base

LEMMA TouchedUnmoved ==
  ASSUME TypesTypeOK, NEW k, NEW self
  PROVE  Unmoved(Touched(k, self))
<1> DEFINE m == Touched(k, self)
<1>1. ASSUME NEW th \in Importers
      PROVE  /\ m[th] \in Claim \union {Idle}
             /\ m[th] = Idle <=> making[th] = Idle
             /\ m[th] # Idle => m[th].info = making[th].info /\ m[th].base = making[th].base
  <2>1. CASE m[th] # making[th]
    <3>1. making[th] # Idle /\ m[th] = [making[th] EXCEPT !.stale = TRUE]
      BY <2>1 DEF Touched, TouchedIn
    <3>2. making[th] \in Claim
      BY <3>1, ClaimFields
    <3>3. m[th] \in Claim /\ m[th].info = making[th].info /\ m[th].base = making[th].base
      BY <3>1, <3>2 DEF Claim
    <3> QED BY <3>1, <3>3, ClaimFields
  <2>2. CASE m[th] = making[th]
    BY <2>2 DEF TypesTypeOK
  <2> QED BY <2>1, <2>2
<1>2. m \in [Importers -> Claim \union {Idle}]
  BY <1>1 DEF Touched, TouchedIn
<1> QED BY <1>1, <1>2 DEF Unmoved

LEMMA SameUnmoved ==
  ASSUME TypesTypeOK
  PROVE  Unmoved(making)
  BY DEF TypesTypeOK, Unmoved

\* A step that changes neither table nor a bound type.
LEMMA TablesKept ==
  ASSUME TypesTypeOK, Tables, Placed, UNCHANGED <<slow, fast>>,
         \A l \in DOMAIN internals : internals'[l] = internals[l],
         \A th \in Importers :
            /\ making'[th] = Idle <=> making[th] = Idle
            /\ making[th] # Idle => making'[th].info = making[th].info,
         \A d : Bound(d)' <=> Bound(d),
         \A d : Bound(d) => /\ type_data'[d].info = type_data[d].info
                            /\ Len(type_data'[d].chain) = Len(type_data[d].chain)
                            /\ Entries(d)' = Entries(d)
  PROVE  Tables'
<1>0. ASSUME NEW i, i[1] \in DOMAIN internals
      PROVE  NameIn(internals', i) = NameIn(internals, i)
  BY <1>0 DEF NameIn
<1>1. SlowRight'
  <2>1. ASSUME NEW th \in Importers, making'[th] # Idle
        PROVE  /\ NameIn(internals', making'[th].info) \in DOMAIN slow'
               /\ slow'[NameIn(internals', making'[th].info)] = Null
    <3>1. PICK i : i = making[th].info
      OBVIOUS
    <3>2. making[th] # Idle /\ making'[th].info = i /\ i[1] \in DOMAIN internals
      BY <2>1, <3>1 DEF Placed
    <3>3. NameIn(internals, i) \in DOMAIN slow /\ slow[NameIn(internals, i)] = Null
      BY <3>1, <3>2 DEF Tables, SlowRight
    <3> QED BY <1>0, <3>2, <3>3
  <2>2. ASSUME NEW t \in DOMAIN slow'
        PROVE  /\ slow'[t] = Null => \E th \in Importers : making'[th] # Idle /\ NameIn(internals', making'[th].info) = t
               /\ slow'[t] # Null => Bound(slow[t])' /\ NameIn(internals', type_data'[slow'[t]].info) = t
    <3>1. t \in DOMAIN slow /\ slow'[t] = slow[t]
      OBVIOUS
    <3>2. CASE slow[t] = Null
      <4>1. PICK th \in Importers : making[th] # Idle /\ NameIn(internals, making[th].info) = t
        BY <3>1, <3>2 DEF Tables, SlowRight
      <4>2. PICK i : i = making[th].info
        OBVIOUS
      <4>3. making'[th] # Idle /\ making'[th].info = i /\ i[1] \in DOMAIN internals
        BY <4>1, <4>2 DEF Placed
      <4> QED BY <1>0, <3>1, <3>2, <4>1, <4>2, <4>3
    <3>3. CASE slow[t] # Null
      <4>1. Bound(slow[t]) /\ NameIn(internals, type_data[slow[t]].info) = t
        BY <3>1, <3>3, Zenon DEF Tables, SlowRight
      <4>2. PICK d, i : d = slow[t] /\ i = type_data[d].info
        OBVIOUS
      <4>3. Bound(d)' /\ type_data'[d].info = i /\ i[1] \in DOMAIN internals
        BY <4>1, <4>2 DEF Placed, Bound, Known
      <4>4. Bound(slow[t])'
        BY <3>1, <4>2, <4>3, Zenon DEF Bound, Known
      <4>5. NameIn(internals', i) = t
        BY <1>0, <4>1, <4>2, <4>3
      <4> QED BY <3>1, <3>3, <4>2, <4>3, <4>4, <4>5
    <3> QED BY <3>2, <3>3
  <2> QED BY <2>1, <2>2 DEF SlowRight
<1>2. FastRight'
  <2>1. ASSUME NEW i \in DOMAIN fast'
        PROVE  /\ Bound(fast[i])' /\ i \in Entries(fast[i])'
               /\ NameIn(internals', i) \in DOMAIN slow' /\ slow'[NameIn(internals', i)] = fast'[i]
    <3>1. PICK d : d = fast[i]
      OBVIOUS
    <3>2. fast'[i] = d /\ Bound(d) /\ i \in Entries(d)
          /\ NameIn(internals, i) \in DOMAIN slow /\ slow[NameIn(internals, i)] = d
      BY <3>1, Zenon DEF Tables, FastRight
    <3>3. Bound(d)' /\ i \in Entries(d)' /\ i[1] \in DOMAIN internals
      BY <3>2 DEF Placed
    <3>4. Bound(fast[i])' /\ i \in Entries(fast[i])'
      BY <3>2, <3>3, Zenon DEF Bound, Known, Entries
    <3> QED BY <1>0, <3>2, <3>3, <3>4
  <2> QED BY <2>1 DEF FastRight
<1>3. EntriesKept'
  <2>1. ASSUME NEW d \in DOMAIN type_data', Bound(d)'
        PROVE  /\ NameIn(internals', type_data'[d].info) \in DOMAIN slow'
               /\ slow'[NameIn(internals', type_data'[d].info)] = d
               /\ \A e \in Entries(d)' : e \in DOMAIN fast' /\ fast'[e] = d
               /\ IsFiniteSet(Entries(d)') /\ Cardinality(Entries(d)') = 1 + Len(type_data'[d].chain)
    <3>0. PICK i : i = type_data[d].info
      OBVIOUS
    <3>1. Bound(d) /\ d \in DOMAIN type_data
      BY <2>1 DEF Bound, Known
    <3>2. /\ NameIn(internals, i) \in DOMAIN slow /\ slow[NameIn(internals, i)] = d
          /\ \A e \in Entries(d) : e \in DOMAIN fast /\ fast[e] = d
          /\ IsFiniteSet(Entries(d)) /\ Cardinality(Entries(d)) = 1 + Len(type_data[d].chain)
      BY <3>0, <3>1 DEF Tables, EntriesKept
    <3>3. NameIn(internals', i) = NameIn(internals, i) /\ type_data'[d].info = i
      BY <1>0, <3>0, <3>1 DEF Placed
    <3> QED BY <3>1, <3>2, <3>3
  <2> QED BY <2>1 DEF EntriesKept
<1> QED BY <1>1, <1>2, <1>3 DEF Tables

-----------------------------------------------------------------------------
(* Steps that leave the records of types alone *)

LEMMA QuietRecords ==
  ASSUME UNCHANGED <<type_data, freed>>, Lineage, Owned
  PROVE  Lineage' /\ Owned'
<1>1. Lineage'
  BY RecordsKept, Zenon DEF Lineage
<1>2. Owned'
  BY RecordsKept, Zenon DEF Owned
<1> QED BY <1>1, <1>2

\* Records, claims and cached addresses that are where they were, or in their base's internals.
LEMMA KinKept ==
  ASSUME TypesTypeOK, Placed, Kin,
         \A l \in DOMAIN internals : l \in DOMAIN internals' /\ internals'[l] = internals[l],
         \A d \in DOMAIN type_data : d \in DOMAIN type_data' /\ type_data'[d].info = type_data[d].info,
         \A d \in DOMAIN type_data' :
            \/ /\ d \in DOMAIN type_data /\ type_data'[d].base = type_data[d].base
            \/ /\ type_data'[d].info[1] \in DOMAIN internals
               /\ SameInternals(type_data'[d].info, type_data'[d].base),
         \A th \in Importers : making'[th] # Idle =>
            \/ /\ making[th] # Idle /\ making'[th].info = making[th].info
               /\ making'[th].base = making[th].base
            \/ /\ making'[th].info[1] \in DOMAIN internals
               /\ SameInternals(making'[th].info, making'[th].base),
         \A i \in DOMAIN fast' : i[1] \in DOMAIN internals
  PROVE  Placed' /\ Kin'
<1>1. ASSUME NEW i, NEW b, i[1] \in DOMAIN internals, SameInternals(i, b), b # Null
      PROVE  b \in DOMAIN type_data' /\ internals'[type_data'[b].info[1]] = internals'[i[1]]
  <2>1. b \in DOMAIN type_data /\ internals[type_data[b].info[1]] = internals[i[1]]
    BY <1>1 DEF SameInternals
  <2>2. type_data[b].info[1] \in DOMAIN internals
    BY <2>1 DEF Placed
  <2> QED BY <1>1, <2>1, <2>2
<1>2. ASSUME NEW d \in DOMAIN type_data'
      PROVE  /\ type_data'[d].info[1] \in DOMAIN internals
             /\ SameInternals(type_data'[d].info, type_data'[d].base)
  BY Zenon DEF Placed, Kin
<1>3. ASSUME NEW th \in Importers, making'[th] # Idle
      PROVE  /\ making'[th].info[1] \in DOMAIN internals
             /\ SameInternals(making'[th].info, making'[th].base)
  BY <1>3, Zenon DEF Placed, Kin
<1>4. Placed'
  BY <1>2, <1>3 DEF Placed
<1>5. Kin'
  <2>1. ASSUME NEW d \in DOMAIN type_data', NEW b, b = type_data'[d].base, b # Null
        PROVE  b \in DOMAIN type_data' /\ internals'[type_data'[b].info[1]] = internals'[type_data'[d].info[1]]
    <3>1. PICK i : i = type_data'[d].info
      OBVIOUS
    <3> QED BY <1>1, <1>2, <2>1, <3>1
  <2>2. ASSUME NEW th \in Importers, making'[th] # Idle, NEW b, b = making'[th].base, b # Null
        PROVE  b \in DOMAIN type_data' /\ internals'[type_data'[b].info[1]] = internals'[making'[th].info[1]]
    <3>1. PICK i : i = making'[th].info
      OBVIOUS
    <3> QED BY <1>1, <1>3, <2>2, <3>1
  <2> QED BY <2>1, <2>2, Zenon DEF Kin, SameInternals
<1> QED BY <1>4, <1>5

\* What a thread waits for as it was, but for what an iterator is worth.
LEMMA TouchedLoads ==
  ASSUME LoadsRight, NEW k, NEW self, NEW m, m = TouchedIn(waiting, k, self)
  PROVE  /\ m \in [Importers -> {Idle} \union Loader \union Warned]
         /\ \A th \in Importers :
              /\ (m[th] # Idle /\ m[th].step = "loading") <=> Loading(th)
              /\ Loading(th) => m[th].lib = waiting[th].lib
              /\ m[th] = Idle <=> waiting[th] = Idle
<1>1. ASSUME NEW th \in Importers
      PROVE  /\ m[th] \in {Idle} \union Loader \union Warned
             /\ (m[th] # Idle /\ m[th].step = "loading") <=> Loading(th)
             /\ Loading(th) => m[th].lib = waiting[th].lib
             /\ m[th] = Idle <=> waiting[th] = Idle
  <2>1. waiting[th] \in {Idle} \union Loader \union Warned
    BY DEF LoadsRight
  <2>2. CASE m[th] = waiting[th]
    BY <2>1, <2>2, Zenon DEF Loading
  <2>3. CASE m[th] # waiting[th]
    <3>1. waiting[th] # Idle /\ "info" \in DOMAIN waiting[th] /\ m[th] = [waiting[th] EXCEPT !.stale = TRUE]
      BY <2>3 DEF TouchedIn
    <3>2. \A w \in Loader : "info" \notin DOMAIN w
      BY DEF Loader
    <3>3. waiting[th] \in Warned
      BY <2>1, <3>1, <3>2
    <3>4. ASSUME NEW w \in Warned
          PROVE  w.step = "warned" /\ w # Idle /\ [w EXCEPT !.stale = TRUE] \in Warned
      <4>1. w.step = "warned" /\ [w EXCEPT !.stale = TRUE] \in Warned
        BY DEF Warned
      <4>2. w # Idle
        BY <4>1 DEF Idle
      <4> QED BY <4>1, <4>2
    <3>5. m[th] \in Warned
      BY <3>1, <3>3, <3>4
    <3> QED BY <3>3, <3>4, <3>5, Zenon DEF Loading
  <2> QED BY <2>2, <2>3
<1>2. m \in [Importers -> {Idle} \union Loader \union Warned]
  BY <1>1 DEF TouchedIn
<1> QED BY <1>1, <1>2

\* No library has loaded, no thread has begun or finished to make internals.
LEMMA LoadsKept ==
  ASSUME LoadsRight, OneMakes, UNCHANGED loadVars,
         waiting' \in [Importers -> {Idle} \union Loader \union Warned],
         \A th \in Importers : Loading(th)' => Loading(th) /\ waiting'[th].lib = waiting[th].lib
  PROVE  LoadsRight' /\ OneMakes'
<1>1. UNCHANGED <<internals, registry, made, raced>>
  BY DEF loadVars
<1>2. LoadsRight'
  <2>1. ASSUME NEW th \in Importers, Loading(th)' PROVE waiting'[th].lib \notin DOMAIN internals
    BY <2>1, Zenon DEF LoadsRight
  <2>2. ASSUME NEW th \in Importers, NEW o \in Importers, Loading(th)', Loading(o)',
               waiting'[th].lib = waiting'[o].lib
        PROVE  th = o
    BY <2>2, Zenon DEF LoadsRight
  <2> QED BY <1>1, <2>1, <2>2 DEF LoadsRight
<1>3. OneMakes'
  BY <1>1, Zenon DEF OneMakes
<1> QED BY <1>2, <1>3

\* A step in which no library loads and no thread waits, of a process that goes on or ends.
LEMMA LoadsUntouched ==
  ASSUME LoadsRight, OneMakes, Buried, state = "live", state' # "exited",
         UNCHANGED <<loadVars, deleted, waiting>>
  PROVE  LoadsRight' /\ OneMakes' /\ Buried'
<1>1. \A o \in Importers : Loading(o)' <=> Loading(o)
  BY DEF Loading
<1>2. LoadsRight' /\ OneMakes'
  BY <1>1, LoadsKept DEF LoadsRight
<1> QED BY <1>2 DEF Buried

\* Another library loads: nothing moves.
LEMMA OthersLoad ==
  ASSUME TypesIInv, state = "live", NEW lib \in Libs \ DOMAIN internals, NEW k \in Nat \ {Null},
         internals' = With(internals, lib, k),
         UNCHANGED <<state, deleted, slow, fast, type_data, freed, making>>
  PROVE  /\ TypesTypeOK' /\ Lineage' /\ Owned' /\ Claims' /\ Tables' /\ Placed' /\ Kin' /\ Buried'
         /\ DOMAIN internals' = DOMAIN internals \union {lib} /\ internals'[lib] = k
         /\ \A l \in DOMAIN internals : internals'[l] = internals[l]
<1>1. /\ DOMAIN internals' = DOMAIN internals \union {lib} /\ internals'[lib] = k
      /\ \A l \in DOMAIN internals : internals'[l] = internals[l]
  BY DEF With
<1>2. TypesTypeOK /\ Lineage /\ Owned /\ Claims /\ Tables /\ Placed /\ Kin /\ Buried
  BY DEF TypesIInv, LoadIInv
<1>3. TypesTypeOK'
  BY <1>1, <1>2 DEF TypesTypeOK
<1>4. Lineage' /\ Owned'
  BY <1>2, QuietRecords
<1>5. Claims'
  <2>1. ASSUME NEW u \in Importers, making[u] # Idle
        PROVE  NameIn(internals', making[u].info) = NameIn(internals, making[u].info)
    BY <1>1, <1>2, <2>1 DEF Placed, NameIn
  <2>2. ASSUME NEW u \in Importers, making[u] # Idle, NEW v \in Importers \ {u}, making[v] # Idle
        PROVE  NameIn(internals', making[v].info) # NameIn(internals', making[u].info)
    BY <1>2, <2>1, <2>2 DEF Claims
  <2> QED BY <1>2, <2>2, RecordsKept, Zenon DEF Claims
<1>6. Tables'
  BY <1>1, <1>2, RecordsKept, TablesKept
<1>7. Placed' /\ Kin'
  BY <1>1, <1>2, KinKept DEF Placed
<1>8. Buried'
  BY <1>2 DEF Buried
<1> QED BY <1>1, <1>3, <1>4, <1>5, <1>6, <1>7, <1>8

LEMMA LoadLookKeeps ==
  ASSUME TypesIInv, NEW th \in Importers, NEW lib \in Libs, LoadLook(th, lib)
  PROVE  TypesIInv'
<1>1. /\ UNCHANGED <<registry, made, deleted, state, slow, fast, type_data, freed, making>>
      /\ state = "live" /\ waiting[th] = Idle /\ lib \notin DOMAIN internals
      /\ \A o \in Importers : Loading(o) => waiting[o].lib # lib
      /\ \/ registry # Null /\ internals' = With(internals, lib, registry) /\ UNCHANGED <<waiting, raced>>
         \/ /\ registry = Null /\ UNCHANGED internals
            /\ waiting' = [waiting EXCEPT ![th] = [step |-> "loading", lib |-> lib]]
            /\ raced' = (raced \/ \E o \in Importers : Loading(o))
  BY DEF LoadLook, Free
<1>2. /\ TypesTypeOK /\ Lineage /\ Owned /\ Claims /\ Tables /\ Placed /\ Kin /\ Buried /\ LoadsRight
      /\ OneMakes
  BY <1>1 DEF TypesIInv, LoadIInv
<1>3. CASE registry # Null /\ internals' = With(internals, lib, registry) /\ UNCHANGED <<waiting, raced>>
  <2>1. registry \in Nat \ {Null}
    BY <1>2, <1>3 DEF LoadsRight
  <2>2. /\ TypesTypeOK' /\ Lineage' /\ Owned' /\ Claims' /\ Tables' /\ Placed' /\ Kin' /\ Buried'
        /\ DOMAIN internals' = DOMAIN internals \union {lib} /\ internals'[lib] = registry
        /\ \A l \in DOMAIN internals : internals'[l] = internals[l]
    BY <1>1, <1>3, <2>1, OthersLoad
  <2>3. \A o \in Importers : Loading(o)' <=> Loading(o)
    BY <1>3 DEF Loading
  <2>4. LoadsRight'
    BY <1>1, <1>2, <1>3, <2>2, <2>3, Zenon DEF LoadsRight
  <2>5. OneMakes'
    <3>1. ASSUME ~raced', NEW l \in DOMAIN internals' PROVE internals'[l] = registry'
      BY <1>1, <1>2, <1>3, <2>2, <3>1 DEF OneMakes
    <3>2. ASSUME ~raced', NEW o \in Importers, Loading(o)' PROVE FALSE
      BY <1>2, <1>3, <2>3, <3>2 DEF OneMakes
    <3>3. ASSUME ~raced', NEW u \in Importers, NEW o \in Importers, Loading(u)', Loading(o)' PROVE u = o
      BY <1>2, <1>3, <2>3, <3>3 DEF OneMakes
    <3> QED BY <3>1, <3>2, <3>3, Zenon DEF OneMakes
  <2> QED BY <1>1, <2>2, <2>4, <2>5 DEF TypesIInv, LoadIInv
<1>4. CASE /\ registry = Null /\ UNCHANGED internals
           /\ waiting' = [waiting EXCEPT ![th] = [step |-> "loading", lib |-> lib]]
           /\ raced' = (raced \/ \E o \in Importers : Loading(o))
  <2> DEFINE w == [step |-> "loading", lib |-> lib]
  <2>1. w \in Loader /\ w # Idle /\ w.step = "loading" /\ w.lib = lib
    BY DEF Loader, Idle
  <2> HIDE DEF w
  <2>2. /\ waiting' \in [Importers -> {Idle} \union Loader \union Warned] /\ waiting'[th] = w
        /\ \A o \in Importers \ {th} : waiting'[o] = waiting[o]
    BY <1>2, <1>4, <2>1 DEF LoadsRight, w
  <2>3. /\ Loading(th)' /\ ~Loading(th)
        /\ \A o \in Importers \ {th} : Loading(o)' <=> Loading(o)
    BY <1>1, <2>1, <2>2 DEF Loading
  <2>4. TypesTypeOK' /\ Placed' /\ Kin' /\ Buried'
    <3>1. TypesTypeOK'
      BY <1>1, <1>2, <1>4 DEF TypesTypeOK
    <3>2. Placed' /\ Buried'
      BY <1>1, <1>2, <1>4 DEF Placed, Buried
    <3>3. Kin'
      BY <1>1, <1>2, <1>4, Zenon DEF Kin, SameInternals
    <3> QED BY <3>1, <3>2, <3>3
  <2>5. Lineage' /\ Owned'
    BY <1>1, <1>2, QuietRecords
  <2>6. Claims'
    BY <1>1, <1>2, <1>4, RecordsKept, Zenon DEF Claims
  <2>7. Tables'
    BY <1>1, <1>2, <1>4, RecordsKept, TablesKept
  <2>8. LoadsRight'
    <3>1. ASSUME NEW o \in Importers, Loading(o)' PROVE waiting'[o].lib \notin DOMAIN internals'
      <4>1. CASE o = th
        BY <1>1, <1>4, <2>1, <2>2, <4>1
      <4>2. CASE o # th
        BY <1>2, <1>4, <2>2, <2>3, <3>1, <4>2 DEF LoadsRight
      <4> QED BY <4>1, <4>2
    <3>2. ASSUME NEW u \in Importers, NEW o \in Importers, Loading(u)', Loading(o)',
                 waiting'[u].lib = waiting'[o].lib
          PROVE  u = o
      <4>1. CASE u = th /\ o # th
        BY <1>1, <2>1, <2>2, <2>3, <3>2, <4>1
      <4>2. CASE o = th /\ u # th
        BY <1>1, <2>1, <2>2, <2>3, <3>2, <4>2
      <4>3. CASE u # th /\ o # th
        BY <1>2, <2>2, <2>3, <3>2, <4>3 DEF LoadsRight
      <4> QED BY <4>1, <4>2, <4>3
    <3> QED BY <1>1, <1>2, <2>2, <3>1, <3>2 DEF LoadsRight
  <2>9. OneMakes'
    <3> SUFFICES ASSUME ~raced' PROVE OneMakes'
      BY DEF OneMakes
    <3>1. ~raced /\ \A o \in Importers : ~Loading(o)
      BY <1>4
    <3>2. \A o \in Importers : Loading(o)' => o = th
      BY <2>3, <3>1
    <3>3. \A l \in DOMAIN internals : internals[l] = registry
      BY <1>2, <3>1 DEF OneMakes
    <3>4. DOMAIN internals = {}
      BY <1>2, <1>4, <3>3 DEF TypesTypeOK
    <3> QED BY <1>1, <1>4, <3>2, <3>4 DEF OneMakes
  <2> QED BY <1>1, <2>4, <2>5, <2>6, <2>7, <2>8, <2>9 DEF TypesIInv, LoadIInv
<1> QED BY <1>1, <1>3, <1>4

LEMMA LoadSetKeeps ==
  ASSUME TypesIInv, NEW th \in Importers, LoadSet(th)
  PROVE  TypesIInv'
<1>0. PICK lib, k : lib = waiting[th].lib /\ k = made + 1
  OBVIOUS
<1>1. /\ UNCHANGED <<raced, deleted, state, slow, fast, type_data, freed, making>>
      /\ state = "live" /\ Loading(th)
      /\ made' = k /\ registry' = k /\ internals' = With(internals, lib, k)
      /\ waiting' = [waiting EXCEPT ![th] = Idle]
  BY <1>0 DEF LoadSet
<1>2. TypesTypeOK /\ LoadsRight /\ OneMakes
  BY <1>1 DEF TypesIInv, LoadIInv
<1>3. lib \in Libs \ DOMAIN internals /\ k \in Nat \ {Null}
  <2>1. waiting[th] \in {Idle} \union Loader \union Warned /\ waiting[th] # Idle
        /\ waiting[th].step = "loading"
    BY <1>1, <1>2 DEF LoadsRight, Loading
  <2>2. waiting[th] \in Loader
    BY <2>1 DEF Warned
  <2>3. lib \in Libs
    BY <1>0, <2>2 DEF Loader
  <2>4. k \in Nat \ {Null}
    BY <1>0, <1>2 DEF LoadsRight, Null
  <2> QED BY <1>0, <1>1, <1>2, <2>3, <2>4 DEF LoadsRight
<1>4. /\ TypesTypeOK' /\ Lineage' /\ Owned' /\ Claims' /\ Tables' /\ Placed' /\ Kin' /\ Buried'
      /\ DOMAIN internals' = DOMAIN internals \union {lib} /\ internals'[lib] = k
  BY <1>1, <1>3, OthersLoad
<1>5. /\ waiting' \in [Importers -> {Idle} \union Loader \union Warned] /\ ~Loading(th)'
      /\ \A o \in Importers \ {th} : waiting'[o] = waiting[o] /\ (Loading(o)' <=> Loading(o))
  <2>1. /\ waiting' \in [Importers -> {Idle} \union Loader \union Warned] /\ waiting'[th] = Idle
        /\ \A o \in Importers \ {th} : waiting'[o] = waiting[o]
    BY <1>1, <1>2 DEF LoadsRight
  <2> QED BY <2>1 DEF Loading
<1>6. LoadsRight'
  <2>1. ASSUME NEW o \in Importers, Loading(o)' PROVE waiting'[o].lib \notin DOMAIN internals'
    <3>1. o # th /\ Loading(o) /\ waiting'[o] = waiting[o]
      BY <1>5, <2>1
    <3> QED BY <1>0, <1>1, <1>2, <1>4, <3>1 DEF LoadsRight
  <2>2. ASSUME NEW u \in Importers, NEW o \in Importers, Loading(u)', Loading(o)',
               waiting'[u].lib = waiting'[o].lib
        PROVE  u = o
    BY <1>2, <1>5, <2>2 DEF LoadsRight
  <2> QED BY <1>1, <1>3, <1>5, <2>1, <2>2 DEF LoadsRight
<1>7. OneMakes'
  <2> SUFFICES ASSUME ~raced PROVE OneMakes'
    BY <1>1 DEF OneMakes
  <2>1. DOMAIN internals = {} /\ \A o \in Importers : Loading(o) => o = th
    BY <1>1, <1>2 DEF OneMakes
  <2>2. \A o \in Importers : ~Loading(o)'
    BY <1>5, <2>1
  <2> QED BY <1>1, <1>4, <2>1, <2>2 DEF OneMakes
<1> QED BY <1>1, <1>4, <1>6, <1>7 DEF TypesIInv, LoadIInv

\* A step that changes neither what is loaded nor what is found, and may end the process.
LEMMA QuietKeeps ==
  ASSUME TypesIInv, state = "live", state' \notin {"exited", "not found"},
         UNCHANGED <<loadVars, deleted, slow, fast, type_data, freed, making>>,
         LoadsRight', OneMakes'
  PROVE  TypesIInv'
<1>1. /\ TypesTypeOK /\ Lineage /\ Owned /\ Claims /\ Tables /\ Placed /\ Kin /\ Buried
      /\ UNCHANGED internals
  BY DEF TypesIInv, LoadIInv, loadVars
<1>2. TypesTypeOK'
  BY <1>1 DEF TypesTypeOK
<1>3. Lineage' /\ Owned'
  BY <1>1, QuietRecords
<1>4. Claims'
  BY <1>1, RecordsKept, Zenon DEF Claims
<1>5. Tables'
  BY <1>1, RecordsKept, TablesKept
<1>6. Placed' /\ Kin'
  BY <1>1, KinKept DEF Placed
<1>7. Buried'
  BY <1>1 DEF Buried
<1> QED BY <1>2, <1>3, <1>4, <1>5, <1>6, <1>7 DEF TypesIInv, LoadIInv

LEMMA AgainKeeps ==
  ASSUME TypesIInv, NEW th \in Importers, NEW i \in Infos, Again(th, i)
  PROVE  TypesIInv'
<1>1. /\ UNCHANGED <<loadVars, deleted, state, slow, fast, type_data, freed, making>>
      /\ state = "live" /\ LoadsRight /\ OneMakes
  BY DEF Again, TypesIInv, LoadIInv
<1> DEFINE w == [step |-> "warned", info |-> i, stale |-> FALSE]
<1>2. w \in Warned /\ w.step = "warned" /\ waiting' = [waiting EXCEPT ![th] = w]
  BY DEF Again, Warned
<1> HIDE DEF w
<1>3. /\ waiting' \in [Importers -> {Idle} \union Loader \union Warned] /\ waiting'[th] = w
      /\ \A o \in Importers \ {th} : waiting'[o] = waiting[o]
  BY <1>1, <1>2 DEF LoadsRight
<1>4. \A o \in Importers : Loading(o)' => Loading(o) /\ waiting'[o].lib = waiting[o].lib
  BY <1>2, <1>3 DEF Loading
<1> QED BY <1>1, <1>3, <1>4, LoadsKept, QuietKeeps

LEMMA ReturnKeeps ==
  ASSUME TypesIInv, NEW th \in Importers, Return(th)
  PROVE  TypesIInv'
<1>1. /\ UNCHANGED <<loadVars, deleted, slow, fast, type_data, freed, making>>
      /\ state = "live" /\ LoadsRight /\ OneMakes /\ state' \in {"live", "undefined", "null"}
      /\ waiting' = [waiting EXCEPT ![th] = Idle]
  BY DEF Return, TypesIInv, LoadIInv
<1>3. /\ waiting' \in [Importers -> {Idle} \union Loader \union Warned] /\ waiting'[th] = Idle
      /\ \A o \in Importers \ {th} : waiting'[o] = waiting[o]
  BY <1>1 DEF LoadsRight
<1>4. \A o \in Importers : Loading(o)' => Loading(o) /\ waiting'[o].lib = waiting[o].lib
  BY <1>3 DEF Loading
<1> QED BY <1>1, <1>3, <1>4, LoadsKept, QuietKeeps

\* The base that a thread finds exists.
LEMMA MakeKeeps ==
  ASSUME TypesIInv, NEW th \in Importers, Make(th)
  PROVE  TypesIInv'
<1>1. /\ UNCHANGED <<loadVars, internals, deleted, slow, fast, type_data, freed, waiting>> /\ state = "live"
      /\ state' \in {"live", "unknown base", "null"}
      /\ TypesTypeOK /\ Lineage /\ Owned /\ Claims /\ Tables /\ Placed /\ Kin
      /\ LoadsRight /\ OneMakes /\ Buried
      /\ making[th] # Idle
  BY DEF Make, TypesIInv, LoadIInv, loadVars
<1> DEFINE m == making[th]
           b == <<internals[m.info[1]], Base[TypeOf(m.info)]>>
<1>2. \/ UNCHANGED making
      \/ making' = [making EXCEPT ![th].step = "made"]
      \/ /\ b \in DOMAIN slow /\ slow[b] # Null
         /\ making' = [making EXCEPT ![th].step = "made", ![th].base = slow[b]]
  BY Zenon DEF Make
<1>3. m \in Claim /\ making \in [Importers -> Claim \union {Idle}]
  BY <1>1, ClaimFields DEF TypesTypeOK
<1>4. ASSUME b \in DOMAIN slow, slow[b] # Null
      PROVE  slow[b] \in Nat /\ Known(slow[b]) /\ SameInternals(m.info, slow[b])
  <2>1. slow[b] \in Nat /\ Known(slow[b]) /\ NameIn(internals, type_data[slow[b]].info) = b
    BY <1>1, <1>4, Zenon DEF Tables, SlowRight, Bound, TypesTypeOK
  <2>2. internals[type_data[slow[b]].info[1]] = internals[m.info[1]]
    BY <2>1 DEF NameIn
  <2> QED BY <2>1, <2>2 DEF SameInternals, Known
<1>5. /\ making' \in [Importers -> Claim \union {Idle}]
      /\ \A u \in Importers :
           /\ making'[u] = Idle <=> making[u] = Idle
           /\ making[u] # Idle => making'[u].info = making[u].info
           /\ making'[u] # Idle /\ making'[u].base # Null =>
                \/ making'[u].base = making[u].base
                \/ Known(making'[u].base) /\ SameInternals(making'[u].info, making'[u].base)
  <2>1. CASE UNCHANGED making
    BY <2>1, <1>3
  <2>2. CASE making' = [making EXCEPT ![th].step = "made"]
    <3>1. [m EXCEPT !.step = "made"] \in Claim /\ [m EXCEPT !.step = "made"].info = m.info
          /\ [m EXCEPT !.step = "made"].base = m.base
      BY <1>3 DEF Claim
    <3>2. making'[th] = [m EXCEPT !.step = "made"] /\ \A u \in Importers \ {th} : making'[u] = making[u]
      BY <2>2, <1>3
    <3>3. making' \in [Importers -> Claim \union {Idle}]
      BY <2>2, <1>3, <3>1
    <3> QED BY <1>1, <3>1, <3>2, <3>3, ClaimFields
  <2>3. CASE /\ b \in DOMAIN slow /\ slow[b] # Null
             /\ making' = [making EXCEPT ![th].step = "made", ![th].base = slow[b]]
    <3> DEFINE n == [m EXCEPT !.step = "made", !.base = slow[b]]
    <3>1. n \in Claim /\ n.info = m.info /\ n.base = slow[b]
      BY <1>3, <1>4, <2>3 DEF Claim
    <3>2. making'[th] = n /\ \A u \in Importers \ {th} : making'[u] = making[u]
      BY <2>3, <1>3
    <3>3. making' \in [Importers -> Claim \union {Idle}]
      <4>1. making' = [making EXCEPT ![th] = n]
        BY <2>3, <1>3
      <4> QED BY <4>1, <1>3, <3>1
    <3>4. Known(n.base) /\ SameInternals(n.info, n.base)
      BY <1>4, <2>3, <3>1, Zenon
    <3> HIDE DEF n
    <3> QED BY <1>1, <3>1, <3>2, <3>3, <3>4, ClaimFields
  <2> QED BY <1>2, <2>1, <2>2, <2>3
<1>6. TypesTypeOK'
  BY <1>1, <1>5 DEF TypesTypeOK
<1>7. Lineage' /\ Owned'
  BY <1>1, QuietRecords
<1>8. Claims'
  <2>1. ASSUME NEW u \in Importers, making'[u] # Idle
        PROVE  /\ making'[u].base # Null => Known(making[u].base)'
               /\ \A v \in Importers \ {u} :
                    making'[v] # Idle => NameIn(internals, making'[v].info) # NameIn(internals, making'[u].info)
    <3>1. making[u] # Idle /\ making'[u].info = making[u].info
      BY <1>5, <2>1
    <3>2. ASSUME making'[u].base # Null PROVE Known(making[u].base)'
      <4>1. PICK e : e = making'[u].base
        OBVIOUS
      <4>2. Known(e)
        BY <1>1, <1>5, <2>1, <3>1, <3>2, <4>1, Zenon DEF Claims
      <4>3. Known(e)'
        BY <4>2, <1>1, RecordsKept
      <4> QED BY <4>1, <4>3, Zenon DEF Known
    <3>3. ASSUME NEW v \in Importers \ {u}, making'[v] # Idle
          PROVE  NameIn(internals, making'[v].info) # NameIn(internals, making'[u].info)
      <4>1. making[v] # Idle /\ making'[v].info = making[v].info
        BY <1>5, <3>3
      <4> QED BY <1>1, <3>1, <4>1 DEF Claims
    <3> QED BY <3>2, <3>3
  <2> QED BY <1>1, <2>1, Zenon DEF Claims
<1>9. Tables'
  BY <1>1, <1>5, RecordsKept, TablesKept
<1>10. Placed' /\ Kin'
  <2>1. ASSUME NEW u \in Importers, making'[u] # Idle
        PROVE  \/ /\ making[u] # Idle /\ making'[u].info = making[u].info
                  /\ making'[u].base = making[u].base
               \/ making'[u].info[1] \in DOMAIN internals /\ SameInternals(making'[u].info, making'[u].base)
    <3>1. making[u] # Idle /\ making'[u].info = making[u].info /\ making[u].info[1] \in DOMAIN internals
      BY <1>1, <1>5, <2>1 DEF Placed
    <3>2. CASE making'[u].base = Null
      BY <3>1, <3>2, Zenon DEF SameInternals
    <3> QED BY <1>5, <2>1, <3>1, <3>2
  <2> QED BY <1>1, <2>1, KinKept DEF Placed
<1>11. LoadsRight' /\ OneMakes' /\ Buried'
  BY <1>1, LoadsUntouched
<1> QED BY <1>1, <1>6, <1>7, <1>8, <1>9, <1>10, <1>11 DEF TypesIInv, LoadIInv

\* A claim is made of a type that is not in the table, so by no other thread.
LEMMA BeginKeeps ==
  ASSUME TypesIInv, NEW th \in Importers, NEW i \in Infos, Begin(th, i)
  PROVE  TypesIInv'
<1>0. PICK t : t = NameIn(internals, i)
  OBVIOUS
<1> DEFINE m == Touched(t[1], th)
           c == [step |-> "claimed", info |-> i, base |-> Null, stale |-> FALSE]
<1>1. /\ UNCHANGED <<loadVars, internals, deleted, state, fast, type_data, freed>> /\ state = "live"
      /\ i[1] \in DOMAIN internals
      /\ t \notin DOMAIN slow /\ slow' = With(slow, t, Null)
      /\ making' = [m EXCEPT ![th] = c] /\ making[th] = Idle
      /\ waiting' = TouchedIn(waiting, t[1], th)
      /\ TypesTypeOK /\ Lineage /\ Owned /\ Claims /\ Tables /\ Placed /\ Kin
      /\ LoadsRight /\ OneMakes /\ Buried
  BY <1>0 DEF Begin, Free, TypesIInv, Claimed, LoadIInv, loadVars
<1>2. c \in Claim /\ c # Idle /\ c.info = i /\ c.base = Null
  BY DEF Claim, Idle, Null
<1>3. Unmoved(m)
  BY <1>1, TouchedUnmoved
<1> HIDE DEF m, c
<1>4. /\ making' \in [Importers -> Claim \union {Idle}] /\ making'[th] = c
      /\ \A u \in Importers \ {th} :
           /\ making'[u] = Idle <=> making[u] = Idle
           /\ making'[u] # Idle => making'[u].info = making[u].info /\ making'[u].base = making[u].base
  BY <1>1, <1>2, <1>3 DEF Unmoved
<1>5. /\ DOMAIN slow' = DOMAIN slow \union {t} /\ slow'[t] = Null
      /\ \A x \in DOMAIN slow : slow'[x] = slow[x]
      /\ t \in Nat \X CppTypes
  <2>1. t \in Nat \X CppTypes
    BY <1>0, <1>1 DEF NameIn, TypeOf, Infos, TypesTypeOK
  <2>2. DOMAIN slow \ {t} = DOMAIN slow
    BY <1>1
  <2>3. slow' = With(slow, t, Null)
    BY <1>1
  <2>4. /\ DOMAIN slow' = DOMAIN slow \union {t} /\ slow'[t] = Null
        /\ \A x \in DOMAIN slow \ {t} : slow'[x] = slow[x]
    BY <2>3 DEF With
  <2> QED BY <2>1, <2>2, <2>4
<1>6. TypesTypeOK'
  <2>1. \A x \in DOMAIN slow' : slow'[x] \in Nat /\ x \in Nat \X CppTypes
    BY <1>1, <1>5 DEF TypesTypeOK, Null
  <2> QED BY <1>1, <1>4, <2>1 DEF TypesTypeOK
<1>7. Lineage' /\ Owned'
  BY <1>1, QuietRecords
<1>10. \A u \in Importers : making[u] # Idle => NameIn(internals, making[u].info) # t /\ u # th
  BY <1>1 DEF Tables, SlowRight
<1>8. Claims'
  <2>1. ASSUME NEW u \in Importers, making'[u] # Idle, making'[u].base # Null
        PROVE  Known(making[u].base)'
    <3>1. u # th
      BY <1>2, <1>4, <2>1
    <3>2. Known(making[u].base) /\ making'[u].base = making[u].base
      BY <1>1, <1>4, <2>1, <3>1, Zenon DEF Claims
    <3>3. PICK e : e = making[u].base
      OBVIOUS
    <3>4. Known(e)' /\ making'[u].base = e
      BY <1>1, <3>2, <3>3, RecordsKept
    <3> QED BY <3>4, Zenon DEF Known
  <2>2. ASSUME NEW u \in Importers, making'[u] # Idle, NEW v \in Importers \ {u}, making'[v] # Idle
        PROVE  NameIn(internals, making'[v].info) # NameIn(internals, making'[u].info)
    <3>1. CASE u = th
      BY <1>0, <1>2, <1>4, <1>10, <2>2, <3>1
    <3>2. CASE v = th
      BY <1>0, <1>2, <1>4, <1>10, <2>2, <3>2
    <3>3. CASE u # th /\ v # th
      BY <1>1, <1>4, <2>2, <3>3 DEF Claims
    <3> QED BY <3>1, <3>2, <3>3
  <2> QED BY <1>1, <2>1, <2>2, Zenon DEF Claims
<1>9. Tables'
  <2>1. SlowRight'
    <3>1. ASSUME NEW u \in Importers, making'[u] # Idle
          PROVE  NameIn(internals, making'[u].info) \in DOMAIN slow' /\ slow'[NameIn(internals, making'[u].info)] = Null
      <4>1. CASE u = th
        BY <1>0, <1>2, <1>4, <1>5, <4>1
      <4>2. CASE u # th
        BY <1>1, <1>4, <1>5, <3>1, <4>2 DEF Tables, SlowRight
      <4> QED BY <4>1, <4>2
    <3>2. ASSUME NEW x \in DOMAIN slow', slow'[x] = Null
          PROVE  \E u \in Importers : making'[u] # Idle /\ NameIn(internals, making'[u].info) = x
      <4>1. CASE x = t
        BY <1>0, <1>2, <1>4, <4>1
      <4>2. CASE x # t
        <5>1. PICK u \in Importers : making[u] # Idle /\ NameIn(internals, making[u].info) = x
          BY <1>1, <1>5, <3>2, <4>2 DEF Tables, SlowRight
        <5> QED BY <5>1, <1>4, <1>10
      <4> QED BY <4>1, <4>2
    <3>3. ASSUME NEW x \in DOMAIN slow', slow'[x] # Null
          PROVE  Bound(slow[x])' /\ NameIn(internals, type_data'[slow'[x]].info) = x
      <4>1. x \in DOMAIN slow /\ slow'[x] = slow[x]
        BY <1>5, <3>3
      <4>2. Bound(slow[x]) /\ NameIn(internals, type_data[slow[x]].info) = x
        BY <1>1, <3>3, <4>1, Zenon DEF Tables, SlowRight
      <4>3. PICK d : d = slow[x]
        OBVIOUS
      <4>4. Bound(d)' /\ slow'[x] = d
        BY <1>1, <4>1, <4>2, <4>3, RecordsKept
      <4>5. Bound(slow[x])'
        BY <4>4, Zenon DEF Bound, Known
      <4> QED BY <1>1, <4>1, <4>2, <4>5
    <3> QED BY <1>1, <3>1, <3>2, <3>3, Zenon DEF SlowRight
  <2>2. FastRight'
    <3>1. ASSUME NEW f \in DOMAIN fast'
          PROVE  /\ Bound(fast[f])' /\ f \in Entries(fast[f])'
                 /\ NameIn(internals, f) \in DOMAIN slow' /\ slow'[NameIn(internals, f)] = fast'[f]
      <4>1. /\ Bound(fast[f]) /\ f \in Entries(fast[f])
            /\ NameIn(internals, f) \in DOMAIN slow /\ slow[NameIn(internals, f)] = fast[f]
        BY <1>1, Zenon DEF Tables, FastRight
      <4>2. NameIn(internals, f) \in DOMAIN slow' /\ slow'[NameIn(internals, f)] = fast'[f]
        BY <1>1, <1>5, <4>1
      <4>3. Bound(fast[f])' /\ f \in Entries(fast[f])'
        BY <1>1, <4>1, Zenon DEF Bound, Known, Entries
      <4> QED BY <4>2, <4>3
    <3> QED BY <1>1, <3>1 DEF FastRight
  <2>3. EntriesKept'
    <3>1. ASSUME NEW d \in DOMAIN type_data', Bound(d)'
          PROVE  /\ NameIn(internals, type_data'[d].info) \in DOMAIN slow' /\ slow'[NameIn(internals, type_data'[d].info)] = d
                 /\ \A e \in Entries(d)' : e \in DOMAIN fast' /\ fast'[e] = d
                 /\ IsFiniteSet(Entries(d)') /\ Cardinality(Entries(d)') = 1 + Len(type_data'[d].chain)
      <4>1. Bound(d) /\ d \in DOMAIN type_data /\ Entries(d)' = Entries(d)
        BY <1>1, <3>1, RecordsKept
      <4>2. /\ NameIn(internals, type_data[d].info) \in DOMAIN slow /\ slow[NameIn(internals, type_data[d].info)] = d
            /\ \A e \in Entries(d) : e \in DOMAIN fast /\ fast[e] = d
            /\ IsFiniteSet(Entries(d)) /\ Cardinality(Entries(d)) = 1 + Len(type_data[d].chain)
        BY <1>1, <4>1 DEF Tables, EntriesKept
      <4> QED BY <1>1, <1>5, <4>1, <4>2
    <3> QED BY <1>1, <3>1 DEF EntriesKept
  <2> QED BY <2>1, <2>2, <2>3 DEF Tables
<1>11. Placed' /\ Kin'
  <2>1. ASSUME NEW u \in Importers, making'[u] # Idle
        PROVE  \/ /\ making[u] # Idle /\ making'[u].info = making[u].info
                  /\ making'[u].base = making[u].base
               \/ making'[u].info[1] \in DOMAIN internals /\ SameInternals(making'[u].info, making'[u].base)
    <3>1. CASE u = th
      BY <1>1, <1>2, <1>4, <3>1 DEF SameInternals
    <3>2. CASE u # th
      BY <1>4, <2>1, <3>2
    <3> QED BY <3>1, <3>2
  <2> QED BY <1>1, <2>1, KinKept DEF Placed
<1>12. LoadsRight' /\ OneMakes'
  <2>1. /\ waiting' \in [Importers -> {Idle} \union Loader \union Warned]
        /\ \A o \in Importers : Loading(o)' => Loading(o) /\ waiting'[o].lib = waiting[o].lib
    BY <1>1, TouchedLoads DEF Loading
  <2> QED BY <1>1, <2>1, LoadsKept
<1>13. Buried'
  BY <1>1, <1>5 DEF Buried
<1> QED BY <1>1, <1>6, <1>7, <1>8, <1>9, <1>11, <1>12, <1>13 DEF TypesIInv, LoadIInv

-----------------------------------------------------------------------------
(* Steps that add or change a record *)

\* A thread that has finished claims nothing.
LEMMA ClaimDropped ==
  ASSUME TypesTypeOK, Claims, NEW th \in Importers, making' = [making EXCEPT ![th] = Idle],
         UNCHANGED internals,
         \A d : Known(d) => Known(d)'
  PROVE  /\ making' \in [Importers -> Claim \union {Idle}] /\ making'[th] = Idle
         /\ \A u \in Importers \ {th} : making'[u] = making[u]
         /\ Claims'
<1>1. /\ making' \in [Importers -> Claim \union {Idle}] /\ making'[th] = Idle
      /\ \A u \in Importers \ {th} : making'[u] = making[u]
  BY DEF TypesTypeOK
<1>2. Claims'
  <2>1. ASSUME NEW u \in Importers, making'[u] # Idle, making'[u].base # Null
        PROVE  Known(making[u].base)' /\ making'[u].base = making[u].base
    <3>1. making'[u] = making[u]
      BY <1>1, <2>1
    <3>2. Known(making[u].base)
      BY <2>1, <3>1, Zenon DEF Claims
    <3>3. PICK e : e = making[u].base
      OBVIOUS
    <3>4. Known(e)' /\ making'[u].base = e
      BY <3>1, <3>2, <3>3
    <3> QED BY <3>1, <3>4, Zenon DEF Known
  <2>2. ASSUME NEW u \in Importers, making'[u] # Idle, NEW v \in Importers \ {u}, making'[v] # Idle
        PROVE  NameIn(internals, making'[v].info) # NameIn(internals, making'[u].info)
    <3>1. making'[u] = making[u] /\ making'[v] = making[v]
      BY <1>1, <2>2
    <3> QED BY <2>2, <3>1 DEF Claims
  <2> QED BY <2>1, <2>2, Zenon DEF Claims
<1> QED BY <1>1, <1>2

\* Lineage, with a name for the base.
LEMMA LineageByBase ==
  ASSUME \A e \in DOMAIN type_data' : \A f : f = type_data'[e].base =>
           /\ f < e
           /\ type_data'[e].kind = "python" => f # Null
           /\ Known(e)' /\ f # Null =>
                /\ Known(f)'
                /\ type_data'[f].flags \intersect Inherited \subseteq type_data'[e].flags
  PROVE  Lineage'
  BY Zenon DEF Lineage, Known

LEMMA RegisterKeeps ==
  ASSUME TypesIInv, NEW th \in Importers, Register(th)
  PROVE  TypesIInv'
<1>0. PICK i, b, d, c, t : /\ i = making[th].info /\ b = making[th].base /\ d = Len(type_data) + 1
                           /\ c = TypeOf(i) /\ t = NameIn(internals, i)
  OBVIOUS
<1> DEFINE r == [info |-> i, kind |-> Kind(c), base |-> b, alive |-> TRUE, chain |-> <<>>,
                 flags |-> FlagsOf(c, b), implicit |-> {}]
<1>1. /\ state = "live" /\ making[th] # Idle /\ UNCHANGED <<loadVars, internals, deleted, freed, waiting>>
      /\ making' = [making EXCEPT ![th] = Idle]
      /\ TypesTypeOK /\ Lineage /\ Owned /\ Claims /\ Tables /\ Placed /\ Kin
      /\ LoadsRight /\ OneMakes /\ Buried
      /\ \/ state' = "undefined" /\ UNCHANGED <<slow, fast, type_data>>
         \/ /\ type_data' = Append(type_data, r) /\ fast' = With(fast, i, d) /\ slow' = With(slow, t, d)
            /\ state' = "live"
  <2>1. state = "live" /\ making[th] # Idle /\ UNCHANGED <<loadVars, internals, deleted, freed, waiting>>
        /\ making' = [making EXCEPT ![th] = Idle]
    BY DEF Register, loadVars
  <2>2. \/ state' = "undefined" /\ UNCHANGED <<slow, fast, type_data>>
        \/ /\ type_data' = Append(type_data, r) /\ fast' = With(fast, i, d) /\ slow' = With(slow, t, d)
           /\ state' = state
    BY <1>0, Zenon DEF Register
  <2> QED BY <2>1, <2>2 DEF TypesIInv, LoadIInv
<1>4. LoadsRight' /\ OneMakes' /\ Buried'
  BY <1>1, LoadsUntouched
<1>2. CASE state' = "undefined" /\ UNCHANGED <<slow, fast, type_data>>
  <2>1. making' \in [Importers -> Claim \union {Idle}] /\ Claims'
    BY <1>1, <1>2, RecordsKept, ClaimDropped
  <2>2. TypesTypeOK'
    BY <1>1, <1>2, <2>1 DEF TypesTypeOK
  <2>3. Lineage' /\ Owned'
    BY <1>1, <1>2, QuietRecords
  <2>4. Placed' /\ Kin'
    <3>1. \A u \in Importers : making'[u] # Idle => making'[u] = making[u]
      BY <1>1 DEF TypesTypeOK
    <3> QED BY <1>1, <1>2, <3>1, KinKept DEF Placed
  <2> QED BY <1>1, <1>2, <1>4, <2>1, <2>2, <2>3, <2>4 DEF TypesIInv, LoadIInv
<1>3. CASE /\ type_data' = Append(type_data, r) /\ fast' = With(fast, i, d) /\ slow' = With(slow, t, d)
           /\ state' = "live"
  <2>1. /\ i \in Infos /\ b \in Nat /\ c \in CppTypes /\ Len(type_data) \in Nat /\ d \in Nat /\ d # Null
        /\ Kind(c) \in {"enum", "class"}
    <3>1. i \in Infos /\ b \in Nat
      BY <1>0, <1>1, ClaimFields
    <3>2. c \in CppTypes
      BY <1>0, <3>1 DEF Infos, TypeOf
    <3>3. Len(type_data) \in Nat
      BY <1>1, Records
    <3> QED BY <1>0, <3>1, <3>2, <3>3 DEF Null, Kind
  <2>2. b # Null => Known(b) /\ b \in DOMAIN type_data
    BY <1>0, <1>1, Zenon DEF Claims, Known
  <2>3. FlagsOf(c, b) \subseteq Flag
        /\ (b # Null => type_data[b].flags \intersect Inherited \subseteq FlagsOf(c, b))
    <3>1. Flags[c] \subseteq Flag
      BY <2>1 DEF Flag
    <3>2. CASE b = Null
      BY <3>1, <3>2 DEF FlagsOf
    <3>3. CASE b # Null
      <4>1. type_data[b].flags \subseteq Flag
        BY <1>1, <2>2, <3>3, RecordFields
      <4>2. FlagsOf(c, b) = Flags[c] \union (type_data[b].flags \intersect Inherited)
        BY <3>3 DEF FlagsOf
      <4> QED BY <3>1, <4>1, <4>2
    <3> QED BY <3>2, <3>3
  <2>4. /\ r \in Data /\ r.info = i /\ r.kind # "python" /\ r.base = b /\ r.alive = TRUE
        /\ r.chain = <<>> /\ r.flags = FlagsOf(c, b) /\ r.implicit = {}
    BY <2>1, <2>3 DEF Data
  <2>5. /\ type_data' \in Seq(Data) /\ DOMAIN type_data' = DOMAIN type_data \union {d}
        /\ d \notin DOMAIN type_data /\ type_data'[d] = r
        /\ \A e \in DOMAIN type_data :
             /\ type_data'[e] = type_data[e] /\ (Known(e)' <=> Known(e))
             /\ Entries(e)' = Entries(e) /\ (Bound(e)' <=> Bound(e))
    <3> HIDE DEF r
    <3> QED BY <1>0, <1>1, <1>3, <2>4, RecordAdded
  <2> HIDE DEF r
  <2>6. Known(d)' /\ Bound(d)' /\ Entries(d)' = {i}
    <3>1. Known(d)'
      BY <2>4, <2>5 DEF Known
    <3>2. Bound(d)'
      BY <2>4, <2>5, <3>1 DEF Bound
    <3>3. Range(<<>>) = {}
      BY DEF Range
    <3>4. Entries(d)' = {i}
      BY <2>4, <2>5, <3>3 DEF Entries
    <3> QED BY <3>1, <3>2, <3>4
  <2>7. \A e : Known(e) => e \in DOMAIN type_data /\ Known(e)' /\ e # d
    BY <1>1, <2>5, Records
  <2>8. /\ making' \in [Importers -> Claim \union {Idle}] /\ making'[th] = Idle
        /\ \A u \in Importers \ {th} : making'[u] = making[u]
        /\ Claims'
    BY <1>1, <2>7, ClaimDropped
  <2>9. /\ t \in DOMAIN slow /\ slow[t] = Null /\ DOMAIN slow' = DOMAIN slow /\ slow'[t] = d
        /\ \A x \in DOMAIN slow \ {t} : slow'[x] = slow[x]
    <3>1. t \in DOMAIN slow /\ slow[t] = Null
      BY <1>0, <1>1 DEF Tables, SlowRight
    <3>2. slow' = With(slow, t, d)
      BY <1>3
    <3> QED BY <3>1, <3>2 DEF With
  <2>10. /\ DOMAIN fast' = DOMAIN fast \union {i} /\ fast'[i] = d /\ i \notin DOMAIN fast
         /\ \A x \in DOMAIN fast : fast'[x] = fast[x]
    <3>1. i \notin DOMAIN fast
      <4>1. SUFFICES ASSUME i \in DOMAIN fast PROVE FALSE
        OBVIOUS
      <4>2. Bound(fast[i]) /\ slow[t] = fast[i]
        BY <1>0, <1>1, <4>1, Zenon DEF Tables, FastRight
      <4>3. Known(Null)
        BY <2>9, <4>2, Zenon DEF Bound
      <4> QED BY <1>1, <4>3, Records
    <3>2. fast' = With(fast, i, d)
      BY <1>3
    <3>3. /\ DOMAIN fast' = DOMAIN fast \union {i} /\ fast'[i] = d
          /\ \A x \in DOMAIN fast \ {i} : fast'[x] = fast[x]
      BY <3>2 DEF With
    <3> QED BY <3>1, <3>3
  <2>11. TypesTypeOK'
    <3>1. DOMAIN slow' \subseteq Nat \X CppTypes /\ \A x \in DOMAIN slow' : slow'[x] \in Nat
      BY <1>1, <2>1, <2>9 DEF TypesTypeOK
    <3>2. DOMAIN fast' \subseteq Infos /\ \A x \in DOMAIN fast' : fast'[x] \in Nat
      BY <1>1, <2>1, <2>10 DEF TypesTypeOK
    <3> QED BY <1>1, <2>5, <2>8, <3>1, <3>2 DEF TypesTypeOK
  <2>12. Lineage'
    <3>1. ASSUME NEW e \in DOMAIN type_data', NEW f, f = type_data'[e].base
          PROVE  /\ f < e
                 /\ type_data'[e].kind = "python" => f # Null
                 /\ Known(e)' /\ f # Null =>
                      /\ Known(f)'
                      /\ type_data'[f].flags \intersect Inherited \subseteq type_data'[e].flags
      <4>1. CASE e = d
        <5>1. f = b /\ b < d
          <6>1. CASE b = Null
            BY <1>0, <2>1, <2>4, <2>5, <3>1, <4>1, <6>1 DEF Null
          <6>2. CASE b # Null
            BY <1>0, <1>1, <2>1, <2>2, <2>4, <2>5, <3>1, <4>1, <6>2, Records
          <6> QED BY <6>1, <6>2
        <5>2. b # Null => type_data'[b] = type_data[b] /\ Known(b)'
          BY <2>2, <2>5, <2>7
        <5> QED BY <2>3, <2>4, <2>5, <4>1, <5>1, <5>2
      <4>2. CASE e # d
        <5>1. e \in DOMAIN type_data /\ type_data'[e] = type_data[e] /\ (Known(e)' <=> Known(e))
          BY <2>5, <4>2
        <5>2. f = type_data[e].base
          BY <3>1, <5>1
        <5>3. /\ f < e
              /\ type_data[e].kind = "python" => f # Null
              /\ Known(e) /\ f # Null =>
                   /\ Known(f)
                   /\ type_data[f].flags \intersect Inherited \subseteq type_data[e].flags
          BY <1>1, <5>1, <5>2, Zenon DEF Lineage
        <5>4. Known(f) => Known(f)' /\ type_data'[f] = type_data[f]
          BY <2>5, <2>7
        <5> QED BY <5>1, <5>3, <5>4
      <4> QED BY <4>1, <4>2
    <3> QED BY <3>1, LineageByBase
  <2>13. Owned'
    <3>1. ASSUME NEW e \in DOMAIN type_data', NEW l \in type_data'[e].implicit PROVE l[1] = e
      BY <1>1, <2>4, <2>5, <3>1 DEF Owned
    <3>2. ASSUME NEW l \in freed' PROVE ~Known(l[1])' /\ l[1] \in DOMAIN type_data'
      <4>1. ~Known(l[1]) /\ l[1] \in DOMAIN type_data
        BY <1>1, <3>2 DEF Owned
      <4> QED BY <2>5, <4>1
    <3> QED BY <3>1, <3>2, Zenon DEF Owned
  <2>14. SlowRight'
    <3>1. ASSUME NEW u \in Importers, making'[u] # Idle
          PROVE  /\ NameIn(internals, making'[u].info) \in DOMAIN slow' /\ slow'[NameIn(internals, making'[u].info)] = Null
      <4>1. u # th /\ making'[u] = making[u]
        BY <2>8, <3>1
      <4>2. /\ NameIn(internals, making[u].info) \in DOMAIN slow /\ slow[NameIn(internals, making[u].info)] = Null
            /\ NameIn(internals, making[u].info) # t
        BY <1>0, <1>1, <3>1, <4>1 DEF Tables, SlowRight, Claims
      <4> QED BY <2>9, <4>1, <4>2
    <3>2. ASSUME NEW x \in DOMAIN slow', slow'[x] = Null
          PROVE  \E u \in Importers : making'[u] # Idle /\ NameIn(internals, making'[u].info) = x
      <4>1. x # t /\ x \in DOMAIN slow /\ slow[x] = Null
        BY <2>1, <2>9, <3>2
      <4>2. PICK u \in Importers : making[u] # Idle /\ NameIn(internals, making[u].info) = x
        BY <1>1, <4>1 DEF Tables, SlowRight
      <4>3. u # th
        BY <1>0, <4>1, <4>2
      <4> QED BY <2>8, <4>2, <4>3
    <3>3. ASSUME NEW x \in DOMAIN slow', NEW e, e = slow'[x], e # Null
          PROVE  Bound(e)' /\ NameIn(internals, type_data'[e].info) = x
      <4>1. CASE x = t
        BY <1>0, <2>4, <2>5, <2>6, <2>9, <3>3, <4>1
      <4>2. CASE x # t
        <5>1. x \in DOMAIN slow /\ slow[x] = e
          BY <2>9, <3>3, <4>2
        <5>2. Bound(e) /\ NameIn(internals, type_data[e].info) = x
          BY <1>1, <3>3, <5>1, Zenon DEF Tables, SlowRight
        <5>3. e \in DOMAIN type_data
          BY <5>2 DEF Bound, Known
        <5> QED BY <2>5, <5>2, <5>3
      <4> QED BY <4>1, <4>2
    <3>4. ASSUME NEW x \in DOMAIN slow', slow'[x] # Null
          PROVE  Bound(slow[x])' /\ NameIn(internals, type_data'[slow'[x]].info) = x
      <4>1. PICK e : e = slow'[x]
        OBVIOUS
      <4>2. Bound(e)' /\ NameIn(internals, type_data'[e].info) = x
        BY <3>3, <3>4, <4>1
      <4> QED BY <4>1, <4>2, Zenon DEF Bound, Known
    <3> QED BY <1>1, <3>1, <3>2, <3>4, Zenon DEF SlowRight
  <2>15. FastRight'
    <3>1. ASSUME NEW x \in DOMAIN fast', NEW e, e = fast'[x]
          PROVE  Bound(e)' /\ x \in Entries(e)' /\ NameIn(internals, x) \in DOMAIN slow' /\ slow'[NameIn(internals, x)] = e
      <4>1. CASE x = i
        BY <1>0, <2>6, <2>9, <2>10, <3>1, <4>1
      <4>2. CASE x # i
        <5>1. x \in DOMAIN fast /\ fast[x] = e
          BY <2>10, <3>1, <4>2
        <5>2. Bound(e) /\ x \in Entries(e) /\ NameIn(internals, x) \in DOMAIN slow /\ slow[NameIn(internals, x)] = e
          BY <1>1, <5>1, Zenon DEF Tables, FastRight
        <5>3. e \in DOMAIN type_data
          BY <5>2 DEF Bound, Known
        <5>4. e # Null
          BY <1>1, <5>3, Records
        <5> QED BY <2>5, <2>9, <5>2, <5>3, <5>4
      <4> QED BY <4>1, <4>2
    <3> QED BY <1>1, <3>1, Zenon DEF FastRight, Bound, Known, Entries
  <2>16. EntriesKept'
    <3>1. ASSUME NEW e \in DOMAIN type_data', Bound(e)'
          PROVE  /\ NameIn(internals, type_data'[e].info) \in DOMAIN slow' /\ slow'[NameIn(internals, type_data'[e].info)] = e
                 /\ \A x \in Entries(e)' : x \in DOMAIN fast' /\ fast'[x] = e
                 /\ IsFiniteSet(Entries(e)') /\ Cardinality(Entries(e)') = 1 + Len(type_data'[e].chain)
      <4>1. CASE e = d
        <5>1. IsFiniteSet({i}) /\ Cardinality({i}) = 1 /\ Len(<<>>) = 0
          BY FS_Singleton
        <5>2. type_data'[e].info = i /\ Len(type_data'[e].chain) = 0
          BY <2>4, <2>5, <4>1, <5>1
        <5>3. Entries(e)' = {i}
          BY <2>6, <4>1
        <5>4. IsFiniteSet(Entries(e)') /\ Cardinality(Entries(e)') = 1 + Len(type_data'[e].chain)
          BY <5>1, <5>2, <5>3
        <5> QED BY <1>0, <2>9, <2>10, <4>1, <5>2, <5>3, <5>4
      <4>2. CASE e # d
        <5>1. e \in DOMAIN type_data /\ Bound(e)
          BY <2>5, <3>1, <4>2
        <5>2. /\ NameIn(internals, type_data[e].info) \in DOMAIN slow /\ slow[NameIn(internals, type_data[e].info)] = e
              /\ \A x \in Entries(e) : x \in DOMAIN fast /\ fast[x] = e
              /\ IsFiniteSet(Entries(e)) /\ Cardinality(Entries(e)) = 1 + Len(type_data[e].chain)
          BY <1>1, <5>1 DEF Tables, EntriesKept
        <5>3. e # Null
          BY <1>1, <5>1, Records
        <5> QED BY <2>5, <2>9, <2>10, <5>1, <5>2, <5>3
      <4> QED BY <4>1, <4>2
    <3> QED BY <1>1, <3>1 DEF EntriesKept
  <2>17. Placed' /\ Kin'
    <3>1. \A u \in Importers : making'[u] # Idle => making'[u] = making[u] /\ making[u] # Idle
      BY <2>8
    <3>2. i[1] \in DOMAIN internals /\ SameInternals(i, b)
      BY <1>0, <1>1 DEF Placed, Kin
    <3>3. \A x \in DOMAIN fast' : x[1] \in DOMAIN internals
      BY <1>1, <2>10, <3>2 DEF Placed
    <3>4. ASSUME NEW e \in DOMAIN type_data'
          PROVE  \/ e \in DOMAIN type_data /\ type_data'[e].base = type_data[e].base
                 \/ /\ type_data'[e].info[1] \in DOMAIN internals
                    /\ SameInternals(type_data'[e].info, type_data'[e].base)
      BY <2>4, <2>5, <3>2
    <3> QED BY <1>1, <2>5, <3>1, <3>3, <3>4, KinKept
  <2> QED BY <1>1, <1>3, <1>4, <2>8, <2>11, <2>12, <2>13, <2>14, <2>15, <2>16, <2>17
          DEF TypesIInv, Tables, LoadIInv
<1> QED BY <1>1, <1>2, <1>3

\* A changed record of which only the chain or the lists are new.
LEMMA DetailChanged ==
  ASSUME TypesTypeOK, Lineage, Owned, Claims, NEW d \in DOMAIN type_data, NEW r \in Data,
         Placed, Kin, type_data' = [type_data EXCEPT ![d] = r],
         UNCHANGED <<internals, making, freed>>, \A i \in DOMAIN fast' : i[1] \in DOMAIN internals,
         r.info = type_data[d].info, r.kind = type_data[d].kind, r.base = type_data[d].base,
         r.alive = type_data[d].alive, r.flags = type_data[d].flags,
         \A l \in r.implicit : l[1] = d
  PROVE  /\ Lineage' /\ Owned' /\ Claims' /\ Placed' /\ Kin'
         /\ \A e : (Known(e)' <=> Known(e)) /\ (Bound(e)' <=> Bound(e))
         /\ DOMAIN type_data' = DOMAIN type_data
         /\ \A e \in DOMAIN type_data : type_data'[e].info = type_data[e].info
<1>1. /\ DOMAIN type_data' = DOMAIN type_data /\ type_data'[d] = r
      /\ \A e \in DOMAIN type_data \ {d} :
           /\ type_data'[e] = type_data[e] /\ (Known(e)' <=> Known(e)) /\ (Bound(e)' <=> Bound(e))
  BY RecordChanged
<1>2. \A e \in DOMAIN type_data :
        /\ type_data'[e].info = type_data[e].info /\ type_data'[e].kind = type_data[e].kind
        /\ type_data'[e].base = type_data[e].base /\ type_data'[e].flags = type_data[e].flags
  BY <1>1
<1>3. ASSUME NEW e PROVE Known(e)' <=> Known(e)
  <2>1. CASE e = d
    <3>1. type_data'[d].alive = type_data[d].alive
      BY <1>1
    <3> QED BY <1>1, <2>1, <3>1, Zenon DEF Known
  <2>2. CASE e # d /\ e \in DOMAIN type_data
    BY <1>1, <2>2
  <2>3. CASE e \notin DOMAIN type_data
    BY <1>1, <2>3, Zenon DEF Known
  <2> QED BY <2>1, <2>2, <2>3
<1>4. ASSUME NEW e PROVE Bound(e)' <=> Bound(e)
  <2>1. Known(e) => e \in DOMAIN type_data
    BY DEF Known
  <2> QED BY <1>2, <1>3, <2>1, Zenon DEF Bound
<1>5. Lineage'
  <2>1. ASSUME NEW e \in DOMAIN type_data', NEW f, f = type_data'[e].base
        PROVE  /\ f < e
               /\ type_data'[e].kind = "python" => f # Null
               /\ Known(e)' /\ f # Null =>
                    /\ Known(f)'
                    /\ type_data'[f].flags \intersect Inherited \subseteq type_data'[e].flags
    <3>1. f = type_data[e].base /\ e \in DOMAIN type_data
      BY <1>1, <1>2, <2>1
    <3>2. /\ f < e
          /\ type_data[e].kind = "python" => f # Null
          /\ Known(e) /\ f # Null =>
               /\ Known(f)
               /\ type_data[f].flags \intersect Inherited \subseteq type_data[e].flags
      BY <3>1, Zenon DEF Lineage
    <3>3. Known(f) => f \in DOMAIN type_data
      BY DEF Known
    <3>4. ASSUME Known(e)', f # Null
          PROVE  Known(f)' /\ type_data'[f].flags \intersect Inherited \subseteq type_data'[e].flags
      <4>1. Known(f) /\ f \in DOMAIN type_data
            /\ type_data[f].flags \intersect Inherited \subseteq type_data[e].flags
        BY <1>3, <3>2, <3>3, <3>4
      <4>2. type_data'[f].flags = type_data[f].flags /\ type_data'[e].flags = type_data[e].flags
        BY <1>2, <3>1, <4>1
      <4> QED BY <1>3, <4>1, <4>2
    <3>5. type_data'[e].kind = type_data[e].kind
      BY <1>2, <3>1
    <3> QED BY <3>2, <3>4, <3>5, Zenon
  <2> QED BY <2>1, LineageByBase
<1>6. Owned'
  <2>1. ASSUME NEW e \in DOMAIN type_data', NEW l \in type_data'[e].implicit PROVE l[1] = e
    BY <1>1, <2>1 DEF Owned
  <2>2. ASSUME NEW l \in freed' PROVE ~Known(l[1])' /\ l[1] \in DOMAIN type_data'
    <3>1. ~Known(l[1]) /\ l[1] \in DOMAIN type_data
      BY <2>2 DEF Owned
    <3> QED BY <1>1, <1>3, <3>1
  <2> QED BY <2>1, <2>2, Zenon DEF Owned
<1>7. Claims'
  <2>1. ASSUME NEW u \in Importers, making[u] # Idle, NEW f, f = making[u].base, f # Null
        PROVE  Known(f)'
    BY <1>3, <2>1, Zenon DEF Claims
  <2>2. ASSUME NEW u \in Importers, making'[u] # Idle, NEW v \in Importers \ {u}, making'[v] # Idle
        PROVE  NameIn(internals, making'[v].info) # NameIn(internals, making'[u].info)
    BY <2>2 DEF Claims
  <2>3. UNCHANGED making /\ UNCHANGED internals
    OBVIOUS
  <2> QED BY <2>1, <2>2, <2>3, Zenon DEF Claims, Known
<1>8. Placed' /\ Kin'
  BY <1>1, <1>2, KinKept
<1> QED BY <1>1, <1>2, <1>3, <1>4, <1>5, <1>6, <1>7, <1>8

LEMMA AddImplicitKeeps ==
  ASSUME TypesIInv, NEW d \in DOMAIN type_data, NEW list \in {"cpp", "py"}, AddImplicit(d, list)
  PROVE  TypesIInv'
<1> DEFINE q == type_data[d]
           r == [q EXCEPT !.implicit = @ \union {<<d, list>>}]
<1>1. /\ state = "live"
      /\ UNCHANGED <<loadVars, internals, deleted, state, slow, fast, freed, making, waiting>>
      /\ TypesTypeOK /\ Lineage /\ Owned /\ Claims /\ Tables /\ Placed /\ Kin
      /\ LoadsRight /\ OneMakes /\ Buried
      /\ type_data' = [type_data EXCEPT ![d] = r]
  BY DEF AddImplicit, TypesIInv, LoadIInv, loadVars
<1>2. q \in Data /\ d \in Nat
  BY <1>1, Records
<1>3. /\ r \in Data /\ r.info = q.info /\ r.kind = q.kind /\ r.base = q.base /\ r.alive = q.alive
      /\ r.flags = q.flags /\ r.chain = q.chain /\ r.implicit = q.implicit \union {<<d, list>>}
  BY <1>2 DEF Data, List
<1>4. \A l \in r.implicit : l[1] = d
  BY <1>1, <1>3 DEF Owned
<1> HIDE DEF r
<1>5. /\ Lineage' /\ Owned' /\ Claims' /\ Placed' /\ Kin'
      /\ \A e : (Known(e)' <=> Known(e)) /\ (Bound(e)' <=> Bound(e))
      /\ \A e \in DOMAIN type_data : type_data'[e].info = type_data[e].info
  <2>1. \A i \in DOMAIN fast' : i[1] \in DOMAIN internals
    BY <1>1 DEF Placed
  <2> QED BY <1>1, <1>3, <1>4, <2>1, DetailChanged
<1>6. /\ type_data' \in Seq(Data) /\ type_data'[d] = r
      /\ \A e \in DOMAIN type_data \ {d} : type_data'[e] = type_data[e] /\ Entries(e)' = Entries(e)
  BY <1>1, <1>3, RecordChanged
<1>7. TypesTypeOK'
  BY <1>1, <1>6 DEF TypesTypeOK
<1>8. Tables'
  <2>1. ASSUME NEW e, Bound(e)
        PROVE  /\ type_data'[e].info = type_data[e].info
               /\ Len(type_data'[e].chain) = Len(type_data[e].chain)
               /\ Entries(e)' = Entries(e)
    <3>1. e \in DOMAIN type_data
      BY <2>1 DEF Bound, Known
    <3>2. CASE e = d
      BY <1>3, <1>6, <3>2 DEF Entries
    <3>3. CASE e # d
      BY <1>6, <3>1, <3>3
    <3> QED BY <3>2, <3>3
  <2>2. /\ UNCHANGED <<slow, fast, making>> /\ \A e : Bound(e)' <=> Bound(e)
    BY <1>1, <1>5
  <2> QED BY <1>1, <2>1, <2>2, TablesKept
<1>9. LoadsRight' /\ OneMakes' /\ Buried'
  BY <1>1, LoadsUntouched
<1> QED BY <1>1, <1>5, <1>7, <1>8, <1>9 DEF TypesIInv, LoadIInv

LEMMA ChainGrows ==
  ASSUME NEW S, NEW s \in Seq(S), NEW x \in S
  PROVE  /\ <<x>> \o s \in Seq(S) /\ Len(<<x>> \o s) = Len(s) + 1
         /\ Range(<<x>> \o s) = {x} \union Range(s)
<1>1. <<x>> \o s \in Seq(S) /\ Len(<<x>> \o s) = Len(s) + 1 /\ Len(s) \in Nat
  OBVIOUS
<1>2. /\ (<<x>> \o s)[1] = x /\ \A n \in 1..Len(s) : (<<x>> \o s)[n + 1] = s[n]
      /\ \A n \in 1..Len(s) + 1 : n # 1 => (<<x>> \o s)[n] = s[n - 1]
  OBVIOUS
<1> DEFINE z == <<x>> \o s
<1>3. DOMAIN z = 1..Len(s) + 1 /\ DOMAIN s = 1..Len(s)
  BY <1>1
<1> HIDE DEF z
<1>4. Range(z) \subseteq {x} \union Range(s)
  <2>1. ASSUME NEW n \in 1..Len(s) + 1, n # 1 PROVE n - 1 \in 1..Len(s)
    BY <1>1, <2>1
  <2> QED BY <1>2, <1>3, <2>1 DEF Range, z
<1>5. {x} \union Range(s) \subseteq Range(z)
  <2>1. 1 \in 1..Len(s) + 1 /\ \A n \in 1..Len(s) : n + 1 \in 1..Len(s) + 1
    BY <1>1
  <2>2. x \in Range(z)
    <3>1. z[1] = x /\ 1 \in DOMAIN z
      BY <1>2, <1>3, <2>1 DEF z
    <3> QED BY <3>1 DEF Range
  <2>3. ASSUME NEW n \in 1..Len(s) PROVE s[n] \in Range(z)
    <3>1. z[n + 1] = s[n] /\ n + 1 \in DOMAIN z
      BY <1>2, <1>3, <2>1, <2>3 DEF z
    <3> QED BY <3>1 DEF Range
  <2> QED BY <1>3, <2>2, <2>3 DEF Range
<1> QED BY <1>1, <1>4, <1>5 DEF z

\* A cached address is a new entry of the type.
LEMMA LookupKeeps ==
  ASSUME TypesIInv, NEW i \in Infos, nb_type_c2p(i)
  PROVE  TypesIInv'
<1>0. PICK t, d : t = NameIn(internals, i) /\ d = slow[t]
  OBVIOUS
<1> DEFINE q == type_data[d]
           r == [q EXCEPT !.chain = Noted(d, i)]
<1>1. /\ state = "live" /\ UNCHANGED <<loadVars, internals, deleted, slow, freed, making, waiting>>
      /\ TypesTypeOK /\ Lineage /\ Owned /\ Claims /\ Tables /\ Placed /\ Kin
      /\ LoadsRight /\ OneMakes /\ Buried
      /\ i \notin DOMAIN fast /\ t \in DOMAIN slow /\ i[1] \in DOMAIN internals
      /\ \/ state' = "null" /\ UNCHANGED <<fast, type_data>>
         \/ /\ d # Null /\ state' = "live" /\ fast' = With(fast, i, d)
            /\ type_data' = [type_data EXCEPT ![d].chain = Noted(d, i)]
  <2>1. /\ state = "live" /\ UNCHANGED <<loadVars, internals, deleted, slow, freed, making, waiting>>
        /\ i \notin DOMAIN fast /\ t \in DOMAIN slow /\ i[1] \in DOMAIN internals
    BY <1>0 DEF nb_type_c2p, loadVars
  <2>2. \/ state' = "null" /\ UNCHANGED <<fast, type_data>>
        \/ /\ d # Null /\ state' = state /\ fast' = With(fast, i, d)
           /\ type_data' = [type_data EXCEPT ![d].chain = Noted(d, i)]
    BY <1>0, Zenon DEF nb_type_c2p
  <2> QED BY <2>1, <2>2 DEF TypesIInv, LoadIInv
<1>4. LoadsRight' /\ OneMakes' /\ Buried'
  BY <1>1, LoadsUntouched
<1>2. CASE state' = "null" /\ UNCHANGED <<fast, type_data>>
  <2>1. TypesTypeOK'
    BY <1>1, <1>2 DEF TypesTypeOK
  <2>2. Lineage' /\ Owned'
    BY <1>1, <1>2, QuietRecords
  <2>3. Claims'
    BY <1>1, <1>2, RecordsKept, Zenon DEF Claims
  <2>4. Placed' /\ Kin'
    BY <1>1, <1>2, KinKept DEF Placed
  <2> QED BY <1>1, <1>2, <1>4, <2>1, <2>2, <2>3, <2>4 DEF TypesIInv, LoadIInv
<1>3. CASE /\ d # Null /\ state' = "live" /\ fast' = With(fast, i, d)
           /\ type_data' = [type_data EXCEPT ![d].chain = Noted(d, i)]
  <2>1. Bound(d) /\ NameIn(internals, q.info) = t /\ d \in DOMAIN type_data
    <3>1. Bound(d) /\ NameIn(internals, q.info) = t
      BY <1>0, <1>1, <1>3, Zenon DEF Tables, SlowRight
    <3> QED BY <3>1 DEF Bound, Known
  <2>2. q \in Data /\ d \in Nat /\ q.chain \in Seq(Infos)
    <3>1. q \in Data /\ d \in Nat
      BY <1>1, <2>1, Records
    <3> QED BY <3>1 DEF Data
  <2>3. /\ Noted(d, i) \in Seq(Infos) /\ Len(Noted(d, i)) = Len(q.chain) + 1
        /\ Range(Noted(d, i)) = {i} \union Range(q.chain)
    BY <2>2, ChainGrows DEF Noted
  <2>4. /\ r \in Data /\ r.info = q.info /\ r.kind = q.kind /\ r.base = q.base /\ r.alive = q.alive
        /\ r.flags = q.flags /\ r.chain = Noted(d, i) /\ r.implicit = q.implicit
    BY <2>2, <2>3 DEF Data
  <2>5. type_data' = [type_data EXCEPT ![d] = r]
    BY <1>3
  <2>6. \A l \in r.implicit : l[1] = d
    BY <1>1, <2>1, <2>4 DEF Owned
  <2> HIDE DEF r
  <2>9. /\ DOMAIN fast' = DOMAIN fast \union {i} /\ fast'[i] = d
        /\ \A x \in DOMAIN fast : fast'[x] = fast[x]
    BY <1>1, <1>3 DEF With
  <2>15. \A x \in DOMAIN fast' : x[1] \in DOMAIN internals
    BY <1>1, <2>9 DEF Placed
  <2>7. /\ Lineage' /\ Owned' /\ Claims' /\ Placed' /\ Kin'
        /\ \A e : (Known(e)' <=> Known(e)) /\ (Bound(e)' <=> Bound(e))
        /\ DOMAIN type_data' = DOMAIN type_data
        /\ \A e \in DOMAIN type_data : type_data'[e].info = type_data[e].info
    BY <1>1, <2>1, <2>4, <2>5, <2>6, <2>15, DetailChanged
  <2>8. /\ type_data' \in Seq(Data) /\ type_data'[d] = r
        /\ \A e \in DOMAIN type_data \ {d} : type_data'[e] = type_data[e] /\ Entries(e)' = Entries(e)
    BY <1>1, <2>1, <2>4, <2>5, RecordChanged
  <2>10. Entries(d)' = {i} \union Entries(d)
    BY <2>3, <2>4, <2>8 DEF Entries
  <2>11. TypesTypeOK'
    <3>1. DOMAIN fast' \subseteq Infos /\ \A x \in DOMAIN fast' : fast'[x] \in Nat
      BY <1>1, <2>2, <2>9 DEF TypesTypeOK
    <3> QED BY <1>1, <2>8, <3>1 DEF TypesTypeOK
  <2>12. SlowRight'
    <3>1. ASSUME NEW x \in DOMAIN slow, NEW e, e = slow[x], e # Null
          PROVE  Bound(e)' /\ NameIn(internals, type_data'[e].info) = x
      <4>1. Bound(e) /\ NameIn(internals, type_data[e].info) = x
        BY <1>1, <3>1, Zenon DEF Tables, SlowRight
      <4>2. e \in DOMAIN type_data
        BY <4>1 DEF Bound, Known
      <4> QED BY <2>7, <4>1, <4>2
    <3>2. /\ \A th \in Importers : making[th] # Idle =>
               NameIn(internals, making[th].info) \in DOMAIN slow /\ slow[NameIn(internals, making[th].info)] = Null
          /\ \A x \in DOMAIN slow :
               slow[x] = Null => \E th \in Importers : making[th] # Idle /\ NameIn(internals, making[th].info) = x
      BY <1>1 DEF Tables, SlowRight
    <3>3. UNCHANGED slow /\ UNCHANGED making /\ UNCHANGED internals
      BY <1>1
    <3> QED BY <1>1, <3>1, <3>2, <3>3, Zenon DEF SlowRight, Bound, Known
  <2>13. FastRight'
    <3>1. ASSUME NEW x \in DOMAIN fast', NEW e, e = fast'[x]
          PROVE  Bound(e)' /\ x \in Entries(e)' /\ NameIn(internals, x) \in DOMAIN slow' /\ slow'[NameIn(internals, x)] = e
      <4>1. CASE x = i
        BY <1>0, <1>1, <2>1, <2>7, <2>9, <2>10, <3>1, <4>1
      <4>2. CASE x # i
        <5>1. x \in DOMAIN fast /\ fast[x] = e
          BY <2>9, <3>1, <4>2
        <5>2. Bound(e) /\ x \in Entries(e) /\ NameIn(internals, x) \in DOMAIN slow /\ slow[NameIn(internals, x)] = e
          BY <1>1, <5>1, Zenon DEF Tables, FastRight
        <5>3. e \in DOMAIN type_data
          BY <5>2 DEF Bound, Known
        <5>4. x \in Entries(e)'
          BY <2>8, <2>10, <5>2, <5>3
        <5> QED BY <1>1, <2>7, <5>2, <5>4
      <4> QED BY <4>1, <4>2
    <3> QED BY <1>1, <3>1, Zenon DEF FastRight, Bound, Known, Entries
  <2>14. EntriesKept'
    <3>1. ASSUME NEW e \in DOMAIN type_data', Bound(e)'
          PROVE  /\ NameIn(internals, type_data'[e].info) \in DOMAIN slow' /\ slow'[NameIn(internals, type_data'[e].info)] = e
                 /\ \A x \in Entries(e)' : x \in DOMAIN fast' /\ fast'[x] = e
                 /\ IsFiniteSet(Entries(e)') /\ Cardinality(Entries(e)') = 1 + Len(type_data'[e].chain)
      <4>1. e \in DOMAIN type_data /\ Bound(e) /\ type_data'[e].info = type_data[e].info
        BY <2>7, <3>1
      <4>2. /\ NameIn(internals, type_data[e].info) \in DOMAIN slow /\ slow[NameIn(internals, type_data[e].info)] = e
            /\ \A x \in Entries(e) : x \in DOMAIN fast /\ fast[x] = e
            /\ IsFiniteSet(Entries(e)) /\ Cardinality(Entries(e)) = 1 + Len(type_data[e].chain)
        BY <1>1, <4>1 DEF Tables, EntriesKept
      <4>3. CASE e = d
        <5>1. i \notin Entries(d)
          BY <1>1, <4>2, <4>3
        <5>2. /\ IsFiniteSet({i} \union Entries(d))
              /\ Cardinality({i} \union Entries(d)) = 1 + Cardinality(Entries(d))
          <6>1. IsFiniteSet(Entries(d) \union {i})
                /\ Cardinality(Entries(d) \union {i}) = Cardinality(Entries(d)) + 1
            BY <4>2, <4>3, <5>1, FS_AddElement
          <6>2. Cardinality(Entries(d)) \in Nat
            BY <4>2, <4>3, FS_CardinalityType
          <6>3. {i} \union Entries(d) = Entries(d) \union {i}
            OBVIOUS
          <6>4. IsFiniteSet({i} \union Entries(d))
                /\ Cardinality({i} \union Entries(d)) = Cardinality(Entries(d)) + 1
            BY <6>1, <6>3, Zenon
          <6> QED BY <6>2, <6>4
        <5>3. Len(type_data'[d].chain) = Len(q.chain) + 1 /\ Len(q.chain) \in Nat
          BY <2>2, <2>3, <2>4, <2>8
        <5>4. Cardinality(Entries(d)') = 1 + Len(type_data'[d].chain) /\ IsFiniteSet(Entries(d)')
          BY <2>10, <4>2, <4>3, <5>2, <5>3
        <5>5. \A x \in Entries(d)' : x \in DOMAIN fast' /\ fast'[x] = d
          BY <2>9, <2>10, <4>2, <4>3
        <5> QED BY <1>1, <4>1, <4>2, <4>3, <5>4, <5>5
      <4>4. CASE e # d
        <5>1. type_data'[e] = type_data[e] /\ Entries(e)' = Entries(e)
          BY <2>8, <4>1, <4>4
        <5>2. \A x \in Entries(e) : x \in DOMAIN fast' /\ fast'[x] = e
          BY <2>9, <4>2
        <5> QED BY <1>1, <4>1, <4>2, <5>1, <5>2
      <4> QED BY <4>3, <4>4
    <3> QED BY <1>1, <3>1 DEF EntriesKept
  <2> QED BY <1>1, <1>3, <1>4, <2>7, <2>11, <2>12, <2>13, <2>14 DEF TypesIInv, Tables, LoadIInv
<1> QED BY <1>1, <1>2, <1>3

\* A Python class is in neither table.
LEMMA ExtendKeeps ==
  ASSUME TypesIInv, NEW d \in DOMAIN type_data, nb_type_init(d)
  PROVE  TypesIInv'
<1>0. PICK n : n = Len(type_data) + 1
  OBVIOUS
<1> DEFINE q == type_data[d]
           r == [q EXCEPT !.kind = "python", !.base = d, !.chain = <<>>, !.implicit = DerivedImplicit(d)]
<1>1. /\ state = "live"
      /\ UNCHANGED <<loadVars, internals, deleted, state, slow, fast, freed, making, waiting>>
      /\ TypesTypeOK /\ Lineage /\ Owned /\ Claims /\ Tables /\ Placed /\ Kin
      /\ LoadsRight /\ OneMakes /\ Buried
      /\ Known(d) /\ type_data' = Append(type_data, r)
  BY DEF nb_type_init, TypesIInv, LoadIInv, loadVars
<1>2. q \in Data /\ d \in Nat /\ d # Null /\ Len(type_data) \in Nat /\ d <= Len(type_data)
  BY <1>1, Records
<1>3. /\ r \in Data /\ r.info = q.info /\ r.kind = "python" /\ r.base = d /\ r.alive = q.alive
      /\ r.flags = q.flags /\ r.chain = <<>> /\ r.implicit = {}
  <2>1. <<>> \in Seq(Infos) /\ {} \in SUBSET List /\ d \in Nat
    BY <1>2
  <2> QED BY <1>2, <2>1 DEF Data, DerivedImplicit
<1> HIDE DEF r
<1>4. /\ type_data' \in Seq(Data) /\ DOMAIN type_data' = DOMAIN type_data \union {n}
      /\ n \notin DOMAIN type_data /\ n # Null /\ type_data'[n] = r
      /\ \A e \in DOMAIN type_data :
           /\ type_data'[e] = type_data[e] /\ (Known(e)' <=> Known(e))
           /\ Entries(e)' = Entries(e) /\ (Bound(e)' <=> Bound(e))
  BY <1>0, <1>1, <1>3, RecordAdded
<1>5. \A e : Known(e) => e \in DOMAIN type_data /\ Known(e)'
  BY <1>1, <1>4, Records
<1>6. ASSUME NEW e PROVE Bound(e)' <=> Bound(e)
  <2>1. CASE e \in DOMAIN type_data
    BY <1>4, <2>1
  <2>2. CASE e = n
    BY <1>3, <1>4, <2>2 DEF Bound, Known
  <2>3. CASE e \notin DOMAIN type_data /\ e # n
    BY <1>4, <2>3 DEF Bound, Known
  <2> QED BY <2>1, <2>2, <2>3
<1>7. TypesTypeOK'
  BY <1>1, <1>4 DEF TypesTypeOK
<1>8. Lineage'
  <2>1. ASSUME NEW e \in DOMAIN type_data', NEW f, f = type_data'[e].base
        PROVE  /\ f < e
               /\ type_data'[e].kind = "python" => f # Null
               /\ Known(e)' /\ f # Null =>
                    /\ Known(f)'
                    /\ type_data'[f].flags \intersect Inherited \subseteq type_data'[e].flags
    <3>1. CASE e = n
      <4>1. f = d /\ f < e
        BY <1>0, <1>2, <1>3, <1>4, <2>1, <3>1
      <4>2. Known(d)' /\ type_data'[d] = q /\ type_data'[e].flags = q.flags
        BY <1>1, <1>3, <1>4, <1>5, <3>1
      <4> QED BY <1>2, <4>1, <4>2
    <3>2. CASE e # n
      <4>1. /\ e \in DOMAIN type_data /\ type_data'[e] = type_data[e] /\ (Known(e)' <=> Known(e))
            /\ f = type_data[e].base
        BY <1>4, <2>1, <3>2
      <4>2. /\ f < e
            /\ type_data[e].kind = "python" => f # Null
            /\ Known(e) /\ f # Null =>
                 /\ Known(f)
                 /\ type_data[f].flags \intersect Inherited \subseteq type_data[e].flags
        BY <1>1, <4>1, Zenon DEF Lineage
      <4>3. Known(f) => Known(f)' /\ type_data'[f] = type_data[f]
        BY <1>4, <1>5
      <4> QED BY <4>1, <4>2, <4>3
    <3> QED BY <3>1, <3>2
  <2> QED BY <2>1, LineageByBase
<1>9. Owned'
  <2>1. ASSUME NEW e \in DOMAIN type_data', NEW l \in type_data'[e].implicit PROVE l[1] = e
    BY <1>1, <1>3, <1>4, <2>1 DEF Owned
  <2>2. ASSUME NEW l \in freed' PROVE ~Known(l[1])' /\ l[1] \in DOMAIN type_data'
    <3>1. ~Known(l[1]) /\ l[1] \in DOMAIN type_data
      BY <1>1, <2>2 DEF Owned
    <3> QED BY <1>4, <3>1
  <2> QED BY <2>1, <2>2, Zenon DEF Owned
<1>10. Claims'
  <2>1. ASSUME NEW u \in Importers, making[u] # Idle, NEW f, f = making[u].base, f # Null
        PROVE  Known(f)'
    BY <1>1, <1>5, <2>1, Zenon DEF Claims
  <2>2. ASSUME NEW u \in Importers, making'[u] # Idle, NEW v \in Importers \ {u}, making'[v] # Idle
        PROVE  NameIn(internals, making'[v].info) # NameIn(internals, making'[u].info)
    BY <1>1, <2>2 DEF Claims
  <2>3. UNCHANGED making /\ UNCHANGED internals
    BY <1>1
  <2> QED BY <2>1, <2>2, <2>3, Zenon DEF Claims, Known
<1>11. Tables'
  <2>1. ASSUME NEW e, Bound(e)
        PROVE  type_data'[e] = type_data[e] /\ Entries(e)' = Entries(e)
    BY <1>4, <1>5, <2>1 DEF Bound
  <2>2. UNCHANGED <<slow, fast, making>>
    BY <1>1
  <2> QED BY <1>1, <1>6, <2>1, <2>2, TablesKept
<1>12. Placed' /\ Kin'
  <2>1. q.info[1] \in DOMAIN internals /\ SameInternals(q.info, d)
    BY DEF Placed, SameInternals, TypesIInv, LoadIInv
  <2>2. ASSUME NEW e \in DOMAIN type_data'
        PROVE  \/ e \in DOMAIN type_data /\ type_data'[e].base = type_data[e].base
               \/ /\ type_data'[e].info[1] \in DOMAIN internals
                  /\ SameInternals(type_data'[e].info, type_data'[e].base)
    BY <1>3, <1>4, <2>1
  <2> QED BY <1>1, <1>4, <2>2, KinKept DEF Placed
<1>13. LoadsRight' /\ OneMakes' /\ Buried'
  BY <1>1, LoadsUntouched
<1> QED BY <1>1, <1>7, <1>8, <1>9, <1>10, <1>11, <1>12, <1>13 DEF TypesIInv, LoadIInv

\* The entries of a type go with it, and only those.
LEMMA ReleaseKeeps ==
  ASSUME TypesIInv, NEW d \in DOMAIN type_data, nb_type_dealloc(d)
  PROVE  TypesIInv'
<1> DEFINE q == type_data[d]
           r == [q EXCEPT !.alive = FALSE]
<1>0. PICK t, ks : t = NameIn(internals, q.info) /\ ks = Entries(d)
  OBVIOUS
<1>1. /\ state = "live" /\ UNCHANGED <<loadVars, internals, deleted>>
      /\ TypesTypeOK /\ Lineage /\ Owned /\ Claims /\ Tables /\ Placed /\ Kin
      /\ LoadsRight /\ OneMakes /\ Buried
      /\ Known(d) /\ ~Needed(d) /\ freed' = freed \union q.implicit
      /\ type_data' = [type_data EXCEPT ![d] = r]
  BY DEF nb_type_dealloc, TypesIInv, LoadIInv, loadVars
<1>2. q \in Data /\ d \in Nat /\ d # Null
  BY <1>1, Records
<1>3. /\ r \in Data /\ r.info = q.info /\ r.kind = q.kind /\ r.base = q.base /\ r.alive = FALSE
      /\ r.flags = q.flags /\ r.chain = q.chain /\ r.implicit = q.implicit
  BY <1>2 DEF Data
<1> HIDE DEF r
<1>4. /\ type_data' \in Seq(Data) /\ DOMAIN type_data' = DOMAIN type_data /\ type_data'[d] = r
      /\ \A e \in DOMAIN type_data \ {d} :
           /\ type_data'[e] = type_data[e] /\ (Known(e)' <=> Known(e))
           /\ Entries(e)' = Entries(e) /\ (Bound(e)' <=> Bound(e))
  BY <1>1, <1>3, RecordChanged
<1>5. ~Known(d)' /\ ~Bound(d)'
  BY <1>3, <1>4 DEF Known, Bound
<1>6. \A e : Known(e) => e \in DOMAIN type_data /\ (e # d => Known(e)')
  BY <1>1, <1>4, Records
<1>7. ASSUME NEW e, Known(e)' PROVE Known(e) /\ e # d /\ e \in DOMAIN type_data
  <2>1. e \in DOMAIN type_data'
    BY <1>7 DEF Known
  <2> QED BY <1>4, <1>5, <1>7, <2>1
<1>8. \/ UNCHANGED <<making, waiting>>
      \/ making' = Touched(t[1], Null) /\ waiting' = TouchedIn(waiting, t[1], Null)
  BY <1>0, Zenon DEF nb_type_dealloc
<1>9. Unmoved(making')
  BY <1>1, <1>8, SameUnmoved, TouchedUnmoved
<1>10. \A th \in Importers :
         /\ making'[th] = Idle <=> making[th] = Idle
         /\ making[th] # Idle => /\ making'[th].info = making[th].info
                                 /\ making'[th].base = making[th].base
  BY <1>9 DEF Unmoved
<1>11. Lineage'
  <2>1. ASSUME NEW e \in DOMAIN type_data', NEW f, f = type_data'[e].base
        PROVE  /\ f < e
               /\ type_data'[e].kind = "python" => f # Null
               /\ Known(e)' /\ f # Null =>
                    /\ Known(f)'
                    /\ type_data'[f].flags \intersect Inherited \subseteq type_data'[e].flags
    <3>1. e \in DOMAIN type_data /\ type_data'[e].kind = type_data[e].kind /\ f = type_data[e].base
      BY <1>3, <1>4, <2>1
    <3>2. /\ f < e
          /\ type_data[e].kind = "python" => f # Null
          /\ Known(e) /\ f # Null =>
               /\ Known(f)
               /\ type_data[f].flags \intersect Inherited \subseteq type_data[e].flags
      BY <1>1, <3>1, Zenon DEF Lineage
    <3>3. ASSUME Known(e)', f # Null
          PROVE  Known(f)' /\ type_data'[f].flags \intersect Inherited \subseteq type_data'[e].flags
      <4>1. Known(e) /\ e # d
        BY <1>7, <3>3
      <4>2. f # d
        BY <1>1, <3>1, <4>1, Zenon DEF Needed
      <4>3. Known(f) /\ f \in DOMAIN type_data
        BY <1>6, <3>2, <3>3, <4>1
      <4>4. type_data'[f] = type_data[f] /\ type_data'[e] = type_data[e]
        BY <1>4, <3>1, <4>1, <4>2, <4>3
      <4> QED BY <1>6, <3>2, <3>3, <4>1, <4>2, <4>3, <4>4
    <3> QED BY <3>1, <3>2, <3>3, Zenon
  <2> QED BY <2>1, LineageByBase
<1>12. Owned'
  <2>1. ASSUME NEW e \in DOMAIN type_data', NEW l \in type_data'[e].implicit PROVE l[1] = e
    BY <1>1, <1>3, <1>4, <2>1 DEF Owned
  <2>2. ASSUME NEW l \in freed' PROVE ~Known(l[1])' /\ l[1] \in DOMAIN type_data'
    <3>1. CASE l \in freed
      <4>1. ~Known(l[1]) /\ l[1] \in DOMAIN type_data
        BY <1>1, <3>1 DEF Owned
      <4> QED BY <1>4, <1>7, <4>1
    <3>2. CASE l \in q.implicit
      <4>1. l[1] = d
        BY <1>1, <3>2 DEF Owned
      <4> QED BY <1>4, <1>5, <4>1
    <3> QED BY <1>1, <2>2, <3>1, <3>2
  <2> QED BY <2>1, <2>2, Zenon DEF Owned
<1>13. Claims'
  <2>1. ASSUME NEW u \in Importers, making[u] # Idle, NEW f, f = making[u].base, f # Null
        PROVE  Known(f)'
    <3>1. Known(f)
      BY <1>1, <2>1, Zenon DEF Claims
    <3>2. f # d
      BY <1>1, <2>1, Zenon DEF Needed
    <3> QED BY <1>6, <3>1, <3>2
  <2>2. ASSUME NEW u \in Importers, making'[u] # Idle, NEW f, f = making'[u].base, f # Null
        PROVE  Known(f)'
    BY <1>10, <2>1, <2>2
  <2>3. ASSUME NEW u \in Importers, making'[u] # Idle, NEW v \in Importers \ {u}, making'[v] # Idle
        PROVE  NameIn(internals, making'[v].info) # NameIn(internals, making'[u].info)
    <3>1. /\ making[u] # Idle /\ making[v] # Idle
          /\ making'[u].info = making[u].info /\ making'[v].info = making[v].info
      BY <1>10, <2>3
    <3> QED BY <1>1, <3>1 DEF Claims
  <2> QED BY <1>1, <2>2, <2>3, Zenon DEF Claims, Known
<1>14. freed' \subseteq List
  <2>1. freed \subseteq List /\ q.implicit \subseteq List
    BY <1>1, RecordFields DEF TypesTypeOK
  <2> QED BY <1>1, <2>1
<1>17. Placed' /\ Kin'
  <2>1. \A i \in DOMAIN fast' : i \in DOMAIN fast
    BY Zenon DEF nb_type_dealloc, Less, Restrict
  <2>2. \A i \in DOMAIN fast' : i[1] \in DOMAIN internals
    BY <1>1, <2>1 DEF Placed
  <2>3. \A u \in Importers : making'[u] # Idle =>
           making[u] # Idle /\ making'[u].info = making[u].info /\ making'[u].base = making[u].base
    BY <1>10
  <2>4. \A e \in DOMAIN type_data : type_data'[e].info = type_data[e].info /\ type_data'[e].base = type_data[e].base
    BY <1>3, <1>4
  <2> QED BY <1>1, <1>4, <2>2, <2>3, <2>4, KinKept
<1>18. LoadsRight' /\ OneMakes'
  <2>1. /\ waiting' \in [Importers -> {Idle} \union Loader \union Warned]
        /\ \A o \in Importers : Loading(o)' => Loading(o) /\ waiting'[o].lib = waiting[o].lib
    <3>1. CASE UNCHANGED <<making, waiting>>
      BY <1>1, <3>1 DEF LoadsRight, Loading
    <3>2. CASE waiting' = TouchedIn(waiting, t[1], Null)
      BY <1>1, <3>2, TouchedLoads DEF Loading
    <3> QED BY <1>8, <3>1, <3>2
  <2> QED BY <1>1, <2>1, LoadsKept
<1>15. CASE q.kind = "python"
  <2>1. UNCHANGED <<slow, fast, making, state>>
    BY <1>15, Zenon DEF nb_type_dealloc
  <2>2. ASSUME NEW e PROVE Bound(e)' <=> Bound(e)
    <3>1. ~Bound(d)
      BY <1>15 DEF Bound
    <3>2. CASE e \notin DOMAIN type_data
      BY <1>4, <3>2 DEF Bound, Known
    <3> QED BY <1>4, <1>5, <3>1, <3>2
  <2>3. ASSUME NEW e, Bound(e)
        PROVE  type_data'[e] = type_data[e] /\ Entries(e)' = Entries(e)
    <3>1. e \in DOMAIN type_data /\ e # d
      BY <1>15, <2>3 DEF Bound, Known
    <3> QED BY <1>4, <3>1
  <2>4. Tables'
    BY <1>1, <2>1, <2>2, <2>3, TablesKept
  <2>5. TypesTypeOK'
    BY <1>1, <1>4, <1>14, <2>1 DEF TypesTypeOK
  <2>6. Buried'
    BY <1>1, <2>1 DEF Buried
  <2> QED BY <1>1, <1>11, <1>12, <1>13, <1>17, <1>18, <2>1, <2>4, <2>5, <2>6 DEF TypesIInv, LoadIInv
<1>16. CASE q.kind # "python"
  <2>1. Bound(d)
    BY <1>1, <1>16 DEF Bound
  <2>3. /\ t \in DOMAIN slow /\ slow[t] = d
        /\ \A e \in ks : e \in DOMAIN fast /\ fast[e] = d
        /\ Cardinality(ks) = 1 + Len(q.chain)
    BY <1>1, <2>1, <1>0 DEF Tables, EntriesKept
  <2>4. Unregisters(d)
    BY <1>0, <2>3 DEF Unregisters
  <2>5. slow' = Less(slow, {t}) /\ fast' = Less(fast, ks) /\ state' = state
    BY <1>0, <1>16, <2>4, Zenon DEF nb_type_dealloc
  <2>6. /\ DOMAIN slow' = DOMAIN slow \ {t} /\ \A x \in DOMAIN slow' : slow'[x] = slow[x]
        /\ DOMAIN fast' = DOMAIN fast \ ks /\ \A x \in DOMAIN fast' : fast'[x] = fast[x]
    BY <2>5 DEF Less, Restrict
  <2>7. TypesTypeOK'
    <3>1. DOMAIN slow' \subseteq Nat \X CppTypes /\ \A x \in DOMAIN slow' : slow'[x] \in Nat
      BY <1>1, <2>6 DEF TypesTypeOK
    <3>2. DOMAIN fast' \subseteq Infos /\ \A x \in DOMAIN fast' : fast'[x] \in Nat
      BY <1>1, <2>6 DEF TypesTypeOK
    <3> QED BY <1>1, <1>4, <1>9, <1>14, <3>1, <3>2 DEF TypesTypeOK, Unmoved
  <2>8. SlowRight'
    <3>1. ASSUME NEW u \in Importers, making'[u] # Idle
          PROVE  /\ NameIn(internals, making'[u].info) \in DOMAIN slow' /\ slow'[NameIn(internals, making'[u].info)] = Null
      <4>1. making[u] # Idle /\ making'[u].info = making[u].info
        BY <1>10, <3>1
      <4>2. NameIn(internals, making[u].info) \in DOMAIN slow /\ slow[NameIn(internals, making[u].info)] = Null
        BY <1>1, <4>1 DEF Tables, SlowRight
      <4> QED BY <1>2, <2>3, <2>6, <4>1, <4>2
    <3>2. ASSUME NEW x \in DOMAIN slow', slow'[x] = Null
          PROVE  \E u \in Importers : making'[u] # Idle /\ NameIn(internals, making'[u].info) = x
      <4>1. PICK u \in Importers : making[u] # Idle /\ NameIn(internals, making[u].info) = x
        BY <1>1, <2>6, <3>2 DEF Tables, SlowRight
      <4> QED BY <1>10, <4>1
    <3>3. ASSUME NEW x \in DOMAIN slow', NEW e, e = slow'[x], e # Null
          PROVE  Bound(e)' /\ NameIn(internals, type_data'[e].info) = x
      <4>1. x \in DOMAIN slow /\ slow[x] = e /\ x # t
        BY <2>6, <3>3
      <4>2. Bound(e) /\ NameIn(internals, type_data[e].info) = x
        BY <1>1, <3>3, <4>1, Zenon DEF Tables, SlowRight
      <4>3. e \in DOMAIN type_data /\ e # d
        BY <1>0, <4>1, <4>2 DEF Bound, Known
      <4> QED BY <1>4, <4>2, <4>3
    <3> QED BY <1>1, <3>1, <3>2, <3>3, Zenon DEF SlowRight, Bound, Known
  <2>9. FastRight'
    <3>1. ASSUME NEW x \in DOMAIN fast', NEW e, e = fast'[x]
          PROVE  Bound(e)' /\ x \in Entries(e)' /\ NameIn(internals, x) \in DOMAIN slow' /\ slow'[NameIn(internals, x)] = e
      <4>1. x \in DOMAIN fast /\ fast[x] = e /\ x \notin ks
        BY <2>6, <3>1
      <4>2. Bound(e) /\ x \in Entries(e) /\ NameIn(internals, x) \in DOMAIN slow /\ slow[NameIn(internals, x)] = e
        BY <1>1, <4>1, Zenon DEF Tables, FastRight
      <4>3. e \in DOMAIN type_data /\ e # d
        BY <1>0, <4>1, <4>2 DEF Bound, Known
      <4>4. NameIn(internals, x) # t
        BY <2>3, <4>2, <4>3
      <4> QED BY <1>4, <2>6, <4>2, <4>3, <4>4
    <3> QED BY <1>1, <3>1, Zenon DEF FastRight, Bound, Known, Entries
  <2>10. EntriesKept'
    <3>1. ASSUME NEW e \in DOMAIN type_data', Bound(e)'
          PROVE  /\ NameIn(internals, type_data'[e].info) \in DOMAIN slow' /\ slow'[NameIn(internals, type_data'[e].info)] = e
                 /\ \A x \in Entries(e)' : x \in DOMAIN fast' /\ fast'[x] = e
                 /\ IsFiniteSet(Entries(e)') /\ Cardinality(Entries(e)') = 1 + Len(type_data'[e].chain)
      <4>1. e \in DOMAIN type_data /\ e # d
        BY <1>4, <1>5, <3>1
      <4>2. Bound(e) /\ type_data'[e] = type_data[e] /\ Entries(e)' = Entries(e)
        BY <1>4, <3>1, <4>1
      <4>3. /\ NameIn(internals, type_data[e].info) \in DOMAIN slow /\ slow[NameIn(internals, type_data[e].info)] = e
            /\ \A x \in Entries(e) : x \in DOMAIN fast /\ fast[x] = e
            /\ IsFiniteSet(Entries(e)) /\ Cardinality(Entries(e)) = 1 + Len(type_data[e].chain)
        BY <1>1, <4>1, <4>2 DEF Tables, EntriesKept
      <4>4. NameIn(internals, type_data[e].info) # t
        BY <2>3, <4>1, <4>3
      <4>5. \A x \in Entries(e) : x \in DOMAIN fast' /\ fast'[x] = e
        BY <2>3, <2>6, <4>1, <4>3
      <4> QED BY <2>6, <4>2, <4>3, <4>4, <4>5
    <3> QED BY <1>1, <3>1 DEF EntriesKept
  <2>11. Buried'
    BY <1>1, <2>5 DEF Buried
  <2> QED BY <1>1, <1>11, <1>12, <1>13, <1>17, <1>18, <2>5, <2>7, <2>8, <2>9, <2>10, <2>11
          DEF TypesIInv, Tables, LoadIInv
<1> QED BY <1>15, <1>16

LEMMA CleanupKeeps ==
  ASSUME TypesIInv, NEW k \in 1..made, internals_cleanup(k)
  PROVE  TypesIInv'
<1>1. /\ state \in {"live", "exited"} /\ state' = "exited"
      /\ UNCHANGED <<loadVars, slow, fast, type_data, freed, making, waiting>>
      /\ deleted' = (IF Leaks(k) THEN deleted ELSE deleted \union {k})
      /\ TypesTypeOK /\ Lineage /\ Owned /\ Claims /\ Tables /\ Placed /\ Kin /\ LoadsRight /\ OneMakes
      /\ Buried
  BY DEF internals_cleanup, TypesIInv, LoadIInv
<1>0. UNCHANGED internals
  BY <1>1 DEF loadVars
<1>2. TypesTypeOK'
  BY <1>0, <1>1 DEF TypesTypeOK
<1>3. Lineage' /\ Owned'
  BY <1>1, QuietRecords
<1>4. Claims'
  BY <1>0, <1>1, RecordsKept, Zenon DEF Claims
<1>5. Tables'
  BY <1>0, <1>1, RecordsKept, TablesKept
<1>6. Placed' /\ Kin'
  BY <1>0, <1>1, KinKept DEF Placed
<1>7. LoadsRight' /\ OneMakes'
  <2>1. \A o \in Importers : Loading(o)' <=> Loading(o)
    BY <1>1 DEF Loading
  <2> QED BY <1>1, <2>1, LoadsKept DEF LoadsRight
<1>8. Buried'
  <2>1. ASSUME NEW j \in deleted', NEW n \in DOMAIN slow PROVE n[1] # j
    BY <1>1, <2>1 DEF Buried, Leaks
  <2> QED BY <1>1, <2>1 DEF Buried
<1> QED BY <1>1, <1>2, <1>3, <1>4, <1>5, <1>6, <1>7, <1>8 DEF TypesIInv, LoadIInv

\* Internals are deleted when no name of theirs is in the table: the oldest type that exists
\* in them is bound, since its base would be older and in them too, and a bound type is in
\* the table.
LEMMA DeletedUnused ==
  ASSUME TypesIInv
  PROVE  FreedWhenUnused
<1> SUFFICES ASSUME NEW c \in DOMAIN type_data, type_data[c].alive, internals[type_data[c].info[1]] \in deleted
             PROVE  FALSE
  BY DEF FreedWhenUnused
<1>0. PICK k : k = internals[type_data[c].info[1]]
  OBVIOUS
<1>1. TypesTypeOK /\ Lineage /\ Tables /\ Kin /\ Buried
  BY DEF TypesIInv, LoadIInv, Buried
<1> DEFINE within == {d \in DOMAIN type_data : Known(d) /\ internals[type_data[d].info[1]] = k}
<1>2. within \in SUBSET Nat /\ within # {}
  BY <1>0, <1>1, Records DEF Known
<1>3. PICK d \in within : \A e \in within : d <= e
  <2> HIDE DEF within
  <2> QED BY <1>2, LeastNumber
<1>4. ~Bound(d)
  <2>1. SUFFICES ASSUME Bound(d) PROVE FALSE
    OBVIOUS
  <2>2. NameIn(internals, type_data[d].info) \in DOMAIN slow
    BY <1>1, <1>3, <2>1 DEF Tables, EntriesKept
  <2>3. NameIn(internals, type_data[d].info)[1] = k
    BY <1>3 DEF NameIn
  <2> QED BY <1>0, <1>1, <2>2, <2>3 DEF Buried
<1>5. PICK b : b = type_data[d].base
  OBVIOUS
<1>6. b # Null /\ Known(b) /\ b < d
  BY <1>1, <1>3, <1>4, <1>5, Zenon DEF Lineage, Bound
<1>7. b \in within
  BY <1>1, <1>3, <1>5, <1>6 DEF Kin, SameInternals
<1>8. b \in Nat /\ d \in Nat
  BY <1>1, <1>3, <1>7, Records
<1> QED BY <1>3, <1>6, <1>7, <1>8

-----------------------------------------------------------------------------
(* The theorem *)

LEMMA TypesInitially == TypesInit => TypesIInv
<1> SUFFICES ASSUME TypesInit PROVE TypesIInv
  OBVIOUS
<1>1. /\ type_data = <<>> /\ slow = <<>> /\ fast = <<>> /\ DOMAIN <<>> = {} /\ freed = {}
      /\ state = "live" /\ making = [th \in Importers |-> Idle]
      /\ internals = <<>> /\ registry = Null /\ made = 0 /\ deleted = {}
      /\ waiting = [th \in Importers |-> Idle]
  BY DEF TypesInit
<1>2. TypesTypeOK
  BY <1>1 DEF TypesTypeOK
<1>3. Lineage /\ Owned /\ Claims
  BY <1>1 DEF Lineage, Owned, Claims
<1>4. Tables
  BY <1>1 DEF Tables, SlowRight, FastRight, EntriesKept
<1>5. Placed /\ Kin /\ Buried
  BY <1>1 DEF Placed, Kin, Buried
<1>6. LoadsRight /\ OneMakes
  <2>1. \A th \in Importers : ~Loading(th)
    BY <1>1 DEF Loading
  <2> QED BY <1>1, <2>1 DEF LoadsRight, OneMakes, Null
<1> QED BY <1>1, <1>2, <1>3, <1>4, <1>5, <1>6 DEF TypesIInv, LoadIInv

LEMMA TypesInductive == TypesIInv /\ [TypesNext]_typeVars => TypesIInv'
<1> SUFFICES ASSUME TypesIInv, [TypesNext]_typeVars PROVE TypesIInv'
  OBVIOUS
<1>1. CASE TypesNext
  <2>1. CASE \E th \in Importers, lib \in Libs : LoadLook(th, lib)
    BY <2>1, LoadLookKeeps
  <2>2. CASE \E th \in Importers, i \in Infos : Begin(th, i) \/ Again(th, i)
    BY <2>2, BeginKeeps, AgainKeeps
  <2>3. CASE \E th \in Importers : LoadSet(th) \/ Return(th) \/ Make(th) \/ Register(th)
    BY <2>3, LoadSetKeeps, ReturnKeeps, MakeKeeps, RegisterKeeps
  <2>4. CASE \E i \in Infos : nb_type_c2p(i)
    BY <2>4, LookupKeeps
  <2>5. CASE \E d \in DOMAIN type_data :
               \/ nb_type_init(d) \/ nb_type_dealloc(d)
               \/ \E list \in {"cpp", "py"} : AddImplicit(d, list)
    BY <2>5, ExtendKeeps, ReleaseKeeps, AddImplicitKeeps
  <2>6. CASE \E k \in 1..made : internals_cleanup(k)
    BY <2>6, CleanupKeeps
  <2> QED BY <1>1, <2>1, <2>2, <2>3, <2>4, <2>5, <2>6 DEF TypesNext
<1>2. CASE UNCHANGED typeVars
  <2>1. UNCHANGED <<loadVars, internals, deleted, state, slow, fast, type_data, freed, making, waiting>>
    BY <1>2 DEF typeVars, loadVars
  <2>2. TypesTypeOK'
    BY <2>1 DEF TypesIInv, TypesTypeOK
  <2>3. Lineage' /\ Owned'
    BY <2>1, QuietRecords DEF TypesIInv
  <2>4. Claims'
    BY <2>1, RecordsKept, Zenon DEF TypesIInv, Claims
  <2>5. state \in {"live", "exited"} => Tables'
    BY <2>1, RecordsKept, TablesKept DEF TypesIInv, LoadIInv
  <2>6. Placed' /\ Kin'
    BY <2>1, KinKept DEF TypesIInv, LoadIInv, Placed
  <2>7. LoadsRight' /\ OneMakes'
    <3>1. \A o \in Importers : Loading(o)' <=> Loading(o)
      BY <2>1 DEF Loading
    <3> QED BY <2>1, <3>1, LoadsKept DEF TypesIInv, LoadIInv, LoadsRight
  <2>8. Buried'
    BY <2>1 DEF TypesIInv, LoadIInv, Buried
  <2> QED BY <2>1, <2>2, <2>3, <2>4, <2>5, <2>6, <2>7, <2>8 DEF TypesIInv, LoadIInv
<1> QED BY <1>1, <1>2

LEMMA Suffices == TypesIInv => TypesRegistered
<1> SUFFICES ASSUME TypesIInv PROVE TypesRegistered
  OBVIOUS
<1>1. TypesTypeOK /\ Lineage /\ Owned /\ Claims /\ state # "not found" /\ OneMakes
      /\ (state \in {"live", "exited"} => Tables)
  BY DEF TypesIInv, LoadIInv
<1>2. TablesAgree
  <2> SUFFICES ASSUME state \in {"live", "exited"} PROVE TablesAgree
    BY DEF TablesAgree
  <2>1. Tables
    BY <1>1
  <2>2. ASSUME NEW i \in DOMAIN fast
        PROVE  Known(fast[i]) /\ slow[NameIn(internals, i)] = fast[i] /\ i \in Entries(fast[i])
    BY <2>1, Zenon DEF Tables, FastRight, Bound
  <2>3. ASSUME NEW t \in DOMAIN slow, slow[t] = Null
        PROVE  \E th \in Importers : making[th] # Idle /\ NameIn(internals, making[th].info) = t
    BY <2>1, <2>3, Zenon DEF Tables, SlowRight
  <2>4. ASSUME NEW t \in DOMAIN slow, slow[t] # Null
        PROVE  Known(slow[t]) /\ fast[type_data[slow[t]].info] = slow[t]
    <3>1. PICK d : d = slow[t]
      OBVIOUS
    <3>2. Bound(d)
      BY <2>1, <2>4, <3>1, Zenon DEF Tables, SlowRight
    <3>3. Known(d) /\ d \in DOMAIN type_data
      BY <3>2 DEF Bound, Known
    <3>4. type_data[d].info \in Entries(d)
      BY DEF Entries
    <3>5. fast[type_data[d].info] = d
      BY <2>1, <3>2, <3>3, <3>4 DEF Tables, EntriesKept
    <3> QED BY <3>1, <3>3, <3>5
  <2>5. ASSUME NEW d \in DOMAIN type_data, type_data[d].alive, type_data[d].kind # "python"
        PROVE  slow[NameIn(internals, type_data[d].info)] = d
    <3>1. Bound(d)
      BY <2>5, Zenon DEF Bound, Known
    <3> QED BY <2>1, <3>1 DEF Tables, EntriesKept
  <2> QED BY <2>2, <2>3, <2>4, <2>5, Zenon DEF TablesAgree
<1>3. RegisteredOnce
  BY <1>1 DEF RegisteredOnce, Claims
<1>4. ListsOwned
  <2>1. ASSUME NEW d \in DOMAIN type_data, Known(d), NEW l \in type_data[d].implicit
        PROVE  l \notin freed
    BY <1>1, <2>1 DEF Owned
  <2> QED BY <2>1 DEF ListsOwned
<1>5. Provides
  BY <1>1, Zenon DEF Lineage, Provides
<1>6. InternalsShared
  BY <1>1 DEF OneMakes, InternalsShared
<1>7. FreedWhenUnused
  BY DeletedUnused
<1> QED BY <1>2, <1>3, <1>4, <1>5, <1>6, <1>7 DEF TypesRegistered

\* In each of the internals the tables of types agree with the types that exist, each
\* registered once and torn down with its last user, and a derived class provides what its
\* base relies on, whatever threads import and register together; and without a race of
\* two imports all libraries share their internals
\* (init, nb_type_new, nb_type_c2p, nb_type_dealloc, internals_cleanup).
THEOREM RegistryAgrees == TypesSpec => []TypesRegistered
  BY TypesInitially, TypesInductive, Suffices, PTL DEF TypesSpec

-----------------------------------------------------------------------------
(* References to exceptions *)

HeapSet == [refs : [Values -> Nat], cause : [Values -> Values \cup {NoValue}]]

Errs == [Slots -> Values \cup {NoValue, NoSlot}]

InSlots(e, x) == {s \in Slots : e[s] = x}

Causing(h, x) == {w \in Values : h.refs[w] > 0 /\ h.cause[w] = x}

One(y, x) == IF y = x THEN 1 ELSE 0

\* The references in a heap are those that the slots e, the indicator i and the causes hold,
\* and n to o that are still to be dropped.
Reckoned(h, e, i, o, n) ==
  /\ h \in HeapSet /\ e \in Errs /\ i \in Values \cup {NoValue} /\ o \in Values \cup {NoValue} /\ n \in Nat
  /\ \A x \in Values :
       /\ h.refs[x] = Cardinality(InSlots(e, x)) + 2 * Cardinality(Causing(h, x)) + One(i, x) + n * One(o, x)
       /\ h.refs[x] = 0 => h.cause[x] = NoValue

LEMMA ValuesApart == NoValue \notin Values /\ NoSlot \notin Values /\ NoValue # NoSlot
BY ErrorsAssumption DEF NoValue, NoSlot

\* The numbers of slots and causes, and how they follow one slot and one cause.
LEMMA HoldersCounted ==
  ASSUME NEW h \in HeapSet, NEW e \in Errs, NEW x
  PROVE  /\ Cardinality(InSlots(e, x)) \in Nat /\ Cardinality(Causing(h, x)) \in Nat
         /\ Cardinality(InSlots(e, x)) = 0 => \A s \in Slots : e[s] # x
         /\ Cardinality(Causing(h, x)) = 0 => \A w \in Values : h.refs[w] > 0 => h.cause[w] # x
<1>1. InSlots(e, x) \in SUBSET Slots /\ Causing(h, x) \in SUBSET Values
  BY DEF InSlots, Causing
<1>2. IsFiniteSet(InSlots(e, x)) /\ IsFiniteSet(Causing(h, x))
  BY <1>1, ErrorsAssumption, FS_Subset
<1>3. /\ Cardinality(InSlots(e, x)) \in Nat /\ Cardinality(Causing(h, x)) \in Nat
      /\ Cardinality(InSlots(e, x)) = 0 => InSlots(e, x) = {}
      /\ Cardinality(Causing(h, x)) = 0 => Causing(h, x) = {}
  BY <1>2, FS_CardinalityType, FS_EmptySet
<1>4. InSlots(e, x) = {} => \A s \in Slots : e[s] # x
  BY DEF InSlots
<1>5. Causing(h, x) = {} => \A w \in Values : h.refs[w] > 0 => h.cause[w] # x
  BY DEF Causing
<1> QED BY <1>3, <1>4, <1>5

LEMMA SlotChange ==
  ASSUME NEW e \in Errs, NEW s \in Slots, NEW y, NEW x
  PROVE  Cardinality(InSlots([e EXCEPT ![s] = y], x)) + One(e[s], x) = Cardinality(InSlots(e, x)) + One(y, x)
<1> DEFINE e2 == [e EXCEPT ![s] = y]
<1>1. /\ InSlots(e, x) \in SUBSET Slots /\ InSlots(e2, x) \in SUBSET Slots
      /\ \A r \in Slots : r # s => (r \in InSlots(e, x) <=> r \in InSlots(e2, x))
      /\ s \in InSlots(e, x) <=> e[s] = x
      /\ s \in InSlots(e2, x) <=> y = x
  BY DEF InSlots, Errs
<1> HIDE DEF e2
<1>2. /\ Cardinality(InSlots(e, x)) \in Nat /\ Cardinality(InSlots(e2, x)) \in Nat
      /\ Cardinality(InSlots(e2, x)) + (IF s \in InSlots(e, x) THEN 1 ELSE 0)
           = Cardinality(InSlots(e, x)) + (IF s \in InSlots(e2, x) THEN 1 ELSE 0)
  BY <1>1, ErrorsAssumption, PointChange
<1> QED BY <1>1, <1>2 DEF One, e2

\* A cause that changes at z alone, or z's life.
LEMMA CauseChange ==
  ASSUME NEW h \in HeapSet, NEW g \in HeapSet, NEW z \in Values, NEW x,
         \A w \in Values : w # z => (g.refs[w] > 0 <=> h.refs[w] > 0) /\ g.cause[w] = h.cause[w]
  PROVE  Cardinality(Causing(g, x)) + (IF h.refs[z] > 0 /\ h.cause[z] = x THEN 1 ELSE 0)
           = Cardinality(Causing(h, x)) + (IF g.refs[z] > 0 /\ g.cause[z] = x THEN 1 ELSE 0)
<1>1. /\ Causing(h, x) \in SUBSET Values /\ Causing(g, x) \in SUBSET Values
      /\ \A w \in Values : w # z => (w \in Causing(h, x) <=> w \in Causing(g, x))
      /\ z \in Causing(h, x) <=> h.refs[z] > 0 /\ h.cause[z] = x
      /\ z \in Causing(g, x) <=> g.refs[z] > 0 /\ g.cause[z] = x
  BY DEF Causing
<1>2. /\ Cardinality(Causing(h, x)) \in Nat /\ Cardinality(Causing(g, x)) \in Nat
      /\ Cardinality(Causing(g, x)) + (IF z \in Causing(h, x) THEN 1 ELSE 0)
           = Cardinality(Causing(h, x)) + (IF z \in Causing(g, x) THEN 1 ELSE 0)
  BY <1>1, ErrorsAssumption, PointChange
<1> QED BY <1>1, <1>2

\* Nobody else holds what the slots, the indicator or a debt hold; what is held lives.
LEMMA HeldLives ==
  ASSUME NEW h, NEW e, NEW i, NEW o, NEW n, Reckoned(h, e, i, o, n), NEW x \in Values
  PROVE  /\ \A s \in Slots : e[s] = x => h.refs[x] > 0
         /\ i = x => h.refs[x] > 0
         /\ o = x => h.refs[x] >= n
         /\ \A w \in Values : h.refs[w] > 0 /\ h.cause[w] = x => h.refs[x] > 0
<1>1. /\ h \in HeapSet /\ e \in Errs /\ n \in Nat
      /\ h.refs[x] = Cardinality(InSlots(e, x)) + 2 * Cardinality(Causing(h, x)) + One(i, x) + n * One(o, x)
  BY DEF Reckoned
<1>2. /\ Cardinality(InSlots(e, x)) \in Nat /\ Cardinality(Causing(h, x)) \in Nat
      /\ Cardinality(InSlots(e, x)) = 0 => \A s \in Slots : e[s] # x
      /\ Cardinality(Causing(h, x)) = 0 => \A w \in Values : h.refs[w] > 0 => h.cause[w] # x
  BY <1>1, HoldersCounted
<1>3. One(i, x) \in {0, 1} /\ (i = x => One(i, x) = 1) /\ n * One(o, x) \in {0, n} /\ (o = x => n * One(o, x) = n)
  BY <1>1 DEF One
<1>4. h.refs[x] >= Cardinality(InSlots(e, x)) /\ h.refs[x] >= Cardinality(Causing(h, x))
      /\ h.refs[x] >= One(i, x) /\ h.refs[x] >= n * One(o, x)
  BY <1>1, <1>2, <1>3
<1>5. h.refs[x] \in Nat
  BY <1>1 DEF HeapSet
<1> QED BY <1>1, <1>2, <1>3, <1>4, <1>5

\* What a slot, the indicator and a debt hold, of y, i and n to o, is what they held before.
SameHeld(y, i, o, n, y2, i2, o2, n2) ==
  \A x \in Values : One(y2, x) + One(i2, x) + n2 * One(o2, x) = One(y, x) + One(i, x) + n * One(o, x)

\* References change hands: between a slot, the indicator and what is to be dropped.
LEMMA Transferred ==
  ASSUME NEW h, NEW e, NEW i, NEW o, NEW n, Reckoned(h, e, i, o, n),
         NEW s \in Slots, NEW y \in Values \cup {NoValue, NoSlot},
         NEW i2 \in Values \cup {NoValue}, NEW o2 \in Values \cup {NoValue}, NEW n2 \in Nat,
         SameHeld(e[s], i, o, n, y, i2, o2, n2)
  PROVE  Reckoned(h, [e EXCEPT ![s] = y], i2, o2, n2)
<1>1. h \in HeapSet /\ e \in Errs /\ n \in Nat
  BY DEF Reckoned
<1>2. [e EXCEPT ![s] = y] \in Errs
  BY <1>1 DEF Errs
<1>3. ASSUME NEW x \in Values
      PROVE  h.refs[x] = Cardinality(InSlots([e EXCEPT ![s] = y], x)) + 2 * Cardinality(Causing(h, x))
                           + One(i2, x) + n2 * One(o2, x)
  <2>1. h.refs[x] = Cardinality(InSlots(e, x)) + 2 * Cardinality(Causing(h, x)) + One(i, x) + n * One(o, x)
    BY DEF Reckoned
  <2>2. /\ Cardinality(InSlots(e, x)) \in Nat /\ Cardinality(Causing(h, x)) \in Nat
        /\ Cardinality(InSlots([e EXCEPT ![s] = y], x)) \in Nat
    BY <1>1, <1>2, HoldersCounted
  <2>3. Cardinality(InSlots([e EXCEPT ![s] = y], x)) + One(e[s], x) = Cardinality(InSlots(e, x)) + One(y, x)
    BY <1>1, SlotChange
  <2>4. One(y, x) + One(i2, x) + n2 * One(o2, x) = One(e[s], x) + One(i, x) + n * One(o, x)
    BY DEF SameHeld
  <2>5. /\ One(y, x) \in Nat /\ One(i2, x) \in Nat /\ One(e[s], x) \in Nat /\ One(i, x) \in Nat
    BY DEF One
  <2>6. PICK a \in Nat, b \in Nat : a = n * One(o, x) /\ b = n2 * One(o2, x)
    BY <1>1 DEF One
  <2>7. /\ h.refs[x] = Cardinality(InSlots(e, x)) + 2 * Cardinality(Causing(h, x)) + One(i, x) + a
        /\ One(y, x) + One(i2, x) + b = One(e[s], x) + One(i, x) + a
    BY <2>1, <2>4, <2>6
  <2>8. h.refs[x] = Cardinality(InSlots([e EXCEPT ![s] = y], x)) + 2 * Cardinality(Causing(h, x)) + One(i2, x) + b
    BY <2>2, <2>3, <2>5, <2>7
  <2> QED BY <2>6, <2>8
<1> QED BY <1>1, <1>2, <1>3 DEF Reckoned

\* The same without a slot.
LEMMA PassedOn ==
  ASSUME NEW h, NEW e, NEW i, NEW o, NEW n, Reckoned(h, e, i, o, n),
         NEW i2 \in Values \cup {NoValue}, NEW o2 \in Values \cup {NoValue}, NEW n2 \in Nat,
         \A x \in Values : One(i2, x) + n2 * One(o2, x) = One(i, x) + n * One(o, x)
  PROVE  Reckoned(h, e, i2, o2, n2)
<1>1. ASSUME NEW x \in Values
      PROVE  h.refs[x] = Cardinality(InSlots(e, x)) + 2 * Cardinality(Causing(h, x)) + One(i2, x) + n2 * One(o2, x)
  <2>1. h.refs[x] = Cardinality(InSlots(e, x)) + 2 * Cardinality(Causing(h, x)) + One(i, x) + n * One(o, x)
    BY DEF Reckoned
  <2>2. Cardinality(InSlots(e, x)) \in Nat /\ Cardinality(Causing(h, x)) \in Nat
    BY HoldersCounted DEF Reckoned
  <2>3. One(i2, x) \in Nat /\ One(i, x) \in Nat /\ n2 * One(o2, x) \in Nat /\ n * One(o, x) \in Nat
    BY DEF One, Reckoned
  <2> QED BY <2>1, <2>2, <2>3
<1> QED BY <1>1 DEF Reckoned

-----------------------------------------------------------------------------
(* Dropping references *)

Debts == [heap : HeapSet, object : Values \cup {NoValue}, owed : Nat]

\* The objects that live.
Living(h) == {w \in Values : h.refs[w] > 0}

\* What is owed is what nobody holds any more, and nothing has come to life since g.
DebtGood(d, e, i, g) ==
  /\ d \in Debts /\ Reckoned(d.heap, e, i, d.object, d.owed)
  /\ d.object \in Values => d.owed > 0
  /\ \A x \in Values : g.refs[x] = 0 => d.heap.refs[x] = 0

LEMMA SettledTyped == ASSUME NEW d \in Debts PROVE Settled(d) \in Debts
<1>1. /\ d.heap \in HeapSet /\ d.object \in Values \cup {NoValue} /\ d.owed \in Nat
      /\ d.heap.refs \in [Values -> Nat] /\ d.heap.cause \in [Values -> Values \cup {NoValue}]
  BY DEF Debts, HeapSet
<1>2. CASE d.object \notin Values
  BY <1>2 DEF Settled
<1>3. CASE d.object \in Values /\ d.heap.refs[d.object] > d.owed
  <2>1. d.heap.refs[d.object] - d.owed \in Nat
    BY <1>1, <1>3
  <2>2. [d.heap EXCEPT !.refs[d.object] = @ - d.owed] \in HeapSet
    BY <1>1, <1>3, <2>1 DEF HeapSet
  <2> QED BY <1>3, <2>2 DEF Settled, Debts
<1>4. CASE d.object \in Values /\ ~(d.heap.refs[d.object] > d.owed)
  <2>1. [d.heap EXCEPT !.refs[d.object] = 0, !.cause[d.object] = NoValue] \in HeapSet
    BY <1>1, <1>4 DEF HeapSet
  <2>2. d.heap.cause[d.object] \in Values \cup {NoValue}
    BY <1>1, <1>4
  <2> QED BY <1>4, <2>1, <2>2 DEF Settled, Debts
<1> QED BY <1>2, <1>3, <1>4

\* A step leaves the reckoning right, and ends or takes a life.
LEMMA SettledReckons ==
  ASSUME NEW g, NEW e, NEW i, NEW d, DebtGood(d, e, i, g)
  PROVE  /\ DebtGood(Settled(d), e, i, g)
         /\ Settled(d).object \in Values =>
              /\ d.object \in Values
              /\ Living(Settled(d).heap) = Living(d.heap) \ {d.object} /\ d.object \in Living(d.heap)
<1> DEFINE h == d.heap
           z == d.object
           n == d.owed
           f == Settled(d).heap
<1>1. /\ d \in Debts /\ h \in HeapSet /\ e \in Errs /\ i \in Values \cup {NoValue} /\ z \in Values \cup {NoValue}
      /\ n \in Nat /\ Reckoned(h, e, i, z, n) /\ Settled(d) \in Debts
  BY SettledTyped DEF DebtGood, Reckoned
<1>2. h.refs \in [Values -> Nat] /\ h.cause \in [Values -> Values \cup {NoValue}]
  BY <1>1 DEF HeapSet
<1>3. \A x \in Values :
        /\ h.refs[x] = Cardinality(InSlots(e, x)) + 2 * Cardinality(Causing(h, x)) + One(i, x) + n * One(z, x)
        /\ h.refs[x] = 0 => h.cause[x] = NoValue
        /\ g.refs[x] = 0 => h.refs[x] = 0
        /\ Cardinality(InSlots(e, x)) \in Nat /\ Cardinality(Causing(h, x)) \in Nat
        /\ One(i, x) \in Nat /\ One(z, x) \in Nat
  BY <1>1, HoldersCounted DEF DebtGood, Reckoned, One
<1>4. CASE z \notin Values
  <2>1. Settled(d) = d
    BY <1>4 DEF Settled
  <2> QED BY <1>4, <2>1
<1>5. CASE z \in Values /\ h.refs[z] > n
  <2>1. Settled(d) = [heap |-> [h EXCEPT !.refs[z] = @ - n], object |-> NoValue, owed |-> 0]
    BY <1>5 DEF Settled
  <2>2. /\ f \in HeapSet /\ f.cause = h.cause /\ f.refs[z] = h.refs[z] - n
        /\ \A x \in Values : x # z => f.refs[x] = h.refs[x]
    <3>1. f \in HeapSet
      BY <1>1 DEF Debts
    <3>2. f = [h EXCEPT !.refs[z] = @ - n]
      BY <2>1
    <3> HIDE DEF f, z, n
    <3>3. f.cause = h.cause /\ f.refs = [h.refs EXCEPT ![z] = @ - n]
      BY <1>1, <3>2 DEF HeapSet
    <3> QED BY <1>2, <1>5, <3>1, <3>3
  <2>3. \A x \in Values : Causing(f, x) = Causing(h, x)
    BY <1>1, <1>2, <1>5, <2>2 DEF Causing
  <2>4. ASSUME NEW x \in Values
        PROVE  /\ f.refs[x] = Cardinality(InSlots(e, x)) + 2 * Cardinality(Causing(f, x)) + One(i, x) + 0 * One(NoValue, x)
               /\ f.refs[x] = 0 => f.cause[x] = NoValue
               /\ g.refs[x] = 0 => f.refs[x] = 0
    <3>1. One(NoValue, x) = 0 /\ 0 * One(NoValue, x) = 0
      BY ValuesApart DEF One
    <3>2. n * One(z, x) = IF x = z THEN n ELSE 0
      BY <1>1 DEF One
    <3>3. h.refs[x] = Cardinality(InSlots(e, x)) + 2 * Cardinality(Causing(h, x)) + One(i, x) + (IF x = z THEN n ELSE 0)
      BY <1>3, <3>2
    <3>4. Cardinality(Causing(f, x)) = Cardinality(Causing(h, x))
      BY <2>3
    <3>5. f.refs[x] = Cardinality(InSlots(e, x)) + 2 * Cardinality(Causing(f, x)) + One(i, x) + 0 * One(NoValue, x)
      <4> HIDE DEF f, h, z, n
      <4> QED BY <1>1, <1>2, <1>3, <1>5, <2>2, <3>1, <3>3, <3>4
    <3>6. f.refs[x] = 0 => x # z /\ h.refs[x] = 0
      <4> HIDE DEF f, h, z, n
      <4> QED BY <1>1, <1>2, <1>5, <2>2
    <3>7. g.refs[x] = 0 => h.refs[x] = 0 /\ x # z
      <4> HIDE DEF f, h, z, n
      <4> QED BY <1>1, <1>2, <1>3, <1>5
    <3> QED BY <1>3, <2>2, <3>5, <3>6, <3>7
  <2>5. Settled(d).object = NoValue /\ Settled(d).owed = 0
    BY <2>1
  <2>6. Reckoned(f, e, i, NoValue, 0)
    BY <1>1, <2>2, <2>4 DEF Reckoned
  <2> HIDE DEF h, z, n, f
  <2> QED BY <1>1, <2>4, <2>5, <2>6, ValuesApart DEF DebtGood, f
<1>6. CASE z \in Values /\ ~(h.refs[z] > n)
  <2>1. Settled(d) = [heap |-> [h EXCEPT !.refs[z] = 0, !.cause[z] = NoValue], object |-> h.cause[z], owed |-> 2]
    BY <1>6 DEF Settled
  <2>2. /\ f \in HeapSet /\ f.cause[z] = NoValue /\ f.refs[z] = 0
        /\ \A x \in Values : x # z => f.refs[x] = h.refs[x] /\ f.cause[x] = h.cause[x]
    <3>1. f \in HeapSet
      BY <1>1 DEF Debts
    <3>2. f = [h EXCEPT !.refs[z] = 0, !.cause[z] = NoValue]
      BY <2>1
    <3> HIDE DEF f, z
    <3>3. f.cause = [h.cause EXCEPT ![z] = NoValue] /\ f.refs = [h.refs EXCEPT ![z] = 0]
      BY <1>1, <3>2 DEF HeapSet
    <3> QED BY <1>2, <1>6, <3>1, <3>3
  <2>3. n > 0 /\ One(z, z) = 1 /\ n * One(z, z) = n
    BY <1>1, <1>6 DEF DebtGood, One
  <2>4. /\ h.refs[z] = n /\ h.refs[z] > 0
        /\ Cardinality(InSlots(e, z)) = 0 /\ Cardinality(Causing(h, z)) = 0 /\ One(i, z) = 0
    <3>1. h.refs[z] = Cardinality(InSlots(e, z)) + 2 * Cardinality(Causing(h, z)) + One(i, z) + n
      BY <1>3, <1>6, <2>3
    <3>2. /\ Cardinality(InSlots(e, z)) \in Nat /\ Cardinality(Causing(h, z)) \in Nat /\ One(i, z) \in Nat
          /\ h.refs[z] \in Nat
      BY <1>2, <1>3, <1>6
    <3> HIDE DEF h, z, n
    <3> QED BY <1>1, <1>6, <2>3, <3>1, <3>2
  <2>5. h.cause[z] # z
    BY <1>1, <1>6, <2>4, HoldersCounted
  <2>6. ASSUME NEW x \in Values
        PROVE  /\ f.refs[x] = Cardinality(InSlots(e, x)) + 2 * Cardinality(Causing(f, x)) + One(i, x) + 2 * One(h.cause[z], x)
               /\ f.refs[x] = 0 => f.cause[x] = NoValue
               /\ g.refs[x] = 0 => f.refs[x] = 0
    <3>1. Cardinality(Causing(f, x)) + (IF h.refs[z] > 0 /\ h.cause[z] = x THEN 1 ELSE 0)
            = Cardinality(Causing(h, x)) + (IF f.refs[z] > 0 /\ f.cause[z] = x THEN 1 ELSE 0)
      BY <1>1, <1>6, <2>2, CauseChange
    <3>2. Cardinality(Causing(f, x)) \in Nat
      BY <1>1, <2>2, HoldersCounted
    <3>3. Cardinality(Causing(f, x)) + One(h.cause[z], x) = Cardinality(Causing(h, x))
      BY <1>3, <2>2, <2>4, <3>1, <3>2 DEF One
    <3>4. One(h.cause[z], x) \in Nat
      BY DEF One
    <3>5. CASE x = z
      <4>1. One(h.cause[z], x) = 0
        BY <2>5, <3>5 DEF One
      <4> QED BY <2>2, <2>4, <3>2, <3>3, <3>5, <4>1
    <3>6. CASE x # z
      <4>1. One(z, x) = 0 /\ n * One(z, x) = 0
        BY <1>1, <3>6 DEF One
      <4>2. h.refs[x] = Cardinality(InSlots(e, x)) + 2 * Cardinality(Causing(h, x)) + One(i, x)
        <5>1. h.refs[x] = Cardinality(InSlots(e, x)) + 2 * Cardinality(Causing(h, x)) + One(i, x) + 0
          BY <1>3, <4>1
        <5> HIDE DEF h
        <5> QED BY <1>3, <5>1
      <4>3. f.refs[x] = h.refs[x] /\ f.cause[x] = h.cause[x]
        BY <2>2, <3>6
      <4>4. f.refs[x] = Cardinality(InSlots(e, x)) + 2 * Cardinality(Causing(f, x)) + One(i, x) + 2 * One(h.cause[z], x)
        <5> HIDE DEF f, h
        <5> QED BY <1>3, <3>2, <3>3, <3>4, <4>2, <4>3
      <4> QED BY <1>3, <4>3, <4>4
    <3> QED BY <3>5, <3>6
  <2>7. Settled(d).object = h.cause[z] /\ Settled(d).owed = 2
    BY <2>1
  <2>8. Reckoned(f, e, i, h.cause[z], 2)
    <3>1. h.cause[z] \in Values \cup {NoValue}
      BY <1>2, <1>6
    <3> QED BY <1>1, <2>2, <2>6, <3>1 DEF Reckoned
  <2>9. Living(f) = Living(h) \ {z} /\ z \in Living(h)
    BY <1>6, <2>2, <2>4 DEF Living
  <2> QED BY <1>1, <1>6, <2>6, <2>7, <2>8, <2>9 DEF DebtGood
<1> QED BY <1>1, <1>4, <1>5, <1>6

\* An object that is dropped gives back all that it held, and so do those that go with it.
LEMMA DroppedReckons ==
  ASSUME NEW h, NEW e, NEW i, NEW o, Reckoned(h, e, i, o, 1)
  PROVE  /\ Reckoned(Dropped(h, o), e, i, NoValue, 0)
         /\ \A x \in Values : h.refs[x] = 0 => Dropped(h, o).refs[x] = 0
<1> DEFINE n     == Cardinality(Values)
           start == [heap |-> h, object |-> o, owed |-> 1]
           Is(f) == f = [k \in 0..n |-> IF k = 0 THEN start ELSE Settled(f[k - 1])]
           debt  == CHOOSE f : Is(f)
           step  == [k \in 1..n |-> [d \in Debts |-> Settled(d)]]
<1>1. n \in Nat
  BY ErrorsAssumption, FS_CardinalityType
<1>2. Dropped(h, o) = debt[n].heap
  BY DEF Dropped
<1>3. start \in Debts /\ DebtGood(start, e, i, h)
  BY DEF Debts, DebtGood, Reckoned
<1>4. /\ start.heap = h /\ start.object = o
      /\ Living(h) \in SUBSET Values
  BY DEF Living
<1> HIDE DEF n, start
<1>5. step \in [1..n -> [Debts -> Debts]]
  BY SettledTyped
<1>6. PICK f \in [0..n -> Debts] : f[0] = start /\ \A k \in 1..n : f[k] = step[k][f[k - 1]]
  <2> HIDE DEF step
  <2>1. Iterations(Debts, n, start, step) # {}
    BY <1>1, <1>3, <1>5, Iterates
  <2> QED BY <2>1 DEF Iterations
<1>7. ASSUME NEW k \in 1..n PROVE f[k] = Settled(f[k - 1])
  <2>1. k - 1 \in 0..n
    BY <1>1
  <2>2. f[k - 1] \in Debts
    BY <1>6, <2>1
  <2> QED BY <1>6, <2>2
<1>8. Is(f)
  BY <1>1, <1>6, <1>7
<1>9. Is(debt)
  <2> HIDE DEF Is
  <2> QED BY <1>8
<1>10. debt[0] = start /\ \A k \in 1..n : debt[k] = Settled(debt[k - 1])
  <2> HIDE DEF debt
  <2> QED BY <1>1, <1>9
<1> HIDE DEF debt
<1> DEFINE T == {k \in Nat : k <= n =>
                   /\ DebtGood(debt[k], e, i, h)
                   /\ debt[k].object \in Values => Cardinality(Living(debt[k].heap)) <= n - k}
<1>11. 0 \in T
  <2>1. Cardinality(Living(h)) <= n
    BY <1>4, ErrorsAssumption, FS_Subset DEF n
  <2> QED BY <1>1, <1>3, <1>4, <1>10, <2>1
<1>12. ASSUME NEW k \in Nat, k \in T PROVE k + 1 \in T
  <2> SUFFICES ASSUME k + 1 <= n
               PROVE  /\ DebtGood(debt[k + 1], e, i, h)
                      /\ debt[k + 1].object \in Values => Cardinality(Living(debt[k + 1].heap)) <= n - (k + 1)
    OBVIOUS
  <2>1. k <= n /\ k + 1 \in 1..n /\ (k + 1) - 1 = k
    BY <1>1
  <2>2. debt[k + 1] = Settled(debt[k])
    BY <1>10, <2>1
  <2>3. DebtGood(debt[k], e, i, h)
    BY <1>12, <2>1
  <2>4. /\ DebtGood(Settled(debt[k]), e, i, h)
        /\ Settled(debt[k]).object \in Values =>
             /\ debt[k].object \in Values
             /\ Living(Settled(debt[k]).heap) = Living(debt[k].heap) \ {debt[k].object}
             /\ debt[k].object \in Living(debt[k].heap)
    BY <2>3, SettledReckons
  <2>5. ASSUME Settled(debt[k]).object \in Values
        PROVE  Cardinality(Living(Settled(debt[k]).heap)) <= n - (k + 1)
    <3>1. Cardinality(Living(debt[k].heap)) <= n - k
      BY <1>12, <2>1, <2>4, <2>5
    <3>2. IsFiniteSet(Living(debt[k].heap))
      <4>1. Living(debt[k].heap) \in SUBSET Values
        BY DEF Living
      <4> QED BY <4>1, ErrorsAssumption, FS_Subset
    <3>3. Cardinality(Living(debt[k].heap)) \in Nat
      BY <3>2, FS_CardinalityType
    <3>4. Cardinality(Living(Settled(debt[k]).heap)) = Cardinality(Living(debt[k].heap)) - 1
      BY <2>4, <2>5, <3>2, FS_RemoveElement
    <3> QED BY <1>1, <3>1, <3>3, <3>4
  <2> QED BY <2>2, <2>4, <2>5
<1>13. n \in T
  <2> HIDE DEF T
  <2>1. Nat \subseteq T
    BY <1>11, <1>12, InductionBySet
  <2> QED BY <1>1, <2>1
<1> DEFINE d == debt[n]
<1>14. DebtGood(d, e, i, h) /\ (d.object \in Values => Cardinality(Living(d.heap)) <= n - n)
  BY <1>1, <1>13
<1> HIDE DEF d
<1>15. d.object = NoValue
  <2> SUFFICES ASSUME d.object \in Values PROVE FALSE
    BY <1>14 DEF DebtGood, Reckoned
  <2>1. d.heap.refs[d.object] > 0
    <3>1. Reckoned(d.heap, e, i, d.object, d.owed) /\ d.owed > 0 /\ d.owed \in Nat /\ d.heap.refs[d.object] \in Nat
      BY <1>14 DEF DebtGood, Debts, HeapSet
    <3>2. d.heap.refs[d.object] >= d.owed
      BY <3>1, HeldLives
    <3> QED BY <3>1, <3>2
  <2>2. IsFiniteSet(Living(d.heap)) /\ d.object \in Living(d.heap)
    <3>1. Living(d.heap) \in SUBSET Values
      BY DEF Living
    <3> QED BY <2>1, <3>1, ErrorsAssumption, FS_Subset DEF Living
  <2>3. Cardinality(Living(d.heap)) \in Nat /\ Cardinality(Living(d.heap)) # 0
    BY <2>2, FS_CardinalityType, FS_EmptySet
  <2> QED BY <1>1, <1>14, <2>3
<1>16. Reckoned(d.heap, e, i, NoValue, d.owed) /\ d.owed \in Nat
  BY <1>14, <1>15 DEF DebtGood, Debts
<1>17. Reckoned(d.heap, e, i, NoValue, 0)
  <2>1. \A x \in Values : One(i, x) + 0 * One(NoValue, x) = One(i, x) + d.owed * One(NoValue, x)
    BY <1>16, ValuesApart DEF One
  <2>2. i \in Values \cup {NoValue}
    BY <1>16 DEF Reckoned
  <2> QED BY <1>16, <2>1, <2>2, PassedOn
<1> QED BY <1>2, <1>14, <1>17 DEF d, DebtGood

\* n references to y are taken.
LEMMA IncrefReckons ==
  ASSUME NEW h, NEW e, NEW i, Reckoned(h, e, i, NoValue, 0), NEW y \in Values \cup {NoValue}, NEW n \in Nat
  PROVE  /\ Reckoned(Incref(h, y, n), e, i, y, n)
         /\ \A x \in Values : x # y => Incref(h, y, n).refs[x] = h.refs[x]
<1> DEFINE f == Incref(h, y, n)
<1>1. h \in HeapSet /\ h.refs \in [Values -> Nat] /\ h.cause \in [Values -> Values \cup {NoValue}]
  BY DEF Reckoned, HeapSet
<1>2. ASSUME NEW x \in Values
      PROVE  /\ h.refs[x] = Cardinality(InSlots(e, x)) + 2 * Cardinality(Causing(h, x)) + One(i, x)
             /\ h.refs[x] = 0 => h.cause[x] = NoValue
             /\ Cardinality(InSlots(e, x)) \in Nat /\ Cardinality(Causing(h, x)) \in Nat /\ One(i, x) \in Nat
  <2>1. /\ h.refs[x] = Cardinality(InSlots(e, x)) + 2 * Cardinality(Causing(h, x)) + One(i, x) + 0 * One(NoValue, x)
        /\ h.refs[x] = 0 => h.cause[x] = NoValue
    BY DEF Reckoned
  <2>2. Cardinality(InSlots(e, x)) \in Nat /\ Cardinality(Causing(h, x)) \in Nat /\ One(i, x) \in Nat
    BY HoldersCounted DEF Reckoned, One
  <2>3. 0 * One(NoValue, x) = 0
    BY DEF One
  <2> QED BY <2>1, <2>2, <2>3
<1>3. CASE y = NoValue
  <2>1. f = h
    BY <1>3, ValuesApart DEF Incref
  <2>2. \A x \in Values : One(i, x) + n * One(y, x) = One(i, x) + 0 * One(NoValue, x)
    BY <1>3, ValuesApart DEF One
  <2>3. i \in Values \cup {NoValue}
    BY DEF Reckoned
  <2>4. Reckoned(h, e, i, y, n)
    BY <2>2, <2>3, PassedOn
  <2> QED BY <2>1, <2>4
<1>4. CASE y \in Values
  <2>1. f = [h EXCEPT !.refs[y] = @ + n]
    BY <1>4 DEF Incref
  <2>2. f.cause = h.cause /\ f.refs = [h.refs EXCEPT ![y] = @ + n] /\ f \in HeapSet
    <3> HIDE DEF f
    <3>1. f.cause = h.cause /\ f.refs = [h.refs EXCEPT ![y] = @ + n]
      BY <1>1, <2>1 DEF HeapSet
    <3>2. [h.refs EXCEPT ![y] = @ + n] \in [Values -> Nat]
      BY <1>1, <1>4
    <3>3. f = [refs |-> f.refs, cause |-> f.cause]
      BY <1>1, <2>1 DEF HeapSet
    <3>4. f.refs \in [Values -> Nat] /\ f.cause \in [Values -> Values \cup {NoValue}]
      BY <1>1, <3>1, <3>2
    <3> QED BY <3>1, <3>3, <3>4 DEF HeapSet
  <2> HIDE DEF f
  <2>3. /\ f.refs[y] = h.refs[y] + n /\ h.refs[y] \in Nat
        /\ \A x \in Values : x # y => f.refs[x] = h.refs[x]
    BY <1>1, <1>4, <2>2
  <2>4. ASSUME NEW x \in Values PROVE Causing(f, x) = Causing(h, x)
    <3>1. ASSUME NEW w \in Values PROVE f.refs[w] > 0 /\ f.cause[w] = x <=> h.refs[w] > 0 /\ h.cause[w] = x
      <4>1. h.refs[w] = 0 => h.cause[w] # x
        BY <1>2, ValuesApart
      <4> QED BY <1>1, <2>2, <2>3, <4>1
    <3> QED BY <3>1 DEF Causing
  <2>5. ASSUME NEW x \in Values
        PROVE  /\ f.refs[x] = Cardinality(InSlots(e, x)) + 2 * Cardinality(Causing(f, x)) + One(i, x) + n * One(y, x)
               /\ f.refs[x] = 0 => f.cause[x] = NoValue
    <3>1. n * One(y, x) = IF x = y THEN n ELSE 0
      BY DEF One
    <3>2. Cardinality(Causing(f, x)) = Cardinality(Causing(h, x))
      BY <2>4
    <3>3. f.refs[x] = h.refs[x] + (IF x = y THEN n ELSE 0)
      BY <1>1, <2>3
    <3>4. f.refs[x] = 0 => h.refs[x] = 0
      BY <1>1, <3>3
    <3> QED BY <1>2, <2>2, <3>1, <3>2, <3>3, <3>4
  <2> QED BY <1>4, <2>2, <2>3, <2>5 DEF Reckoned, f
<1> QED BY <1>3, <1>4

\* A new exception is raised from another one, whose reference and a second one it takes.
LEMMA ChainedReckons ==
  ASSUME NEW h, NEW e, NEW y \in Values \cup {NoValue}, Reckoned(h, e, NoValue, y, 1),
         NEW x \in Values, h.refs[x] = 0
  PROVE  Reckoned(Chained(h, x, y), e, NoValue, x, 1)
<1> DEFINE c == [h EXCEPT !.cause[x] = y]
           f == Incref(c, y, 1)
           g == Chained(h, x, y)
<1>1. /\ h \in HeapSet /\ h.refs \in [Values -> Nat] /\ h.cause \in [Values -> Values \cup {NoValue}]
      /\ e \in Errs
  BY DEF Reckoned, HeapSet
<1>2. ASSUME NEW z \in Values
      PROVE  /\ h.refs[z] = Cardinality(InSlots(e, z)) + 2 * Cardinality(Causing(h, z)) + One(y, z)
             /\ h.refs[z] = 0 => h.cause[z] = NoValue
             /\ Cardinality(InSlots(e, z)) \in Nat /\ Cardinality(Causing(h, z)) \in Nat
             /\ One(y, z) \in Nat /\ One(x, z) \in Nat /\ One(NoValue, z) = 0
  <2>1. /\ h.refs[z] = Cardinality(InSlots(e, z)) + 2 * Cardinality(Causing(h, z)) + One(NoValue, z) + 1 * One(y, z)
        /\ h.refs[z] = 0 => h.cause[z] = NoValue
    BY DEF Reckoned
  <2>2. Cardinality(InSlots(e, z)) \in Nat /\ Cardinality(Causing(h, z)) \in Nat
    BY <1>1, HoldersCounted
  <2>3. One(y, z) \in Nat /\ One(x, z) \in Nat /\ One(NoValue, z) = 0
    BY ValuesApart DEF One
  <2> QED BY <2>1, <2>2, <2>3
<1>3. y \in Values => h.refs[y] > 0 /\ x # y
  <2> SUFFICES ASSUME y \in Values PROVE h.refs[y] > 0 /\ x # y
    OBVIOUS
  <2>1. h.refs[y] >= 1 /\ h.refs[y] \in Nat
    BY <1>1, HeldLives
  <2> QED BY <2>1
<1>4. c.refs = h.refs /\ c.cause = [h.cause EXCEPT ![x] = y] /\ c = [refs |-> c.refs, cause |-> c.cause]
  BY <1>1 DEF HeapSet
<1> HIDE DEF c
<1>5. /\ f.cause = c.cause /\ f = [refs |-> f.refs, cause |-> f.cause]
      /\ f.refs = IF y \in Values THEN [h.refs EXCEPT ![y] = @ + 1] ELSE h.refs
  <2>1. CASE y \in Values
    <3>1. f = [c EXCEPT !.refs[y] = @ + 1]
      BY <2>1 DEF Incref
    <3> HIDE DEF f
    <3> QED BY <1>4, <2>1, <3>1
  <2>2. CASE y \notin Values
    <3>1. f = c
      BY <2>2 DEF Incref
    <3> HIDE DEF f
    <3> QED BY <1>4, <2>2, <3>1
  <2> QED BY <2>1, <2>2
<1>6. g = [f EXCEPT !.refs[x] = @ + 1]
  BY DEF Chained, Incref, c
<1> HIDE DEF f, g
<1>7. g.cause = f.cause /\ g.refs = [f.refs EXCEPT ![x] = @ + 1] /\ g = [refs |-> g.refs, cause |-> g.cause]
  BY <1>5, <1>6
<1>8. f.refs \in [Values -> Nat] /\ \A z \in Values : f.refs[z] = h.refs[z] + One(y, z)
  BY <1>1, <1>5 DEF One
<1>9. /\ g.refs \in [Values -> Nat] /\ \A z \in Values : g.refs[z] = h.refs[z] + One(y, z) + One(x, z)
      /\ g.cause = [h.cause EXCEPT ![x] = y] /\ g.cause \in [Values -> Values \cup {NoValue}]
  BY <1>1, <1>4, <1>5, <1>7, <1>8 DEF One
<1>10. g \in HeapSet
  BY <1>7, <1>9 DEF HeapSet
<1>11. g.refs[x] > 0 /\ g.cause[x] = y
  <2>1. One(x, x) = 1 /\ One(y, x) \in Nat
    BY DEF One
  <2> QED BY <1>1, <1>9, <2>1
<1>12. ASSUME NEW w \in Values, w # x PROVE (g.refs[w] > 0 <=> h.refs[w] > 0) /\ g.cause[w] = h.cause[w]
  <2>1. One(x, w) = 0 /\ (One(y, w) = IF y = w THEN 1 ELSE 0)
    BY <1>12 DEF One
  <2>2. g.refs[w] = h.refs[w] + One(y, w)
    BY <1>8, <1>9, <2>1
  <2>3. g.refs[w] > 0 <=> h.refs[w] > 0
    BY <1>1, <1>3, <2>1, <2>2
  <2> QED BY <1>1, <1>9, <1>12, <2>3
<1>13. ASSUME NEW z \in Values
       PROVE  /\ g.refs[z] = Cardinality(InSlots(e, z)) + 2 * Cardinality(Causing(g, z)) + One(NoValue, z) + 1 * One(x, z)
              /\ g.refs[z] = 0 => g.cause[z] = NoValue
  <2>1. Cardinality(Causing(g, z)) + (IF h.refs[x] > 0 /\ h.cause[x] = z THEN 1 ELSE 0)
          = Cardinality(Causing(h, z)) + (IF g.refs[x] > 0 /\ g.cause[x] = z THEN 1 ELSE 0)
    BY <1>1, <1>10, <1>12, CauseChange
  <2>2. Cardinality(Causing(g, z)) \in Nat
    BY <1>1, <1>10, HoldersCounted
  <2>3. Cardinality(Causing(g, z)) = Cardinality(Causing(h, z)) + One(y, z)
    BY <1>2, <1>11, <2>1, <2>2 DEF One
  <2>4. g.refs[z] = h.refs[z] + One(y, z) + One(x, z)
    BY <1>9
  <2>5. /\ h.refs[z] = Cardinality(InSlots(e, z)) + 2 * Cardinality(Causing(h, z)) + One(y, z)
        /\ Cardinality(InSlots(e, z)) \in Nat /\ Cardinality(Causing(h, z)) \in Nat
        /\ One(y, z) \in Nat /\ One(x, z) \in Nat /\ One(NoValue, z) = 0
    BY <1>2
  <2>6. g.refs[z] = 0 => g.cause[z] = NoValue
    <3>1. CASE z = x
      BY <1>11, <3>1
    <3>2. CASE z # x
      <4>1. g.refs[z] = 0 => h.refs[z] = 0
        BY <1>1, <1>9, <1>12, <3>2
      <4> QED BY <1>2, <1>12, <3>2, <4>1
    <3> QED BY <3>1, <3>2
  <2> QED BY <2>2, <2>3, <2>4, <2>5, <2>6
<1> QED BY <1>1, <1>10, <1>13 DEF Reckoned, g

-----------------------------------------------------------------------------
(* The list of translators *)

Names == Translators \cup {"default"}

Nodes == [translator : Names, next : Nat]

\* The list has the translators of r, the newest first, and the default one at the end. The
\* newest is in node 1, the others in the order of their nodes.
Listed(r, ns) ==
  /\ r \in Seq(Translators)
  /\ ns \in Seq(Nodes) /\ Len(ns) = Len(r) + 1
  /\ ns[1] = IF Len(r) = 0 THEN [translator |-> "default", next |-> NoNode]
             ELSE [translator |-> r[Len(r)], next |-> Len(r) + 1]
  /\ \A k \in 2..(Len(r) + 1) :
       ns[k] = IF k = 2 THEN [translator |-> "default", next |-> NoNode]
               ELSE [translator |-> r[k - 2], next |-> k - 1]

\* A translator that is registered comes first.
LEMMA InsertedListed ==
  ASSUME Listed(registered, nodes), NEW t \in Translators
  PROVE  Listed(Append(registered, t), Inserted(t))
<1> DEFINE m     == Len(registered)
           first == [nodes EXCEPT ![1] = [translator |-> t, next |-> m + 2]]
           more  == Append(registered, t)
<1>1. /\ registered \in Seq(Translators) /\ m \in Nat
      /\ nodes \in Seq(Nodes) /\ Len(nodes) = m + 1
  BY DEF Listed
<1>2. /\ more \in Seq(Translators) /\ Len(more) = m + 1 /\ more[m + 1] = t
      /\ \A k \in 1..m : more[k] = registered[k]
  BY <1>1
<1>3. [translator |-> t, next |-> m + 2] \in Nodes /\ 1 \in 1..(m + 1)
  BY <1>1 DEF Names, Nodes
<1>4. /\ first \in Seq(Nodes) /\ Len(first) = m + 1
      /\ first[1] = [translator |-> t, next |-> m + 2]
      /\ \A k \in 2..(m + 1) : first[k] = nodes[k]
  <2>1. DOMAIN nodes = 1..(m + 1) /\ nodes \in [1..(m + 1) -> Nodes]
    BY <1>1, LenProperties
  <2>2. first \in [1..(m + 1) -> Nodes]
    <3> DEFINE node == [translator |-> t, next |-> m + 2]
    <3> HIDE DEF node
    <3> QED BY <1>3, <2>1 DEF node
  <2>3. first \in Seq(Nodes) /\ Len(first) = m + 1
    <3> HIDE DEF first
    <3>1. m + 1 \in Nat
      BY <1>1
    <3> QED BY <2>2, <3>1
  <2> QED BY <1>1, <2>1, <2>3
<1> HIDE DEF first, more
<1>5. Inserted(t) = Append(first, nodes[1])
  <2>1. Len(nodes) + 1 = m + 2
    BY <1>1
  <2> QED BY <2>1 DEF Inserted, first
<1>6. nodes[1] \in Nodes
  BY <1>1, <1>3, ElementOfSeq
<1> DEFINE ns == Append(first, nodes[1])
<1>7. /\ ns \in Seq(Nodes) /\ Len(ns) = m + 2 /\ ns[m + 2] = nodes[1]
      /\ \A k \in 1..(m + 1) : ns[k] = first[k]
  BY <1>1, <1>4, <1>6
<1> HIDE DEF ns
<1>8. Len(more) # 0 /\ Len(more) + 1 = m + 2 /\ Len(ns) = Len(more) + 1
  BY <1>1, <1>2, <1>7
<1>9. ns[1] = [translator |-> more[Len(more)], next |-> Len(more) + 1]
  BY <1>1, <1>2, <1>3, <1>4, <1>7, <1>8
<1>10. ASSUME NEW k \in 2..(m + 2)
       PROVE  ns[k] = IF k = 2 THEN [translator |-> "default", next |-> NoNode]
                      ELSE [translator |-> more[k - 2], next |-> k - 1]
  <2>1. CASE k # m + 2
    <3>1. k \in 2..(m + 1) /\ k \in 1..(m + 1) /\ (k # 2 => k - 2 \in 1..m)
      BY <1>1, <2>1
    <3>2. ns[k] = nodes[k]
      BY <1>4, <1>7, <3>1
    <3> QED BY <1>2, <3>1, <3>2 DEF Listed
  <2>2. CASE k = m + 2
    <3>1. ns[k] = nodes[1]
      BY <1>7, <2>2
    <3>2. CASE m = 0
      BY <2>2, <3>1, <3>2 DEF Listed
    <3>3. CASE m # 0
      <4>1. k # 2 /\ k - 2 = m /\ k - 1 = m + 1 /\ m \in 1..m
        BY <1>1, <2>2, <3>3
      <4>2. nodes[1] = [translator |-> registered[m], next |-> m + 1]
        BY <3>3 DEF Listed
      <4> QED BY <1>2, <3>1, <4>1, <4>2
    <3> QED BY <3>2, <3>3
  <2> QED BY <2>1, <2>2
<1> QED BY <1>2, <1>5, <1>7, <1>8, <1>9, <1>10 DEF Listed, ns, more

\* The node that is tried after k others, and its translator.
NodeAt(k) == IF k = 0 THEN 1 ELSE IF k <= Len(registered) THEN Len(registered) + 2 - k ELSE NoNode

TranslatorAt(k) == IF k < Len(registered) THEN registered[Len(registered) - k] ELSE "default"

LEMMA NodesInOrder ==
  ASSUME Listed(registered, nodes), NEW k \in 0..Len(registered)
  PROVE  /\ NodeAt(k) \in 1..Len(nodes) /\ nodes[NodeAt(k)].translator = TranslatorAt(k)
         /\ nodes[NodeAt(k)].next = NodeAt(k + 1)
<1> DEFINE m == Len(registered)
<1>1. m \in Nat /\ Len(nodes) = m + 1 /\ k + 1 # 0
  BY DEF Listed
<1>2. CASE k = 0 /\ m = 0
  <2>1. NodeAt(k) = 1 /\ NodeAt(k + 1) = NoNode /\ TranslatorAt(k) = "default"
    BY <1>1, <1>2 DEF NodeAt, TranslatorAt
  <2>2. nodes[1] = [translator |-> "default", next |-> NoNode]
    BY <1>2 DEF Listed
  <2> QED BY <1>1, <2>1, <2>2
<1>3. CASE k = 0 /\ m # 0
  <2>1. NodeAt(k) = 1 /\ NodeAt(k + 1) = m + 1 /\ TranslatorAt(k) = registered[m]
    BY <1>1, <1>3 DEF NodeAt, TranslatorAt
  <2>2. nodes[1] = [translator |-> registered[m], next |-> m + 1]
    BY <1>3 DEF Listed
  <2> QED BY <1>1, <2>1, <2>2
<1>4. CASE k # 0 /\ k = m
  <2>1. NodeAt(k) = 2 /\ NodeAt(k + 1) = NoNode /\ TranslatorAt(k) = "default" /\ 2 \in 2..(m + 1)
    BY <1>1, <1>4 DEF NodeAt, TranslatorAt
  <2>2. nodes[2] = [translator |-> "default", next |-> NoNode]
    BY <2>1 DEF Listed
  <2> QED BY <1>1, <2>1, <2>2
<1>5. CASE k # 0 /\ k # m
  <2>1. /\ NodeAt(k) = m + 2 - k /\ NodeAt(k + 1) = (m + 2 - k) - 1 /\ TranslatorAt(k) = registered[(m + 2 - k) - 2]
        /\ m + 2 - k \in 2..(m + 1) /\ m + 2 - k # 2
    BY <1>1, <1>5 DEF NodeAt, TranslatorAt
  <2>2. nodes[m + 2 - k] = [translator |-> registered[(m + 2 - k) - 2], next |-> (m + 2 - k) - 1]
    BY <2>1 DEF Listed
  <2> QED BY <1>1, <2>1, <2>2
<1> QED BY <1>2, <1>3, <1>4, <1>5

\* The first translator that catches an exception, from the newest on, translates it.
LEMMA NewestFirst ==
  ASSUME Listed(registered, nodes), NEW x \in Exceptions
  PROVE  /\ Translated(x) \in Names \cup {"SystemError"}
         /\ LET able == {j \in DOMAIN registered : x \in Catches[registered[j]]}
            IN  Translated(x) = IF able # {} THEN registered[Max(able)]
                                ELSE IF x = "foreign" THEN "SystemError" ELSE "default"
<1> DEFINE m     == Len(registered)
           n     == Len(nodes)
           Is(f) == f = [k \in 0..n |-> IF k = 0 THEN 1 ELSE Following(x, f[k - 1])]
           tried == CHOOSE f : Is(f)
           step  == [k \in 1..n |-> [p \in 0..n |-> Following(x, p)]]
           able  == {j \in DOMAIN registered : x \in Catches[registered[j]]}
<1>1. /\ m \in Nat /\ n = m + 1 /\ n \in Nat /\ 1 \in 0..n /\ registered \in Seq(Translators)
      /\ DOMAIN registered = 1..m /\ \A j \in 1..m : registered[j] \in Translators
  BY DEF Listed
<1>2. ASSUME NEW p \in 1..n
      PROVE  nodes[p].next \in 0..n
  <2>1. CASE p = 1
    <3>1. nodes[1].next = IF m = 0 THEN 0 ELSE m + 1
      BY DEF Listed, NoNode
    <3> QED BY <1>1, <2>1, <3>1
  <2>2. CASE p # 1
    <3>1. p \in 2..(m + 1)
      BY <1>1, <2>2
    <3>2. nodes[p].next = IF p = 2 THEN 0 ELSE p - 1
      <4>1. nodes[p] = IF p = 2 THEN [translator |-> "default", next |-> NoNode]
                       ELSE [translator |-> registered[p - 2], next |-> p - 1]
        BY <3>1 DEF Listed
      <4>2. CASE p = 2
        BY <4>1, <4>2 DEF NoNode
      <4>3. CASE p # 2
        BY <4>1, <4>3
      <4> QED BY <4>2, <4>3
    <3>3. 0 \in 0..n /\ p - 1 \in 0..n
      <4> HIDE DEF m, n
      <4> QED BY <1>1, <3>1
    <3> QED BY <3>2, <3>3
  <2> QED BY <2>1, <2>2
<1>3. Translated(x) = IF tried[n] = NoNode THEN "SystemError" ELSE nodes[tried[n]].translator
  BY DEF Translated
<1> HIDE DEF n
<1>4. \A p \in 0..n : Following(x, p) \in 0..n
  <2> SUFFICES ASSUME NEW p \in 0..n PROVE Following(x, p) \in 0..n
    OBVIOUS
  <2>1. p = 0 \/ p \in 1..n
    BY <1>1
  <2> QED BY <1>2, <2>1 DEF Following, NoNode
<1>5. PICK f \in [0..n -> 0..n] : f[0] = 1 /\ \A k \in 1..n : f[k] = step[k][f[k - 1]]
  <2>1. step \in [1..n -> [0..n -> 0..n]]
    BY <1>4
  <2> HIDE DEF step
  <2>2. Iterations(0..n, n, 1, step) # {}
    BY <1>1, <2>1, Iterates
  <2> QED BY <2>2 DEF Iterations
<1>6. ASSUME NEW k \in 1..n PROVE f[k] = Following(x, f[k - 1])
  <2>1. k - 1 \in 0..n
    BY <1>1
  <2>2. f[k - 1] \in 0..n
    BY <1>5, <2>1
  <2> QED BY <1>5, <2>2
<1>7. Is(f)
  BY <1>1, <1>5, <1>6
<1>8. Is(tried)
  <2> HIDE DEF Is
  <2> QED BY <1>7
<1>9. tried[0] = 1 /\ \A k \in 1..n : tried[k] = Following(x, tried[k - 1])
  <2> HIDE DEF tried
  <2> QED BY <1>1, <1>8
<1> HIDE DEF tried
<1> DEFINE Passed(j)   == \A l \in 0..n : l < j => ~Catching(TranslatorAt(l), x)
           Halted(k, j) == j = k \/ (j <= m /\ Catching(TranslatorAt(j), x))
           T == {k \in Nat : k <= n =>
                   \E j \in 0..n : j <= k /\ tried[k] = NodeAt(j) /\ Passed(j) /\ Halted(k, j)}
<1>10. 0 \in T
  <2>1. 0 \in 0..n /\ Passed(0) /\ Halted(0, 0) /\ tried[0] = NodeAt(0)
    BY <1>1, <1>9 DEF NodeAt
  <2> QED BY <2>1
<1>11. ASSUME NEW k \in Nat, k \in T PROVE k + 1 \in T
  <2> SUFFICES ASSUME k + 1 <= n
               PROVE  \E j \in 0..n : j <= k + 1 /\ tried[k + 1] = NodeAt(j) /\ Passed(j) /\ Halted(k + 1, j)
    OBVIOUS
  <2>1. k <= n /\ k + 1 \in 1..n /\ (k + 1) - 1 = k /\ k <= m
    BY <1>1
  <2>2. PICK j \in 0..n : j <= k /\ tried[k] = NodeAt(j) /\ Passed(j) /\ Halted(k, j)
    BY <1>11, <2>1
  <2>3. tried[k + 1] = Following(x, NodeAt(j))
    BY <1>9, <2>1, <2>2
  <2>4. j \in 0..m
    BY <1>1, <2>1, <2>2
  <2>5. NodeAt(j) \in 1..n /\ nodes[NodeAt(j)].translator = TranslatorAt(j) /\ nodes[NodeAt(j)].next = NodeAt(j + 1)
    BY <2>4, NodesInOrder DEF n
  <2>6. NodeAt(j) # NoNode
    BY <2>5 DEF NoNode
  <2>7. CASE Catching(TranslatorAt(j), x)
    <3>1. tried[k + 1] = NodeAt(j)
      BY <2>3, <2>5, <2>7 DEF Following
    <3>2. Halted(k + 1, j)
      BY <2>4, <2>7
    <3>3. j <= k + 1
      BY <2>1, <2>2
    <3> HIDE DEF Passed, Halted
    <3> QED BY <2>2, <3>1, <3>2, <3>3
  <2>8. CASE ~Catching(TranslatorAt(j), x)
    <3>1. j = k
      BY <2>2, <2>8
    <3>2. tried[k + 1] = NodeAt(k + 1)
      BY <2>3, <2>5, <2>6, <2>8, <3>1 DEF Following
    <3>3. Passed(k + 1)
      <4> SUFFICES ASSUME NEW l \in 0..n, l < k + 1 PROVE ~Catching(TranslatorAt(l), x)
        OBVIOUS
      <4>1. l < k \/ l = k
        OBVIOUS
      <4> QED BY <2>2, <2>8, <3>1, <4>1
    <3>4. k + 1 \in 0..n /\ Halted(k + 1, k + 1)
      BY <2>1
    <3> HIDE DEF Passed, Halted
    <3> QED BY <3>2, <3>3, <3>4
  <2> QED BY <2>7, <2>8
<1>12. n \in T
  <2> HIDE DEF T
  <2>1. Nat \subseteq T
    BY <1>10, <1>11, InductionBySet
  <2> QED BY <1>1, <2>1
<1>13. PICK j \in 0..n : tried[n] = NodeAt(j) /\ Passed(j) /\ Halted(n, j)
  BY <1>1, <1>12
<1> HIDE DEF T
<1>14. ASSUME NEW l \in 0..n, l < m
       PROVE  /\ m - l \in 1..m /\ TranslatorAt(l) = registered[m - l]
              /\ Catching(TranslatorAt(l), x) <=> m - l \in able
  <2>1. m - l \in 1..m /\ TranslatorAt(l) = registered[m - l]
    BY <1>1, <1>14 DEF TranslatorAt
  <2>2. registered[m - l] # "default"
    BY <1>1, <2>1, ErrorsAssumption
  <2> QED BY <1>1, <2>1, <2>2 DEF Catching
<1>15. Catching(TranslatorAt(m), x) <=> x # "foreign"
  BY <1>1 DEF TranslatorAt, Catching
<1>16. ASSUME j >= m PROVE able = {}
  <2> SUFFICES ASSUME NEW a \in able PROVE FALSE
    OBVIOUS
  <2>1. a \in 1..m
    BY <1>1
  <2>2. m - a \in 0..n /\ m - a < m /\ m - a < j /\ m - (m - a) = a
    BY <1>1, <1>16, <2>1
  <2> QED BY <1>13, <1>14, <2>2
<1>17. CASE j = n
  <2>1. tried[n] = NoNode
    BY <1>1, <1>13, <1>17 DEF NodeAt
  <2>2. m \in 0..n /\ m < j /\ j >= m
    BY <1>1, <1>17
  <2>3. x = "foreign"
    BY <1>13, <1>15, <2>2
  <2>4. able = {}
    BY <1>16, <2>2
  <2> HIDE DEF able
  <2>5. Translated(x) = "SystemError"
    BY <1>3, <2>1
  <2> QED BY <2>3, <2>4, <2>5 DEF able
<1>18. CASE j # n
  <2>1. j \in 0..m /\ Catching(TranslatorAt(j), x)
    BY <1>1, <1>13, <1>18
  <2>2. NodeAt(j) \in 1..n /\ nodes[NodeAt(j)].translator = TranslatorAt(j)
    BY <2>1, NodesInOrder DEF n
  <2>3. Translated(x) = TranslatorAt(j)
    BY <1>3, <1>13, <2>2 DEF NoNode
  <2>4. CASE j = m
    <3>1. x # "foreign" /\ able = {}
      BY <1>1, <1>15, <1>16, <2>1, <2>4
    <3>2. TranslatorAt(j) = "default"
      BY <1>1, <2>4 DEF TranslatorAt
    <3> HIDE DEF able
    <3> QED BY <2>3, <3>1, <3>2 DEF Names, able
  <2>5. CASE j # m
    <3>1. j < m
      <4>1. j \in 0..m /\ m \in Nat
        BY <1>1, <2>1
      <4> HIDE DEF m
      <4> QED BY <2>5, <4>1
    <3>2. m - j \in able /\ TranslatorAt(j) = registered[m - j] /\ m - j \in 1..m
      BY <1>14, <2>1, <3>1
    <3>3. ASSUME NEW a \in able PROVE m - j >= a
      <4>1. a \in 1..m
        BY <1>1
      <4>2. m - a \in 0..n /\ m - a < m /\ m - (m - a) = a
        BY <1>1, <4>1
      <4>3. ~(m - a < j)
        BY <1>13, <1>14, <4>2
      <4> QED BY <1>1, <4>1, <4>3
    <3>4. able \in SUBSET Int
      BY <1>1
    <3> HIDE DEF able
    <3>5. Max(able) = m - j
      <4>1. \A a \in able : (\A b \in able : a >= b) => a = m - j
        BY <3>2, <3>3, <3>4
      <4> QED BY <3>2, <3>3, <4>1 DEF Max
    <3>6. able # {} /\ registered[m - j] \in Translators
      BY <1>1, <3>2
    <3> QED BY <2>3, <3>2, <3>5, <3>6 DEF Names, able
  <2> QED BY <2>4, <2>5
<1> QED BY <1>17, <1>18

-----------------------------------------------------------------------------
(* The invariant *)

Kinds == Names \cup {"none", "python", "chained", "builtin", "SystemError"}

\* What is thrown is what the function threw, and no other error is set.
Underway(i, e, x) ==
  /\ i = NoValue
  /\ \/ x.kind = "python" /\ x.slot \in Slots /\ x.value \in Values /\ e[x.slot] = x.value
     \/ x.kind = "builtin" /\ x.written = x.length
     \/ x.kind = "cpp" /\ x.type \in Exceptions

\* Between two actions nothing is owed, no error was lost, and what the properties say of
\* functions that ended holds.
ErrorsSound ==
  /\ Reckoned(Heap, errs, indicator, NoValue, 0)
  /\ origin \in [Values -> Kinds] /\ lost = FALSE
  /\ Listed(registered, nodes)
  /\ phase = "thrown" => Underway(indicator, errs, thrown)
  /\ FailsAsThrown /\ NewestTranslates

LEMMA HeapIs ==
  ASSUME NEW h, NEW e, NEW i, NEW o, NEW n, Reckoned(h, e, i, o, n)
  PROVE  h = [refs |-> h.refs, cause |-> h.cause]
BY DEF Reckoned, HeapSet

\* The heap and what holds its objects change together, and the function goes on.
LEMMA ErrorsGoOn ==
  ASSUME ErrorsSound, NEW h, Becomes(h), Reckoned(h, errs', indicator', NoValue, 0),
         origin' \in [Values -> Kinds], UNCHANGED <<lost, nodes, registered>>,
         phase' = "running" \/ (phase' = "thrown" /\ Underway(indicator', errs', thrown'))
  PROVE  ErrorsSound'
<1>1. Heap' = h
  BY HeapIs DEF Becomes, Heap
<1>2. Reckoned(Heap', errs', indicator', NoValue, 0)
  BY <1>1
<1>3. Listed(registered', nodes')
  BY DEF ErrorsSound
<1>4. lost' = FALSE /\ phase' # "returned"
  BY DEF ErrorsSound
<1> QED BY <1>2, <1>3, <1>4 DEF ErrorsSound, FailsAsThrown, NewestTranslates

\* The error that is set is dropped.
LEMMA IndicatorDropped ==
  ASSUME Reckoned(Heap, errs, indicator, NoValue, 0)
  PROVE  /\ Reckoned(Heap, errs, NoValue, indicator, 1)
         /\ Reckoned(Dropped(Heap, indicator), errs, NoValue, NoValue, 0)
         /\ \A x \in Values : references[x] = 0 => Dropped(Heap, indicator).refs[x] = 0
<1>1. \A x \in Values : One(NoValue, x) + 1 * One(indicator, x) = One(indicator, x) + 0 * One(NoValue, x)
  BY ValuesApart DEF One
<1>2. indicator \in Values \cup {NoValue}
  BY DEF Reckoned
<1>3. Reckoned(Heap, errs, NoValue, indicator, 1)
  BY <1>1, <1>2, PassedOn
<1>4. Heap.refs = references
  BY DEF Heap
<1> QED BY <1>3, <1>4, DroppedReckons

\* What is owed to an object is the indicator's.
LEMMA IndicatorSet ==
  ASSUME NEW h, NEW e, NEW x \in Values \cup {NoValue}, Reckoned(h, e, NoValue, x, 1)
  PROVE  Reckoned(h, e, x, NoValue, 0)
<1>1. \A y \in Values : One(x, y) + 0 * One(NoValue, y) = One(NoValue, y) + 1 * One(x, y)
  BY ValuesApart DEF One
<1> QED BY <1>1, PassedOn

LEMMA RaisedReckons ==
  ASSUME Reckoned(Heap, errs, indicator, NoValue, 0), NEW x \in Values
  PROVE  Reckoned(Raised(Heap, x), errs, x, NoValue, 0)
<1>1. Reckoned(Dropped(Heap, indicator), errs, NoValue, NoValue, 0)
  BY IndicatorDropped
<1>2. Reckoned(Incref(Dropped(Heap, indicator), x, 1), errs, NoValue, x, 1)
  BY <1>1, IncrefReckons
<1> QED BY <1>2, IndicatorSet DEF Raised

\* A slot gives up what it holds, and holds y instead, which is no error.
LEMMA SlotGivesUp ==
  ASSUME NEW h, NEW e, NEW i, Reckoned(h, e, i, NoValue, 0), NEW s \in Slots, e[s] # NoSlot,
         NEW y \in {NoValue, NoSlot}
  PROVE  /\ e[s] \in Values \cup {NoValue}
         /\ Reckoned(h, [e EXCEPT ![s] = y], i, e[s], 1)
<1>1. e \in Errs /\ i \in Values \cup {NoValue}
  BY DEF Reckoned
<1>2. e[s] \in Values \cup {NoValue}
  BY <1>1 DEF Errs
<1>3. SameHeld(e[s], i, NoValue, 0, y, i, e[s], 1)
  BY ValuesApart DEF One, SameHeld
<1> QED BY <1>1, <1>2, <1>3, Transferred

\* An empty slot takes what is owed to y.
LEMMA SlotTakes ==
  ASSUME NEW h, NEW e, NEW i, NEW y \in Values \cup {NoValue}, Reckoned(h, e, i, y, 1),
         NEW s \in Slots, e[s] \notin Values
  PROVE  Reckoned(h, [e EXCEPT ![s] = y], i, NoValue, 0)
<1>1. e \in Errs /\ i \in Values \cup {NoValue} /\ y \in Values \cup {NoValue, NoSlot}
  BY DEF Reckoned
<1>2. SameHeld(e[s], i, y, 1, y, i, NoValue, 0)
  BY ValuesApart DEF One, SameHeld
<1> QED BY <1>1, <1>2, Transferred

-----------------------------------------------------------------------------
(* One lemma for each action *)

LEMMA OriginTyped ==
  ASSUME ErrorsSound, NEW x \in Values, NEW k \in Kinds
  PROVE  [origin EXCEPT ![x] = k] \in [Values -> Kinds]
BY DEF ErrorsSound

\* Each action leaves the state sound.
LEMMA PythonRaisesKeeps == ASSUME ErrorsSound, NEW x \in Values, PythonRaises(x) PROVE ErrorsSound'
<1>1. Reckoned(Raised(Heap, x), errs, x, NoValue, 0)
  BY RaisedReckons DEF ErrorsSound
<1>2. Becomes(Raised(Heap, x)) /\ indicator' = x /\ UNCHANGED <<errs, lost, nodes, registered>> /\ phase' = "running"
  BY DEF PythonRaises, Executing
<1>3. origin' \in [Values -> Kinds]
  BY OriginTyped DEF PythonRaises, Kinds
<1> QED BY <1>1, <1>2, <1>3, ErrorsGoOn

LEMMA FetchKeeps == ASSUME ErrorsSound, NEW s \in Slots, Fetch(s) PROVE ErrorsSound'
<1>1. Reckoned(Heap, errs, NoValue, indicator, 1) /\ indicator \in Values \cup {NoValue}
  BY IndicatorDropped DEF ErrorsSound, Reckoned
<1>2. errs[s] \notin Values
  BY ValuesApart DEF Fetch
<1>3. Reckoned(Heap, [errs EXCEPT ![s] = indicator], NoValue, NoValue, 0)
  BY <1>1, <1>2, SlotTakes
<1>4. /\ Becomes(Heap) /\ indicator' = NoValue /\ errs' = [errs EXCEPT ![s] = indicator]
      /\ UNCHANGED <<origin, lost, nodes, registered>> /\ phase' = "running"
  BY DEF Fetch, Executing, Becomes, Heap
<1>5. origin' \in [Values -> Kinds]
  BY <1>4 DEF ErrorsSound
<1> QED BY <1>3, <1>4, <1>5, ErrorsGoOn

LEMMA CopyKeeps == ASSUME ErrorsSound, NEW s \in Slots, NEW t \in Slots, Copy(s, t) PROVE ErrorsSound'
<1>1. Reckoned(Heap, errs, indicator, NoValue, 0) /\ errs \in Errs
  BY DEF ErrorsSound, Reckoned
<1>2. errs[s] \in Values \cup {NoValue} /\ errs[t] \notin Values
  BY <1>1, ValuesApart DEF Copy, Errs
<1>3. Reckoned(Copied(s), errs, indicator, errs[s], 1)
  BY <1>1, <1>2, IncrefReckons DEF Copied
<1>4. Reckoned(Copied(s), [errs EXCEPT ![t] = errs[s]], indicator, NoValue, 0)
  BY <1>2, <1>3, SlotTakes
<1>5. /\ Becomes(Copied(s)) /\ errs' = [errs EXCEPT ![t] = errs[s]]
      /\ UNCHANGED <<origin, indicator, lost, nodes, registered>> /\ phase' = "running"
  BY DEF Copy, Executing
<1>6. origin' \in [Values -> Kinds]
  BY <1>5 DEF ErrorsSound
<1> QED BY <1>4, <1>5, <1>6, ErrorsGoOn

LEMMA MoveKeeps == ASSUME ErrorsSound, NEW s \in Slots, NEW t \in Slots, Move(s, t) PROVE ErrorsSound'
<1>1. Reckoned(Heap, errs, indicator, NoValue, 0) /\ errs \in Errs /\ errs[s] # NoSlot /\ errs[t] = NoSlot /\ s # t
  BY DEF ErrorsSound, Reckoned, Move
<1> DEFINE e == [errs EXCEPT ![s] = NoValue]
<1>2. errs[s] \in Values \cup {NoValue} /\ Reckoned(Heap, e, indicator, errs[s], 1)
  BY <1>1, SlotGivesUp
<1>3. e[t] \notin Values
  BY <1>1, ValuesApart DEF Errs
<1>4. [e EXCEPT ![t] = errs[s]] = [errs EXCEPT ![t] = errs[s], ![s] = NoValue]
  BY <1>1 DEF Errs
<1> HIDE DEF e
<1>5. Reckoned(Heap, [e EXCEPT ![t] = errs[s]], indicator, NoValue, 0)
  BY <1>2, <1>3, SlotTakes
<1>6. /\ Becomes(Heap) /\ errs' = [errs EXCEPT ![t] = errs[s], ![s] = NoValue]
      /\ UNCHANGED <<origin, indicator, lost, nodes, registered>> /\ phase' = "running"
  BY DEF Move, Executing, Becomes, Heap
<1>7. origin' \in [Values -> Kinds]
  BY <1>6 DEF ErrorsSound
<1> QED BY <1>4, <1>5, <1>6, <1>7, ErrorsGoOn

LEMMA RestoreErrorKeeps == ASSUME ErrorsSound, NEW s \in Slots, RestoreError(s) PROVE ErrorsSound'
<1>1. Reckoned(Dropped(Heap, indicator), errs, NoValue, NoValue, 0)
  BY IndicatorDropped DEF ErrorsSound
<1>2. errs[s] \in Values /\ errs[s] # NoSlot
  BY ValuesApart DEF RestoreError, Holds
<1>3. Reckoned(Dropped(Heap, indicator), [errs EXCEPT ![s] = NoValue], NoValue, errs[s], 1)
  BY <1>1, <1>2, SlotGivesUp
<1>4. Reckoned(Dropped(Heap, indicator), [errs EXCEPT ![s] = NoValue], errs[s], NoValue, 0)
  BY <1>2, <1>3, IndicatorSet
<1>5. /\ Becomes(Dropped(Heap, indicator)) /\ indicator' = errs[s] /\ errs' = [errs EXCEPT ![s] = NoValue]
      /\ UNCHANGED <<origin, lost, nodes, registered>> /\ phase' = "running"
  BY DEF RestoreError, Executing
<1>6. origin' \in [Values -> Kinds]
  BY <1>5 DEF ErrorsSound
<1> QED BY <1>4, <1>5, <1>6, ErrorsGoOn

LEMMA DiscardKeeps == ASSUME ErrorsSound, NEW s \in Slots, Discard(s) PROVE ErrorsSound'
<1> DEFINE h == Dropped(Heap, indicator)
<1>1. Reckoned(h, errs, NoValue, NoValue, 0)
  BY IndicatorDropped DEF ErrorsSound
<1>2. errs[s] \in Values /\ errs[s] # NoSlot
  BY ValuesApart DEF Discard, Holds
<1>3. Reckoned(h, [errs EXCEPT ![s] = NoValue], NoValue, errs[s], 1)
  BY <1>1, <1>2, SlotGivesUp
<1>4. Reckoned(Dropped(h, errs[s]), [errs EXCEPT ![s] = NoValue], NoValue, NoValue, 0)
  BY <1>3, DroppedReckons
<1>5. /\ Becomes(Dropped(h, errs[s])) /\ indicator' = NoValue /\ errs' = [errs EXCEPT ![s] = NoValue]
      /\ UNCHANGED <<origin, lost, nodes, registered>> /\ phase' = "running"
  BY DEF Discard, Executing
<1>6. origin' \in [Values -> Kinds]
  BY <1>5 DEF ErrorsSound
<1> QED BY <1>4, <1>5, <1>6, ErrorsGoOn

LEMMA DestroyKeeps == ASSUME ErrorsSound, NEW s \in Slots, Destroy(s) PROVE ErrorsSound'
<1> DEFINE h == Dropped(Heap, errs[s])
           e == [errs EXCEPT ![s] = NoSlot]
<1>1. Reckoned(Heap, errs, indicator, NoValue, 0) /\ errs \in Errs /\ errs[s] # NoSlot
  BY DEF ErrorsSound, Reckoned, Destroy
<1>2. Reckoned(Heap, e, indicator, errs[s], 1)
  BY <1>1, SlotGivesUp
<1>3. Reckoned(h, e, indicator, NoValue, 0)
  BY <1>2, DroppedReckons
<1>4. /\ Becomes(h) /\ errs' = e /\ UNCHANGED <<origin, indicator, nodes, registered>>
      /\ phase' = phase /\ thrown' = thrown /\ lost' = (lost \/ (Scope # NoValue /\ Gone(Heap, h)))
      /\ Executing \/ (phase = "thrown" /\ ~Throws(s))
  BY DEF Destroy
<1>5. lost' = lost
  BY <1>4 DEF Scope, ErrorsSound
<1>6. origin' \in [Values -> Kinds]
  BY <1>4 DEF ErrorsSound
<1>7. CASE Executing
  BY <1>3, <1>4, <1>5, <1>6, <1>7, ErrorsGoOn DEF Executing
<1>8. CASE phase = "thrown" /\ ~Throws(s)
  <2>1. Underway(indicator, errs, thrown)
    BY <1>8 DEF ErrorsSound
  <2>2. thrown.kind = "python" /\ thrown.slot \in Slots => e[thrown.slot] = errs[thrown.slot]
    BY <1>1, <1>8 DEF Throws, Errs
  <2>3. Underway(indicator, e, thrown)
    BY <2>1, <2>2 DEF Underway
  <2>4. Underway(indicator', errs', thrown') /\ phase' = "thrown"
    BY <1>4, <1>8, <2>3
  <2> QED BY <1>3, <1>4, <1>5, <1>6, <2>4, ErrorsGoOn
<1> QED BY <1>4, <1>7, <1>8

LEMMA ChainErrorKeeps == ASSUME ErrorsSound, NEW x \in Values, chain_error(x) PROVE ErrorsSound'
<1>1. Reckoned(Heap, errs, NoValue, indicator, 1) /\ indicator \in Values \cup {NoValue}
  BY IndicatorDropped DEF ErrorsSound, Reckoned
<1>2. Heap.refs[x] = 0
  BY DEF chain_error, IsFree, Heap
<1>3. Reckoned(Chained(Heap, x, indicator), errs, NoValue, x, 1)
  BY <1>1, <1>2, ChainedReckons
<1>4. Reckoned(Chained(Heap, x, indicator), errs, x, NoValue, 0)
  BY <1>3, IndicatorSet
<1>5. /\ Becomes(Chained(Heap, x, indicator)) /\ indicator' = x
      /\ UNCHANGED <<errs, lost, nodes, registered>> /\ phase' = "running"
  BY DEF chain_error, Executing
<1>6. origin' \in [Values -> Kinds]
  BY OriginTyped DEF chain_error, Kinds
<1> QED BY <1>4, <1>5, <1>6, ErrorsGoOn

LEMMA RaiseFromKeeps ==
  ASSUME ErrorsSound, NEW s \in Slots, NEW t \in Slots, NEW x \in Values, raise_from(s, t, x)
  PROVE  ErrorsSound'
<1> DEFINE d == Dropped(Heap, indicator)
           e == [errs EXCEPT ![s] = NoValue]
           h == Chained(d, x, errs[s])
<1>1. Reckoned(d, errs, NoValue, NoValue, 0) /\ errs \in Errs /\ (references[x] = 0 => d.refs[x] = 0)
  BY IndicatorDropped DEF ErrorsSound, Reckoned
<1>2. errs[s] \in Values /\ errs[s] # NoSlot /\ errs[t] = NoSlot /\ s # t /\ d.refs[x] = 0
  BY <1>1, ValuesApart DEF raise_from, Holds, IsFree
<1>3. Reckoned(d, e, NoValue, errs[s], 1)
  BY <1>1, <1>2, SlotGivesUp
<1>4. Reckoned(h, e, NoValue, x, 1)
  BY <1>2, <1>3, ChainedReckons
<1>5. e[t] \notin Values
  BY <1>1, <1>2, ValuesApart DEF Errs
<1>6. Reckoned(h, [e EXCEPT ![t] = x], NoValue, NoValue, 0)
  BY <1>4, <1>5, SlotTakes
<1>7. /\ Becomes(h) /\ errs' = [e EXCEPT ![t] = x] /\ indicator' = NoValue /\ UNCHANGED <<lost, nodes, registered>>
      /\ phase' = "thrown" /\ thrown' = [kind |-> "python", slot |-> t, value |-> x]
  BY DEF raise_from
<1>8. origin' \in [Values -> Kinds]
  BY OriginTyped DEF raise_from, Kinds
<1>9. errs'[t] = x
  BY <1>1, <1>7 DEF Errs
<1>10. Underway(indicator', errs', thrown')
  BY <1>7, <1>9 DEF Underway
<1> HIDE DEF d, e, h
<1> QED BY <1>6, <1>7, <1>8, <1>10, ErrorsGoOn

\* A message arrives whole: what the buffer cannot hold is formatted again.
LEMMA WholeMessage == ASSUME NEW n \in Nat PROVE Formatted(n) = n
BY ErrorsAssumption DEF Formatted, Least

LEMMA ThrowKeeps == ASSUME ErrorsSound, NEW x \in Throwable, Throw(x) PROVE ErrorsSound'
<1>1. /\ Becomes(Heap) /\ indicator = NoValue /\ phase' = "thrown" /\ thrown' = x
      /\ UNCHANGED <<origin, indicator, errs, lost, nodes, registered>>
  BY DEF Throw, Becomes, Heap
<1>2. Reckoned(Heap, errs', indicator', NoValue, 0) /\ origin' \in [Values -> Kinds]
  BY <1>1 DEF ErrorsSound
<1>3. Underway(indicator, errs, x)
  <2>1. CASE x \in {[kind |-> "python", slot |-> s, value |-> errs[s]] : s \in {t \in Slots : Holds(t)}}
    <3>1. PICK s \in Slots : Holds(s) /\ x = [kind |-> "python", slot |-> s, value |-> errs[s]]
      BY <2>1
    <3> QED BY <1>1, <3>1 DEF Holds, Underway
  <2>2. CASE x \in [kind : {"cpp"}, type : Exceptions]
    BY <1>1, <2>2 DEF Underway
  <2>3. CASE x \in {[kind |-> "builtin", type |-> ty, length |-> n, written |-> Formatted(n)] :
                      ty \in {"value_error", "next_overload"}, n \in 0 .. MaxLength}
    <3>1. PICK ty \in {"value_error", "next_overload"}, n \in 0 .. MaxLength :
            x = [kind |-> "builtin", type |-> ty, length |-> n, written |-> Formatted(n)]
      BY <2>3
    <3>2. n \in Nat
      BY ErrorsAssumption
    <3>3. Formatted(n) = n
      BY <3>2, WholeMessage
    <3> QED BY <1>1, <3>1, <3>3 DEF Underway
  <2> QED BY <2>1, <2>2, <2>3 DEF Throwable
<1>4. Underway(indicator', errs', thrown')
  BY <1>1, <1>3
<1> QED BY <1>1, <1>2, <1>4, ErrorsGoOn

LEMMA TranslatorKeeps ==
  ASSUME ErrorsSound, NEW t \in Translators, register_exception_translator(t)
  PROVE  ErrorsSound'
<1>1. /\ nodes' = Inserted(t) /\ registered' = Append(registered, t)
      /\ UNCHANGED <<references, cause, origin, indicator, errs, lost, phase, thrown>> /\ phase = "running"
  BY DEF register_exception_translator, Executing
<1>2. Listed(registered', nodes')
  BY <1>1, InsertedListed DEF ErrorsSound
<1>3. Reckoned(Heap', errs', indicator', NoValue, 0)
  BY <1>1 DEF ErrorsSound, Heap
<1>4. lost' = FALSE /\ origin' \in [Values -> Kinds] /\ phase' = "running"
  BY <1>1 DEF ErrorsSound
<1> QED BY <1>2, <1>3, <1>4 DEF ErrorsSound, FailsAsThrown, NewestTranslates

LEMMA CallAgainKeeps == ASSUME ErrorsSound, CallAgain PROVE ErrorsSound'
<1>1. Reckoned(Dropped(Heap, indicator), errs, NoValue, NoValue, 0)
  BY IndicatorDropped DEF ErrorsSound
<1>2. /\ Becomes(Dropped(Heap, indicator)) /\ indicator' = NoValue /\ UNCHANGED <<origin, errs, lost, nodes, registered>>
      /\ phase' = "running"
  BY DEF CallAgain
<1>3. origin' \in [Values -> Kinds]
  BY <1>2 DEF ErrorsSound
<1> QED BY <1>1, <1>2, <1>3, ErrorsGoOn

\* The same when the function returns.
LEMMA ErrorsReturn ==
  ASSUME ErrorsSound, NEW h, Becomes(h), Reckoned(h, errs', indicator', NoValue, 0),
         origin' \in [Values -> Kinds], UNCHANGED <<lost, nodes, registered>>, phase' = "returned",
         FailsAsThrown', NewestTranslates'
  PROVE  ErrorsSound'
<1>1. Heap' = h
  BY HeapIs DEF Becomes, Heap
<1>2. Reckoned(Heap', errs', indicator', NoValue, 0)
  BY <1>1
<1>3. Listed(registered', nodes') /\ lost' = FALSE
  BY DEF ErrorsSound
<1> QED BY <1>2, <1>3 DEF ErrorsSound

LEMMA ConvertKeeps == ASSUME ErrorsSound, Convert PROVE ErrorsSound'
<1>1. /\ phase = "thrown" /\ Unwound /\ phase' = "returned" /\ UNCHANGED <<thrown, nodes, registered>>
      /\ Reckoned(Heap, errs, indicator, NoValue, 0) /\ errs \in Errs /\ origin \in [Values -> Kinds]
      /\ indicator = NoValue
  BY DEF Convert, ErrorsSound, Reckoned, Underway
<1>2. Underway(indicator, errs, thrown)
  BY <1>1 DEF ErrorsSound
<1>3. thrown.kind # "python" => \A s \in Slots : errs[s] = NoSlot
  BY <1>1 DEF Unwound, Throws
<1>4. CASE thrown.kind = "python"
  <2> DEFINE s == thrown.slot
             d == Dropped(Heap, indicator)
  <2>1. s \in Slots /\ thrown.value \in Values /\ errs[s] = thrown.value /\ errs[s] # NoSlot
    BY <1>2, <1>4, ValuesApart DEF Underway
  <2>2. /\ indicator' = errs[s] /\ Becomes(d) /\ errs' = [errs EXCEPT ![s] = NoSlot] /\ UNCHANGED <<origin, lost>>
    BY <1>4 DEF Convert
  <2>3. Reckoned(d, errs, NoValue, NoValue, 0)
    BY <1>1, IndicatorDropped
  <2> HIDE DEF s, d
  <2>4. Reckoned(d, [errs EXCEPT ![s] = NoSlot], NoValue, errs[s], 1)
    BY <2>1, <2>3, SlotGivesUp
  <2>5. Reckoned(d, [errs EXCEPT ![s] = NoSlot], errs[s], NoValue, 0)
    BY <2>1, <2>4, IndicatorSet
  <2>6. \A r \in Slots : errs'[r] = NoSlot
    BY <1>1, <2>1, <2>2 DEF Unwound, Throws, Errs, s
  <2>7. indicator' # NoValue /\ indicator' = thrown.value
    BY <2>1, <2>2, ValuesApart
  <2>8. FailsAsThrown' /\ NewestTranslates'
    BY <1>1, <1>4, <2>6, <2>7 DEF FailsAsThrown, NewestTranslates
  <2>9. origin' \in [Values -> Kinds]
    BY <1>1, <2>2
  <2> QED BY <1>1, <2>2, <2>5, <2>8, <2>9, ErrorsReturn
<1>5. CASE thrown.kind = "builtin" /\ SetsError
  <2>1. PICK x \in Values : Returned(x, "builtin")
    BY <1>5 DEF Convert
  <2>2. Becomes(Raised(Heap, x)) /\ indicator' = x /\ UNCHANGED <<errs, lost>>
    BY <2>1 DEF Returned
  <2>3. Reckoned(Raised(Heap, x), errs, x, NoValue, 0)
    BY <1>1, RaisedReckons
  <2>4. origin' \in [Values -> Kinds]
    BY <2>1, OriginTyped DEF Returned, Kinds
  <2>5. thrown.written = thrown.length /\ thrown.type # "next_overload" /\ indicator' # NoValue
    BY <1>2, <1>5, <2>2, ValuesApart DEF Underway, SetsError
  <2>6. FailsAsThrown' /\ NewestTranslates'
    BY <1>1, <1>3, <1>5, <2>2, <2>5 DEF FailsAsThrown, NewestTranslates
  <2> QED BY <1>1, <2>2, <2>3, <2>4, <2>6, ErrorsReturn
<1>6. CASE thrown.kind = "builtin" /\ ~SetsError
  <2>1. UNCHANGED <<references, cause, origin, indicator, errs, lost>>
    BY <1>6 DEF Convert
  <2>2. Becomes(Heap) /\ Reckoned(Heap, errs', indicator', NoValue, 0)
    BY <1>1, <2>1 DEF Becomes, Heap
  <2>3. thrown.written = thrown.length /\ thrown.type = "next_overload"
    BY <1>2, <1>6 DEF Underway, SetsError
  <2>4. FailsAsThrown' /\ NewestTranslates'
    BY <1>1, <1>3, <1>6, <2>1, <2>3 DEF FailsAsThrown, NewestTranslates
  <2> QED BY <1>1, <2>1, <2>2, <2>4, ErrorsReturn
<1>7. CASE thrown.kind = "cpp"
  <2> DEFINE ty == thrown.type
  <2>1. ty \in Exceptions /\ Listed(registered, nodes)
    BY <1>2, <1>7 DEF Underway, ErrorsSound
  <2>2. PICK x \in Values : Returned(x, Translated(ty))
    BY <1>7 DEF Convert
  <2>3. Becomes(Raised(Heap, x)) /\ indicator' = x /\ UNCHANGED <<errs, lost>>
        /\ origin' = [origin EXCEPT ![x] = Translated(ty)]
    BY <2>2 DEF Returned
  <2>4. Reckoned(Raised(Heap, x), errs, x, NoValue, 0)
    BY <1>1, RaisedReckons
  <2>5. Translated(ty) \in Kinds
    BY <2>1, NewestFirst DEF Kinds
  <2>6. origin' \in [Values -> Kinds]
    BY <2>3, <2>5, OriginTyped
  <2>7. FailsAsThrown'
    BY <1>1, <1>3, <1>7, <2>3, ValuesApart DEF FailsAsThrown
  <2>8. origin'[indicator'] = Translated(ty)
    BY <1>1, <2>3
  <2>9. NewestTranslates'
    <3>1. LET able == {j \in DOMAIN registered : ty \in Catches[registered[j]]}
          IN  Translated(ty) = IF able # {} THEN registered[Max(able)]
                               ELSE IF ty = "foreign" THEN "SystemError" ELSE "default"
      BY <2>1, NewestFirst
    <3> QED BY <1>1, <2>8, <3>1 DEF NewestTranslates
  <2> QED BY <1>1, <2>3, <2>4, <2>6, <2>7, <2>9, ErrorsReturn
<1> QED BY <1>4, <1>5, <1>6, <1>7 DEF Convert

\* So the state is sound from the first step to the last, and then errors arrive.
LEMMA InitSound == ASSUME ErrInit PROVE ErrorsSound
<1>1. Heap \in HeapSet /\ errs \in Errs /\ indicator = NoValue
  BY DEF ErrInit, Heap, HeapSet, Errs
<1>2. ASSUME NEW x \in Values
      PROVE  /\ Heap.refs[x] = Cardinality(InSlots(errs, x)) + 2 * Cardinality(Causing(Heap, x))
                                 + One(indicator, x) + 0 * One(NoValue, x)
             /\ Heap.refs[x] = 0 => Heap.cause[x] = NoValue
  <2>1. InSlots(errs, x) = {} /\ Causing(Heap, x) = {}
    BY ValuesApart DEF ErrInit, InSlots, Causing, Heap
  <2>2. Cardinality(InSlots(errs, x)) = 0 /\ Cardinality(Causing(Heap, x)) = 0
    BY <2>1, FS_EmptySet
  <2>3. One(NoValue, x) = 0 /\ Heap.refs[x] = 0 /\ Heap.cause[x] = NoValue
    BY ValuesApart DEF One, ErrInit, Heap
  <2> QED BY <1>1, <2>2, <2>3
<1>3. Reckoned(Heap, errs, indicator, NoValue, 0)
  BY <1>1, <1>2 DEF Reckoned
<1>4. Listed(registered, nodes)
  <2> DEFINE node == [translator |-> "default", next |-> NoNode]
  <2>1. registered = <<>> /\ nodes = <<node>> /\ Len(registered) = 0
    BY DEF ErrInit
  <2>2. node \in Nodes
    BY DEF Nodes, Names, NoNode
  <2> HIDE DEF node
  <2>3. registered \in Seq(Translators) /\ nodes \in Seq(Nodes) /\ Len(nodes) = 1 /\ nodes[1] = node
    BY <2>1, <2>2
  <2> QED BY <2>1, <2>3 DEF Listed, node
<1> QED BY <1>3, <1>4 DEF ErrorsSound, ErrInit, Kinds, FailsAsThrown, NewestTranslates

LEMMA StepSound == ASSUME ErrorsSound, [ErrNext]_errVars PROVE ErrorsSound'
<1>1. CASE UNCHANGED errVars
  BY <1>1 DEF ErrorsSound, errVars, Heap, FailsAsThrown, NewestTranslates
<1>2. CASE \E x \in Values : PythonRaises(x) \/ chain_error(x)
  BY <1>2, PythonRaisesKeeps, ChainErrorKeeps
<1>3. CASE \E s \in Slots : Fetch(s) \/ RestoreError(s) \/ Discard(s) \/ Destroy(s)
  BY <1>3, FetchKeeps, RestoreErrorKeeps, DiscardKeeps, DestroyKeeps
<1>4. CASE \E s, t \in Slots : Copy(s, t) \/ Move(s, t)
  BY <1>4, CopyKeeps, MoveKeeps
<1>5. CASE \E s, t \in Slots, x \in Values : raise_from(s, t, x)
  BY <1>5, RaiseFromKeeps
<1>6. CASE \E x \in Throwable : Throw(x)
  BY <1>6, ThrowKeeps
<1>7. CASE \E t \in Translators : register_exception_translator(t)
  BY <1>7, TranslatorKeeps
<1> QED BY <1>1, <1>2, <1>3, <1>4, <1>5, <1>6, <1>7, ConvertKeeps, CallAgainKeeps DEF ErrNext

\* The references of the slots, the indicator and the causes are what is counted.
LEMMA SoundArrives == ASSUME ErrorsSound PROVE ErrorsArrive
<1>1. ASSUME NEW x \in Values PROVE references[x] = Referrers(x)
  <2>1. Heap.refs[x] = Cardinality(InSlots(errs, x)) + 2 * Cardinality(Causing(Heap, x))
                         + One(indicator, x) + 0 * One(NoValue, x)
    BY DEF ErrorsSound, Reckoned
  <2>2. Heap.refs = references /\ Heap.cause = cause
    BY DEF Heap
  <2>3. /\ InSlots(errs, x) = {s \in Slots : errs[s] = x}
        /\ Causing(Heap, x) = {w \in Values : references[w] > 0 /\ cause[w] = x}
    BY <2>2 DEF InSlots, Causing
  <2>4. One(NoValue, x) = 0 /\ One(indicator, x) \in Nat
    BY ValuesApart DEF One
  <2>5. Cardinality(InSlots(errs, x)) \in Nat /\ Cardinality(Causing(Heap, x)) \in Nat
    BY HoldersCounted DEF ErrorsSound, Reckoned
  <2>6. references[x] = Cardinality(InSlots(errs, x)) + 2 * Cardinality(Causing(Heap, x)) + One(indicator, x)
    BY <2>1, <2>2, <2>4, <2>5
  <2> QED BY <2>3, <2>6 DEF Referrers, One
<1>2. ReferencesExact
  BY <1>1 DEF ReferencesExact
<1> QED BY <1>2 DEF ErrorsSound, ErrorSurvives, ErrorsArrive

\* However many exceptions, python_error objects and translators there are, and in whatever order
\* errors are copied, moved, restored, chained, discarded and thrown (error.cpp): their references
\* are exact, none is lost to what a destructor runs, and a function that fails returns with the
\* error that it threw, translated by the newest translator that catches it.
THEOREM ErrorsAlwaysArrive == ErrSpec => []ErrorsArrive
<1>1. ErrInit => ErrorsSound
  BY InitSound
<1>2. ErrorsSound /\ [ErrNext]_errVars => ErrorsSound'
  BY StepSound
<1>3. ErrorsSound => ErrorsArrive
  BY SoundArrives
<1> QED BY <1>1, <1>2, <1>3, PTL DEF ErrSpec

=============================================================================
