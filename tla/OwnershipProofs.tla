-------------------------- MODULE OwnershipProofs --------------------------
(***************************************************************************)
(* Who owns what C++ and Python share.  For any number of instances,       *)
(* addresses and references, the table of nanobind, the reference counts   *)
(* and the owners of objects are exact.  For any number of threads, and in *)
(* every interleaving, an intrusive counter counts exactly and deletes     *)
(* with the last reference, until a count changes in the middle of a       *)
(* hand-over.  For any number of arrays, handles, tensors and users, the   *)
(* memory of an array is there until its last user goes, and no longer.    *)
(***************************************************************************)
EXTENDS Counter, Instances, Ndarray, NaturalFacts, SequenceTheorems, FiniteSetTheorems, TLAPS

-----------------------------------------------------------------------------
(* Counting places in sequences *)

LEMMA PlacesFinite ==
  ASSUME NEW S, NEW s \in Seq(S), NEW x
  PROVE  IsFiniteSet(Places(s, x)) /\ Cardinality(Places(s, x)) \in Nat
<1>1. Len(s) \in Nat /\ DOMAIN s = 1..Len(s)
  OBVIOUS
<1>2. IsFiniteSet(1..Len(s))
  BY <1>1, FS_Interval
<1>3. Places(s, x) \in SUBSET (1..Len(s))
  BY <1>1 DEF Places
<1>4. IsFiniteSet(Places(s, x))
  BY <1>2, <1>3, FS_Subset
<1> QED BY <1>4, FS_CardinalityType

LEMMA PlacesOfAppend ==
  ASSUME NEW S, NEW s \in Seq(S), NEW y \in S, NEW x
  PROVE  Cardinality(Places(Append(s, y), x)) = Cardinality(Places(s, x)) + (IF x = y THEN 1 ELSE 0)
<1>1. Places(Append(s, y), x) = IF x = y THEN Places(s, x) \cup {Len(s) + 1} ELSE Places(s, x)
  <2>1. DOMAIN s = 1..Len(s) /\ DOMAIN Append(s, y) = 1..(Len(s) + 1) /\ Len(s) \in Nat
    BY AppendProperties
  <2>2. \A k \in 1..Len(s) : Append(s, y)[k] = s[k]
    BY AppendProperties
  <2>3. Append(s, y)[Len(s) + 1] = y
    BY AppendProperties
  <2> QED BY <2>1, <2>2, <2>3 DEF Places
<1>2. Len(s) + 1 \notin Places(s, x)
  <2>1. DOMAIN s = 1..Len(s) /\ Len(s) \in Nat
    OBVIOUS
  <2> QED BY <2>1 DEF Places
<1>3. IsFiniteSet(Places(s, x)) /\ Cardinality(Places(s, x)) \in Nat
  BY PlacesFinite
<1>4. Cardinality(Places(s, x) \cup {Len(s) + 1}) = Cardinality(Places(s, x)) + 1
  BY <1>2, <1>3, FS_AddElement
<1> QED BY <1>1, <1>3, <1>4

LEMMA PlacesOfTail ==
  ASSUME NEW S, NEW s \in Seq(S), s # <<>>, NEW x
  PROVE  Cardinality(Places(s, x)) = Cardinality(Places(Tail(s), x)) + (IF x = Head(s) THEN 1 ELSE 0)
<1> DEFINE P == Places(s, x) \ {1}
           Q == Places(Tail(s), x)
           f == [k \in P |-> k - 1]
<1>1. /\ Len(s) \in Nat \ {0} /\ DOMAIN s = 1..Len(s) /\ DOMAIN Tail(s) = 1..(Len(s) - 1)
      /\ \A k \in 1..(Len(s) - 1) : Tail(s)[k] = s[k + 1]
  <2>1. Len(s) \in Nat \ {0} /\ DOMAIN s = 1..Len(s)
    BY EmptySeq
  <2>2. Tail(s) \in Seq(S) /\ Len(Tail(s)) = Len(s) - 1
    BY HeadTailProperties
  <2>3. DOMAIN Tail(s) = 1..(Len(s) - 1)
    BY <2>2
  <2> QED BY <2>1, <2>2, <2>3, HeadTailProperties
<1>2. \A k : k \in P <=> k \in 2..Len(s) /\ s[k] = x
  BY <1>1 DEF Places
<1>3. \A k : k \in Q <=> k \in 1..(Len(s) - 1) /\ s[k + 1] = x
  BY <1>1 DEF Places
<1>4. f \in Bijection(P, Q)
  <2>1. f \in [P -> Q]
    <3>1. ASSUME NEW k \in P PROVE k - 1 \in Q
      BY <1>1, <1>2, <1>3
    <3>2. f = [k \in P |-> k - 1]
      OBVIOUS
    <3> HIDE DEF P, Q, f
    <3> QED BY <3>1, <3>2, Zenon
  <2>2. \A j, k \in P : f[j] = f[k] => j = k
    BY <1>1, <1>2
  <2>3. ASSUME NEW q \in Q PROVE \E p \in P : f[p] = q
    <3>1. PICK p \in P : p - 1 = q
      BY <1>1, <1>2, <1>3
    <3>2. f[p] = q
      BY <3>1
    <3> QED BY <3>2, Zenon
  <2> HIDE DEF f, P, Q
  <2> QED BY <2>1, <2>2, <2>3 DEF Bijection, Injection, Surjection, IsInjective
<1>5. IsFiniteSet(Places(s, x)) /\ Cardinality(Places(s, x)) \in Nat
  BY PlacesFinite
<1>6. IsFiniteSet(P) /\ Cardinality(P) = IF x = Head(s) THEN Cardinality(Places(s, x)) - 1 ELSE Cardinality(Places(s, x))
  <2>1. 1 \in Places(s, x) <=> x = Head(s)
    BY <1>1 DEF Places
  <2> QED BY <1>5, <2>1, FS_RemoveElement
<1>7. Cardinality(Q) = Cardinality(P)
  <2> HIDE DEF f, P, Q
  <2> QED BY <1>4, <1>6, FS_Bijection DEF ExistsBijection
<1> QED BY <1>5, <1>6, <1>7

\* The entries of some of the sequences.
EntriesOn(seqs, D, x) == UNION {{j} \X Places(seqs[j], x) : j \in D}

LEMMA EntriesAgree ==
  ASSUME NEW s, NEW t, NEW D, NEW x, \A j \in D : s[j] = t[j]
  PROVE  EntriesOn(s, D, x) = EntriesOn(t, D, x)
BY DEF EntriesOn

LEMMA EntriesFinite ==
  ASSUME NEW S, NEW D, IsFiniteSet(D), NEW seqs, NEW x, \A j \in D : seqs[j] \in Seq(S)
  PROVE  IsFiniteSet(EntriesOn(seqs, D, x)) /\ Cardinality(EntriesOn(seqs, D, x)) \in Nat
<1> DEFINE B == {{j} \X Places(seqs[j], x) : j \in D}
           f == [j \in D |-> {j} \X Places(seqs[j], x)]
<1>1. f \in Surjection(D, B)
  BY DEF Surjection
<1>2. IsFiniteSet(B)
  <2> HIDE DEF f, B
  <2> QED BY <1>1, FS_Surjection
<1>3. ASSUME NEW T \in B PROVE IsFiniteSet(T)
  <2>1. PICK j \in D : T = {j} \X Places(seqs[j], x)
    OBVIOUS
  <2>2. IsFiniteSet({j}) /\ IsFiniteSet(Places(seqs[j], x))
    BY PlacesFinite, FS_Singleton
  <2> QED BY <2>1, <2>2, FS_Product
<1>4. IsFiniteSet(UNION B)
  <2> HIDE DEF B
  <2> QED BY <1>2, <1>3, FS_UNION
<1>5. IsFiniteSet(EntriesOn(seqs, D, x))
  BY <1>4 DEF EntriesOn
<1> QED BY <1>5, FS_CardinalityType

LEMMA EntriesSplit ==
  ASSUME NEW S, NEW D, IsFiniteSet(D), NEW seqs, NEW x, NEW i, i \notin D,
         \A j \in D \cup {i} : seqs[j] \in Seq(S)
  PROVE  Cardinality(EntriesOn(seqs, D \cup {i}, x)) =
           Cardinality(EntriesOn(seqs, D, x)) + Cardinality(Places(seqs[i], x))
<1> DEFINE E == EntriesOn(seqs, D, x)
           P == Places(seqs[i], x)
           R == {i} \X P
<1>1. EntriesOn(seqs, D \cup {i}, x) = E \cup R
  BY DEF EntriesOn
<1>2. E \cap R = {}
  BY DEF EntriesOn
<1>3. IsFiniteSet(E) /\ Cardinality(E) \in Nat
  BY EntriesFinite
<1>4. IsFiniteSet(P) /\ Cardinality(P) \in Nat
  BY PlacesFinite
<1>5. IsFiniteSet(R) /\ Cardinality(R) = Cardinality(P)
  <2>1. IsFiniteSet({i}) /\ Cardinality({i}) = 1
    BY FS_Singleton
  <2>2. IsFiniteSet(R) /\ Cardinality(R) = Cardinality({i}) * Cardinality(P)
    <3> HIDE DEF P
    <3> QED BY <1>4, <2>1, FS_Product
  <2> HIDE DEF R, P
  <2> QED BY <1>4, <2>1, <2>2
<1>6. Cardinality(E \cap R) = 0
  BY <1>2, FS_EmptySet
<1>7. Cardinality(E \cup R) = Cardinality(E) + Cardinality(R) - Cardinality(E \cap R)
  <2> HIDE DEF E, R
  <2> QED BY <1>3, <1>5, FS_Union
<1>8. Cardinality(E \cup R) = Cardinality(E) + Cardinality(P)
  <2> HIDE DEF E, R, P
  <2> QED BY <1>3, <1>4, <1>5, <1>6, <1>7
<1> QED BY <1>1, <1>8

-----------------------------------------------------------------------------
(* Who keeps what, and what the deallocations have to give up *)

Items == Insts \cup Addrs
Frame == [self : Insts, todo : Seq(Items)]

TodoIn(fr)     == [f \in DOMAIN fr |-> fr[f].todo]
CountIn(kp, fr, x) == Cardinality(Entries(kp, x)) + Cardinality(Entries(TodoIn(fr), x))
CountsIn(kp, fr) == [x \in Items |-> CountIn(kp, fr, x)]
DoomedIn(fr)   == {i \in Insts : \E k \in DOMAIN fr : fr[k].self = i}
KeepsIn(kp)    == {p \in Insts \X Items : \E k \in DOMAIN kp[p[1]] : kp[p[1]][k] = p[2]}

Keepings == [Insts -> Seq(Items)]

LEMMA KeepSplit ==
  ASSUME NEW kp \in Keepings, NEW i \in Insts, NEW x
  PROVE  /\ Cardinality(Entries(kp, x)) = Cardinality(EntriesOn(kp, Insts \ {i}, x)) + Cardinality(Places(kp[i], x))
         /\ Cardinality(EntriesOn(kp, Insts \ {i}, x)) \in Nat /\ Cardinality(Places(kp[i], x)) \in Nat
<1>1. IsFiniteSet(Insts \ {i}) /\ (Insts \ {i}) \cup {i} = Insts /\ DOMAIN kp = Insts
  BY InstsAssumption, FS_RemoveElement DEF Keepings
<1>2. \A j \in (Insts \ {i}) \cup {i} : kp[j] \in Seq(Items)
  BY DEF Keepings
<1>3. Entries(kp, x) = EntriesOn(kp, (Insts \ {i}) \cup {i}, x)
  BY <1>1 DEF Entries, EntriesOn
<1>4. Cardinality(EntriesOn(kp, (Insts \ {i}) \cup {i}, x)) =
        Cardinality(EntriesOn(kp, Insts \ {i}, x)) + Cardinality(Places(kp[i], x))
  BY <1>1, <1>2, EntriesSplit
<1>5. Cardinality(EntriesOn(kp, Insts \ {i}, x)) \in Nat
  BY <1>1, <1>2, EntriesFinite
<1>6. Cardinality(Places(kp[i], x)) \in Nat
  BY <1>2, PlacesFinite
<1> QED BY <1>3, <1>4, <1>5, <1>6

LEMMA KeepChange ==
  ASSUME NEW kp \in Keepings, NEW i \in Insts, NEW s \in Seq(Items), NEW x
  PROVE  /\ Cardinality(Entries([kp EXCEPT ![i] = s], x)) + Cardinality(Places(kp[i], x))
              = Cardinality(Entries(kp, x)) + Cardinality(Places(s, x))
         /\ Cardinality(Entries([kp EXCEPT ![i] = s], x)) \in Nat /\ Cardinality(Entries(kp, x)) \in Nat
         /\ Cardinality(Places(kp[i], x)) \in Nat /\ Cardinality(Places(s, x)) \in Nat
<1> DEFINE k2 == [kp EXCEPT ![i] = s]
<1>1. k2 \in Keepings /\ k2[i] = s /\ \A j \in Insts \ {i} : k2[j] = kp[j]
  BY DEF Keepings
<1>2. EntriesOn(k2, Insts \ {i}, x) = EntriesOn(kp, Insts \ {i}, x)
  <2> HIDE DEF k2
  <2> QED BY <1>1, EntriesAgree
<1>3. /\ Cardinality(Entries(k2, x)) = Cardinality(EntriesOn(k2, Insts \ {i}, x)) + Cardinality(Places(s, x))
      /\ Cardinality(Places(s, x)) \in Nat
  <2> HIDE DEF k2
  <2> QED BY <1>1, KeepSplit
<1>4. /\ Cardinality(Entries(kp, x)) = Cardinality(EntriesOn(kp, Insts \ {i}, x)) + Cardinality(Places(kp[i], x))
      /\ Cardinality(EntriesOn(kp, Insts \ {i}, x)) \in Nat /\ Cardinality(Places(kp[i], x)) \in Nat
  BY KeepSplit
<1>5. /\ Cardinality(Entries(k2, x)) + Cardinality(Places(kp[i], x)) = Cardinality(Entries(kp, x)) + Cardinality(Places(s, x))
      /\ Cardinality(Entries(k2, x)) \in Nat /\ Cardinality(Entries(kp, x)) \in Nat
  <2> HIDE DEF k2
  <2> QED BY <1>2, <1>3, <1>4
<1> QED BY <1>3, <1>4, <1>5

LEMMA TodoAppend ==
  ASSUME NEW fr \in Seq(Frame), NEW e \in Frame, NEW x
  PROVE  /\ Cardinality(Entries(TodoIn(Append(fr, e)), x)) =
              Cardinality(Entries(TodoIn(fr), x)) + Cardinality(Places(e.todo, x))
         /\ Cardinality(Entries(TodoIn(fr), x)) \in Nat
         /\ Cardinality(Places(e.todo, x)) \in Nat
<1> DEFINE n  == Len(fr)
           f2 == Append(fr, e)
           D  == 1..n
<1>1. /\ n \in Nat /\ DOMAIN fr = D /\ DOMAIN f2 = D \cup {n + 1} /\ n + 1 \notin D
      /\ (\A j \in D : f2[j] = fr[j]) /\ f2[n + 1] = e
  <2>1. Len(f2) = n + 1 /\ n \in Nat /\ f2 \in Seq(Frame)
    BY AppendProperties
  <2>2. DOMAIN f2 = 1..(n + 1) /\ DOMAIN fr = D
    BY <2>1
  <2>3. 1..(n + 1) = D \cup {n + 1} /\ n + 1 \notin D
    BY <2>1
  <2> QED BY <2>1, <2>2, <2>3, AppendProperties
<1>2. \A j \in D : fr[j] \in Frame
  BY <1>1, ElementOfSeq
<1> HIDE DEF f2, D
<1>3. IsFiniteSet(D)
  <2> USE DEF D
  <2> QED BY <1>1, FS_Interval
<1>4. /\ \A j \in D : TodoIn(f2)[j] = TodoIn(fr)[j] /\ TodoIn(fr)[j] \in Seq(Items)
      /\ TodoIn(f2)[n + 1] = e.todo /\ e.todo \in Seq(Items)
      /\ DOMAIN TodoIn(f2) = D \cup {n + 1} /\ DOMAIN TodoIn(fr) = D
  BY <1>1, <1>2 DEF TodoIn, Frame
<1>5. EntriesOn(TodoIn(f2), D, x) = EntriesOn(TodoIn(fr), D, x)
  BY <1>4, EntriesAgree
<1>6. \A j \in D \cup {n + 1} : TodoIn(f2)[j] \in Seq(Items)
  BY <1>4
<1>7. Cardinality(EntriesOn(TodoIn(f2), D \cup {n + 1}, x)) =
        Cardinality(EntriesOn(TodoIn(f2), D, x)) + Cardinality(Places(TodoIn(f2)[n + 1], x))
  <2>1. PICK s : s = TodoIn(f2)
    OBVIOUS
  <2>2. PICK m : m = n + 1
    OBVIOUS
  <2>3. m \notin D /\ \A j \in D \cup {m} : s[j] \in Seq(Items)
    BY <1>1, <1>6, <2>1, <2>2
  <2>4. Cardinality(EntriesOn(s, D \cup {m}, x)) = Cardinality(EntriesOn(s, D, x)) + Cardinality(Places(s[m], x))
    BY <1>3, <2>3, EntriesSplit
  <2> QED BY <2>1, <2>2, <2>4
<1>8. /\ Entries(TodoIn(f2), x) = EntriesOn(TodoIn(f2), D \cup {n + 1}, x)
      /\ Entries(TodoIn(fr), x) = EntriesOn(TodoIn(fr), D, x)
  BY <1>4 DEF Entries, EntriesOn
<1>9. Cardinality(EntriesOn(TodoIn(fr), D, x)) \in Nat
  BY <1>3, <1>4, EntriesFinite
<1>10. Cardinality(Places(e.todo, x)) \in Nat
  BY <1>4, PlacesFinite
<1>11. Cardinality(Entries(TodoIn(f2), x)) = Cardinality(Entries(TodoIn(fr), x)) + Cardinality(Places(e.todo, x))
  BY <1>4, <1>5, <1>7, <1>8
<1> USE DEF f2
<1> QED BY <1>8, <1>9, <1>10, <1>11

\* No instance is deallocated twice.
Apart(fr) == \A k, l \in DOMAIN fr : fr[k].self = fr[l].self => k = l

Popped(fr) == [fr EXCEPT ![Len(fr)].todo = Tail(@)]

LEMMA FrontLast ==
  ASSUME NEW fr \in Seq(Frame), fr # <<>>
  PROVE  /\ Len(fr) \in Nat \ {0} /\ Front(fr) \in Seq(Frame) /\ Len(Front(fr)) = Len(fr) - 1
         /\ Last(fr) \in Frame /\ fr = Append(Front(fr), Last(fr))
         /\ \A k \in 1..(Len(fr) - 1) : Front(fr)[k] = fr[k]
<1>1. Len(fr) \in Nat \ {0}
  BY EmptySeq
<1>2. PICK g : g = Front(fr)
  OBVIOUS
<1>3. g \in Seq(Frame) /\ Len(g) = Len(fr) - 1 /\ \A k \in 1..(Len(fr) - 1) : g[k] = fr[k]
  <2>1. g = SubSeq(fr, 1, Len(fr) - 1)
    BY <1>2 DEF Front
  <2>2. PICK m \in Nat : m = Len(fr) - 1
    BY <1>1
  <2>3. \A k \in 1..m : fr[k] \in Frame
    BY <1>1, <2>2, ElementOfSeq
  <2>4. g = SubSeq(fr, 1, m)
    BY <2>1, <2>2
  <2>5. g \in Seq(Frame) /\ Len(g) = (IF 1 <= m THEN m - 1 + 1 ELSE 0) /\ \A k \in 1..(m - 1 + 1) : g[k] = fr[1 + k - 1]
    BY <2>3, <2>4, SubSeqProperties
  <2>6. Len(g) = m
    BY <2>5
  <2>7. ASSUME NEW k \in 1..m PROVE g[k] = fr[k]
    <3>1. k \in 1..(m - 1 + 1) /\ 1 + k - 1 = k
      OBVIOUS
    <3> QED BY <2>5, <3>1
  <2> QED BY <2>2, <2>5, <2>6, <2>7
<1>4. PICK e \in Frame : e = Last(fr) /\ e = fr[Len(fr)]
  <2>1. Len(fr) \in 1..Len(fr)
    BY <1>1
  <2> QED BY <2>1, ElementOfSeq DEF Last
<1>5. fr = Append(g, e)
  <2>1. Append(g, e) \in Seq(Frame) /\ Len(Append(g, e)) = Len(fr)
    BY <1>1, <1>3, AppendProperties
  <2>2. ASSUME NEW k \in 1..Len(fr) PROVE fr[k] = Append(g, e)[k]
    <3>1. CASE k = Len(fr)
      BY <1>1, <1>3, <1>4, <3>1, AppendProperties
    <3>2. CASE k # Len(fr)
      <4>1. k \in 1..Len(g)
        BY <1>1, <1>3, <3>2
      <4> QED BY <1>3, <4>1, AppendProperties
    <3> QED BY <3>1, <3>2
  <2> QED BY <2>1, <2>2, SeqEqual
<1> QED BY <1>1, <1>2, <1>3, <1>4, <1>5

LEMMA PoppedIs ==
  ASSUME NEW fr \in Seq(Frame), fr # <<>>, Last(fr).todo # <<>>
  PROVE  /\ Popped(fr) = Append(Front(fr), [self |-> Last(fr).self, todo |-> Tail(Last(fr).todo)])
         /\ [self |-> Last(fr).self, todo |-> Tail(Last(fr).todo)] \in Frame
         /\ Popped(fr) \in Seq(Frame) /\ Len(Popped(fr)) = Len(fr)
         /\ \A k \in 1..Len(fr) : Popped(fr)[k].self = fr[k].self
<1>1. PICK n \in Nat \ {0} : n = Len(fr) /\ n \in 1..n
  BY FrontLast
<1>2. PICK g \in Seq(Frame) : g = Front(fr) /\ Len(g) = n - 1 /\ \A k \in 1..(n - 1) : g[k] = fr[k]
  BY <1>1, FrontLast
<1>3. PICK l \in Frame : l = Last(fr) /\ l = fr[n]
  BY <1>1, FrontLast DEF Last
<1>4. PICK e \in Frame : e = [self |-> l.self, todo |-> Tail(l.todo)]
  <2>1. l.self \in Insts /\ l.todo \in Seq(Items) /\ l.todo # <<>>
    BY <1>3 DEF Frame
  <2>2. Tail(l.todo) \in Seq(Items)
    BY <2>1, HeadTailProperties
  <2> QED BY <2>1, <2>2 DEF Frame
<1>5. l = [self |-> l.self, todo |-> l.todo]
  BY DEF Frame
<1>6. Popped(fr) = [fr EXCEPT ![n] = e]
  <2>1. Popped(fr) = [fr EXCEPT ![n] = [l EXCEPT !.todo = Tail(@)]]
    BY <1>1, <1>3 DEF Popped
  <2>2. [l EXCEPT !.todo = Tail(@)] = e
    <3>1. PICK i, s : l = [self |-> i, todo |-> s] /\ i = l.self /\ s = l.todo
      BY <1>5
    <3>2. PICK u : u = Tail(s)
      OBVIOUS
    <3>3. [l EXCEPT !.todo = Tail(@)] = [l EXCEPT !.todo = u]
      BY <3>1, <3>2
    <3>4. [l EXCEPT !.todo = u] = [self |-> i, todo |-> u]
      BY <3>1
    <3> QED BY <1>4, <3>1, <3>2, <3>3, <3>4
  <2> QED BY <2>1, <2>2
<1>7. /\ Popped(fr) \in Seq(Frame) /\ Len(Popped(fr)) = n
      /\ \A k \in 1..n : Popped(fr)[k] = IF k = n THEN e ELSE fr[k]
  BY <1>1, <1>6, ExceptSeq
<1>8. Popped(fr) = Append(g, e)
  <2>1. Append(g, e) \in Seq(Frame) /\ Len(Append(g, e)) = n
    BY <1>1, <1>2, AppendProperties
  <2>2. ASSUME NEW k \in 1..n PROVE Popped(fr)[k] = Append(g, e)[k]
    <3>1. CASE k = n
      BY <1>1, <1>2, <1>7, <3>1, AppendProperties
    <3>2. CASE k # n
      <4>1. k \in 1..Len(g)
        BY <1>1, <1>2, <3>2
      <4> QED BY <1>2, <1>7, <3>2, <4>1, AppendProperties
    <3> QED BY <3>1, <3>2
  <2> QED BY <1>7, <2>1, <2>2, SeqEqual
<1>9. \A k \in 1..n : Popped(fr)[k].self = fr[k].self
  BY <1>3, <1>4, <1>7
<1> QED BY <1>1, <1>2, <1>3, <1>4, <1>7, <1>8, <1>9

LEMMA EntryNumbers ==
  ASSUME NEW kp \in Keepings, NEW fr \in Seq(Frame), NEW x
  PROVE  /\ IsFiniteSet(Entries(kp, x)) /\ Cardinality(Entries(kp, x)) \in Nat
         /\ Cardinality(Entries(TodoIn(fr), x)) \in Nat
<1>1. IsFiniteSet(DOMAIN fr)
  <2>1. DOMAIN fr = 1..Len(fr) /\ Len(fr) \in Nat
    OBVIOUS
  <2> QED BY <2>1, FS_Interval
<1>2. \A j \in DOMAIN fr : TodoIn(fr)[j] \in Seq(Items)
  <2>1. \A j \in DOMAIN fr : fr[j] \in Frame
    BY ElementOfSeq
  <2> QED BY <2>1 DEF TodoIn, Frame
<1>3. Entries(TodoIn(fr), x) = EntriesOn(TodoIn(fr), DOMAIN fr, x)
  BY DEF Entries, EntriesOn, TodoIn
<1>4. IsFiniteSet(Insts) /\ \A j \in Insts : kp[j] \in Seq(Items)
  BY InstsAssumption DEF Keepings
<1>5. Entries(kp, x) = EntriesOn(kp, Insts, x)
  BY DEF Entries, EntriesOn, Keepings
<1> QED BY <1>1, <1>2, <1>3, <1>4, <1>5, EntriesFinite

LEMMA CountsAreNumbers ==
  ASSUME NEW kp \in Keepings, NEW fr \in Seq(Frame)
  PROVE  /\ CountsIn(kp, fr) \in [Items -> Nat]
         /\ \A p \in KeepsIn(kp) : CountsIn(kp, fr)[p[2]] # 0
<1>1. \A x \in Items : Cardinality(Entries(kp, x)) \in Nat /\ Cardinality(Entries(TodoIn(fr), x)) \in Nat
  BY EntryNumbers
<1>2. CountsIn(kp, fr) \in [Items -> Nat]
  BY <1>1 DEF CountsIn, CountIn
<1>3. ASSUME NEW p \in KeepsIn(kp) PROVE CountsIn(kp, fr)[p[2]] # 0
  <2>1. PICK j \in Insts, x \in Items : p = <<j, x>> /\ \E k \in DOMAIN kp[j] : kp[j][k] = x
    BY DEF KeepsIn
  <2>2. PICK k \in DOMAIN kp[j] : kp[j][k] = x
    BY <2>1
  <2>3. k \in Places(kp[j], x)
    BY <2>2 DEF Places
  <2>4. <<j, k>> \in Entries(kp, x)
    BY <2>3 DEF Entries, Keepings
  <2>5. Cardinality(Entries(kp, x)) # 0
    BY <2>4, EntryNumbers, FS_EmptySet
  <2>6. CountsIn(kp, fr)[x] = Cardinality(Entries(kp, x)) + Cardinality(Entries(TodoIn(fr), x))
    BY DEF CountsIn, CountIn
  <2> QED BY <1>1, <2>1, <2>5, <2>6
<1> QED BY <1>2, <1>3

\* An instance that goes hands what it keeps to its deallocation.
LEMMA DeallocCounts ==
  ASSUME NEW kp \in Keepings, NEW fr \in Seq(Frame), NEW i \in Insts
  PROVE  LET k2 == [kp EXCEPT ![i] = <<>>]
             f2 == Append(fr, [self |-> i, todo |-> kp[i]])
         IN  /\ k2 \in Keepings /\ f2 \in Seq(Frame) /\ f2 # <<>>
             /\ CountsIn(k2, f2) = CountsIn(kp, fr)
             /\ DoomedIn(f2) = DoomedIn(fr) \cup {i}
             /\ KeepsIn(k2) = {p \in KeepsIn(kp) : p[1] # i}
             /\ Apart(fr) /\ i \notin DoomedIn(fr) => Apart(f2)
<1> DEFINE k2 == [kp EXCEPT ![i] = <<>>]
           e  == [self |-> i, todo |-> kp[i]]
           f2 == Append(fr, e)
<1>1. k2 \in Keepings /\ k2[i] = <<>> /\ \A j \in Insts : j # i => k2[j] = kp[j]
  BY EmptySeq DEF Keepings
<1>2. e \in Frame /\ e.self = i /\ e.todo = kp[i] /\ kp[i] \in Seq(Items)
  BY DEF Frame, Keepings
<1>3. /\ f2 \in Seq(Frame) /\ f2 # <<>> /\ Len(f2) = Len(fr) + 1 /\ f2[Len(fr) + 1] = e
      /\ \A k \in 1..Len(fr) : f2[k] = fr[k]
  BY <1>2, AppendProperties
<1>4. CountsIn(k2, f2) = CountsIn(kp, fr)
  <2>1. ASSUME NEW x \in Items PROVE CountIn(k2, f2, x) = CountIn(kp, fr, x)
    <3>1. /\ Cardinality(Entries(TodoIn(f2), x)) = Cardinality(Entries(TodoIn(fr), x)) + Cardinality(Places(kp[i], x))
          /\ Cardinality(Entries(TodoIn(fr), x)) \in Nat /\ Cardinality(Places(kp[i], x)) \in Nat
      <4> HIDE DEF e
      <4> QED BY <1>2, TodoAppend
    <3>2. /\ Cardinality(Entries(k2, x)) + Cardinality(Places(kp[i], x)) = Cardinality(Entries(kp, x)) + Cardinality(Places(<<>>, x))
          /\ Cardinality(Entries(k2, x)) \in Nat /\ Cardinality(Entries(kp, x)) \in Nat
      <4>1. PICK s \in Seq(Items) : s = <<>>
        BY EmptySeq
      <4>2. /\ Cardinality(Entries([kp EXCEPT ![i] = s], x)) + Cardinality(Places(kp[i], x))
                 = Cardinality(Entries(kp, x)) + Cardinality(Places(s, x))
            /\ Cardinality(Entries([kp EXCEPT ![i] = s], x)) \in Nat /\ Cardinality(Entries(kp, x)) \in Nat
        BY KeepChange
      <4> QED BY <4>1, <4>2
    <3>3. Cardinality(Places(<<>>, x)) = 0
      <4>1. Places(<<>>, x) = {}
        BY DEF Places
      <4> QED BY <4>1, FS_EmptySet
    <3> HIDE DEF k2, f2
    <3> QED BY <3>1, <3>2, <3>3 DEF CountIn
  <2> HIDE DEF k2, f2
  <2> QED BY <2>1 DEF CountsIn
<1>5. DOMAIN fr = 1..Len(fr) /\ DOMAIN f2 = 1..(Len(fr) + 1) /\ Len(fr) \in Nat
  <2> HIDE DEF f2
  <2> QED BY <1>3
<1>6. DoomedIn(f2) = DoomedIn(fr) \cup {i}
  <2> HIDE DEF f2, e
  <2>1. ASSUME NEW j \in Insts PROVE (\E k \in DOMAIN f2 : f2[k].self = j) <=> (\E k \in DOMAIN fr : fr[k].self = j) \/ j = i
    <3>1. ASSUME NEW k \in DOMAIN f2, f2[k].self = j PROVE (\E m \in DOMAIN fr : fr[m].self = j) \/ j = i
      BY <1>2, <1>3, <1>5, <3>1
    <3>2. ASSUME NEW k \in DOMAIN fr, fr[k].self = j PROVE \E m \in DOMAIN f2 : f2[m].self = j
      BY <1>3, <1>5, <3>2
    <3>3. j = i => \E m \in DOMAIN f2 : f2[m].self = j
      BY <1>2, <1>3, <1>5
    <3> QED BY <3>1, <3>2, <3>3
  <2> QED BY <2>1 DEF DoomedIn
<1>7. KeepsIn(k2) = {p \in KeepsIn(kp) : p[1] # i}
  <2> HIDE DEF k2
  <2>1. DOMAIN k2[i] = {}
    BY <1>1
  <2>2. \A p \in Insts \X Items : p[1] \in Insts
    OBVIOUS
  <2> QED BY <1>1, <2>1, <2>2 DEF KeepsIn
<1>8. ASSUME Apart(fr), i \notin DoomedIn(fr) PROVE Apart(f2)
  <2> HIDE DEF f2, e
  <2>1. \A k \in DOMAIN fr : fr[k].self # i
    BY <1>8 DEF DoomedIn
  <2>2. \A k, l \in 1..Len(fr) : f2[k].self = f2[l].self => k = l
    BY <1>3, <1>5, <1>8 DEF Apart
  <2>3. \A k \in 1..Len(fr) : f2[k].self # i
    BY <1>3, <1>5, <2>1
  <2>4. f2[Len(fr) + 1].self = i
    BY <1>2, <1>3
  <2>5. \A k \in DOMAIN f2 : k = Len(fr) + 1 \/ k \in 1..Len(fr)
    BY <1>5
  <2> QED BY <2>2, <2>3, <2>4, <2>5 DEF Apart
<1> QED BY <1>1, <1>3, <1>4, <1>6, <1>7, <1>8

\* A deallocation gives up the first thing that it has to.
LEMMA PopCounts ==
  ASSUME NEW kp \in Keepings, NEW fr \in Seq(Frame), fr # <<>>, Last(fr).todo # <<>>
  PROVE  LET y == Head(Last(fr).todo)
         IN  /\ y \in Items /\ Popped(fr) \in Seq(Frame) /\ Popped(fr) # <<>>
             /\ CountsIn(kp, fr)[y] # 0
             /\ \A x \in Items : CountsIn(kp, fr)[x] = CountsIn(kp, Popped(fr))[x] + (IF x = y THEN 1 ELSE 0)
             /\ DoomedIn(Popped(fr)) = DoomedIn(fr)
             /\ Apart(fr) => Apart(Popped(fr))
<1>1. PICK l \in Frame, g \in Seq(Frame) : l = Last(fr) /\ g = Front(fr) /\ fr = Append(g, l)
  BY FrontLast
<1>2. PICK s \in Seq(Items) : s = l.todo /\ s # <<>>
  BY <1>1 DEF Frame
<1>3. PICK y \in Items, u \in Seq(Items) : y = Head(s) /\ u = Tail(s)
  BY <1>2, HeadTailProperties
<1>4. PICK e \in Frame : e = [self |-> l.self, todo |-> u]
  BY <1>3 DEF Frame
<1>5. PICK f2 \in Seq(Frame) : f2 = Popped(fr) /\ f2 = Append(g, e) /\ Len(f2) = Len(fr)
                               /\ \A k \in 1..Len(fr) : f2[k].self = fr[k].self
  BY <1>1, <1>2, <1>3, <1>4, PoppedIs
<1>6. f2 # <<>>
  BY <1>4, <1>5, AppendProperties
<1>7. ASSUME NEW x \in Items
      PROVE  /\ CountIn(kp, fr, x) = CountIn(kp, f2, x) + (IF x = y THEN 1 ELSE 0)
             /\ CountIn(kp, f2, x) \in Nat
  <2>1. /\ Cardinality(Entries(TodoIn(fr), x)) = Cardinality(Entries(TodoIn(g), x)) + Cardinality(Places(s, x))
        /\ Cardinality(Entries(TodoIn(g), x)) \in Nat /\ Cardinality(Places(s, x)) \in Nat
    <3>1. /\ Cardinality(Entries(TodoIn(Append(g, l)), x)) = Cardinality(Entries(TodoIn(g), x)) + Cardinality(Places(l.todo, x))
          /\ Cardinality(Entries(TodoIn(g), x)) \in Nat /\ Cardinality(Places(l.todo, x)) \in Nat
      BY TodoAppend
    <3> QED BY <1>1, <1>2, <3>1
  <2>2. /\ Cardinality(Entries(TodoIn(f2), x)) = Cardinality(Entries(TodoIn(g), x)) + Cardinality(Places(u, x))
        /\ Cardinality(Places(u, x)) \in Nat
    <3>1. e.todo = u
      BY <1>4
    <3> QED BY <1>5, <3>1, TodoAppend
  <2>3. Cardinality(Places(s, x)) = Cardinality(Places(u, x)) + (IF x = y THEN 1 ELSE 0)
    BY <1>2, <1>3, PlacesOfTail
  <2>4. Cardinality(Entries(kp, x)) \in Nat
    BY EntryNumbers
  <2> QED BY <2>1, <2>2, <2>3, <2>4 DEF CountIn
<1>8. /\ CountsIn(kp, fr)[y] # 0
      /\ \A x \in Items : CountsIn(kp, fr)[x] = CountsIn(kp, f2)[x] + (IF x = y THEN 1 ELSE 0)
  BY <1>7 DEF CountsIn
<1>9. DOMAIN f2 = 1..Len(fr) /\ DOMAIN fr = 1..Len(fr)
  BY <1>5
<1>10. DoomedIn(f2) = DoomedIn(fr) /\ (Apart(fr) => Apart(f2))
  BY <1>5, <1>9 DEF DoomedIn, Apart
<1> QED BY <1>1, <1>2, <1>3, <1>5, <1>6, <1>8, <1>10

\* A deallocation ends.
LEMMA FrontCounts ==
  ASSUME NEW kp \in Keepings, NEW fr \in Seq(Frame), fr # <<>>, Last(fr).todo = <<>>
  PROVE  /\ Front(fr) \in Seq(Frame)
         /\ CountsIn(kp, Front(fr)) = CountsIn(kp, fr)
         /\ Last(fr).self \in DoomedIn(fr)
         /\ Apart(fr) => Apart(Front(fr)) /\ DoomedIn(Front(fr)) = DoomedIn(fr) \ {Last(fr).self}
<1>1. PICK l \in Frame, g \in Seq(Frame) :
        /\ l = Last(fr) /\ g = Front(fr) /\ fr = Append(g, l)
        /\ Len(fr) \in Nat \ {0} /\ Len(g) = Len(fr) - 1 /\ \A k \in 1..(Len(fr) - 1) : g[k] = fr[k]
  BY FrontLast
<1>2. /\ DOMAIN fr = 1..Len(fr) /\ DOMAIN g = 1..(Len(fr) - 1) /\ fr[Len(fr)] = l /\ l.self \in Insts
      /\ l.todo = <<>>
  <2>1. DOMAIN fr = 1..Len(fr) /\ DOMAIN g = 1..Len(g)
    OBVIOUS
  <2>2. l.self \in Insts
    BY DEF Frame
  <2> QED BY <1>1, <2>1, <2>2 DEF Last
<1>3. ASSUME NEW x \in Items PROVE CountIn(kp, fr, x) = CountIn(kp, g, x)
  <2>1. /\ Cardinality(Entries(TodoIn(fr), x)) = Cardinality(Entries(TodoIn(g), x)) + Cardinality(Places(l.todo, x))
        /\ Cardinality(Entries(TodoIn(g), x)) \in Nat
    <3>1. Cardinality(Entries(TodoIn(Append(g, l)), x)) =
            Cardinality(Entries(TodoIn(g), x)) + Cardinality(Places(l.todo, x))
      BY TodoAppend
    <3>2. Cardinality(Entries(TodoIn(g), x)) \in Nat
      BY TodoAppend
    <3>3. fr = Append(g, l)
      BY <1>1
    <3> QED BY <3>1, <3>2, <3>3
  <2>2. Cardinality(Places(l.todo, x)) = 0
    <3>1. Places(l.todo, x) = {}
      BY <1>2 DEF Places
    <3> QED BY <3>1, FS_EmptySet
  <2> QED BY <2>1, <2>2 DEF CountIn
<1>4. CountsIn(kp, g) = CountsIn(kp, fr)
  BY <1>3 DEF CountsIn
<1>5. l.self \in DoomedIn(fr)
  BY <1>1, <1>2 DEF DoomedIn
<1>6. ASSUME Apart(fr) PROVE Apart(g) /\ DoomedIn(g) = DoomedIn(fr) \ {l.self}
  <2>1. Apart(g)
    BY <1>1, <1>2, <1>6 DEF Apart
  <2>2. \A k \in DOMAIN g : k \in DOMAIN fr /\ g[k] = fr[k] /\ k # Len(fr)
    BY <1>1, <1>2
  <2>3. \A k \in DOMAIN g : g[k].self # l.self
    BY <1>1, <1>2, <1>6, <2>2 DEF Apart
  <2>4. \A k \in DOMAIN fr : k \in DOMAIN g \/ k = Len(fr)
    BY <1>1, <1>2
  <2> QED BY <1>2, <2>1, <2>2, <2>3, <2>4 DEF DoomedIn
<1> QED BY <1>1, <1>4, <1>5, <1>6

\* An instance keeps one more.
LEMMA KeepCounts ==
  ASSUME NEW kp \in Keepings, NEW fr \in Seq(Frame), NEW i \in Insts, NEW y \in Items,
         NEW w, w = Append(kp[i], y)
  PROVE  LET k2 == [kp EXCEPT ![i] = w]
         IN  /\ k2 \in Keepings
             /\ \A x \in Items : CountsIn(k2, fr)[x] = CountsIn(kp, fr)[x] + (IF x = y THEN 1 ELSE 0)
             /\ KeepsIn(k2) = KeepsIn(kp) \cup {<<i, y>>}
<1>1. PICK s \in Seq(Items) : s = kp[i]
  BY DEF Keepings
<1>2. PICK u \in Seq(Items) : u = Append(s, y) /\ Len(u) = Len(s) + 1 /\ u[Len(s) + 1] = y /\ \A k \in 1..Len(s) : u[k] = s[k]
  <2>1. PICK u : u = Append(s, y)
    OBVIOUS
  <2>2. u \in Seq(Items) /\ Len(u) = Len(s) + 1 /\ u[Len(s) + 1] = y /\ \A k \in 1..Len(s) : u[k] = s[k]
    BY <2>1, AppendProperties
  <2> QED BY <2>1, <2>2
<1>3. PICK k2 \in Keepings : k2 = [kp EXCEPT ![i] = u] /\ k2[i] = u /\ \A j \in Insts : j # i => k2[j] = kp[j]
  <2>1. PICK k2 : k2 = [kp EXCEPT ![i] = u]
    OBVIOUS
  <2>2. k2 \in Keepings /\ k2[i] = u /\ \A j \in Insts : j # i => k2[j] = kp[j]
    BY <2>1 DEF Keepings
  <2> QED BY <2>1, <2>2
<1>4. ASSUME NEW x \in Items PROVE CountIn(k2, fr, x) = CountIn(kp, fr, x) + (IF x = y THEN 1 ELSE 0)
  <2>1. /\ Cardinality(Entries(k2, x)) + Cardinality(Places(s, x)) = Cardinality(Entries(kp, x)) + Cardinality(Places(u, x))
        /\ Cardinality(Entries(k2, x)) \in Nat /\ Cardinality(Entries(kp, x)) \in Nat
        /\ Cardinality(Places(s, x)) \in Nat /\ Cardinality(Places(u, x)) \in Nat
    <3>1. /\ Cardinality(Entries([kp EXCEPT ![i] = u], x)) + Cardinality(Places(kp[i], x))
               = Cardinality(Entries(kp, x)) + Cardinality(Places(u, x))
          /\ Cardinality(Entries([kp EXCEPT ![i] = u], x)) \in Nat /\ Cardinality(Entries(kp, x)) \in Nat
          /\ Cardinality(Places(kp[i], x)) \in Nat /\ Cardinality(Places(u, x)) \in Nat
      BY KeepChange
    <3> QED BY <1>1, <1>3, <3>1
  <2>2. Cardinality(Places(u, x)) = Cardinality(Places(s, x)) + (IF x = y THEN 1 ELSE 0)
    BY <1>2, PlacesOfAppend
  <2>3. Cardinality(Entries(TodoIn(fr), x)) \in Nat
    BY EntryNumbers
  <2> QED BY <2>1, <2>2, <2>3 DEF CountIn
<1>5. \A x \in Items : CountsIn(k2, fr)[x] = CountsIn(kp, fr)[x] + (IF x = y THEN 1 ELSE 0)
  BY <1>4 DEF CountsIn
<1>6. KeepsIn(k2) = KeepsIn(kp) \cup {<<i, y>>}
  <2>1. DOMAIN s = 1..Len(s) /\ DOMAIN u = 1..(Len(s) + 1) /\ Len(s) \in Nat
    BY <1>2
  <2>2. ASSUME NEW x \in Items PROVE (\E k \in DOMAIN u : u[k] = x) <=> (\E k \in DOMAIN s : s[k] = x) \/ x = y
    BY <1>2, <2>1
  <2>3. ASSUME NEW j \in Insts, NEW x \in Items
        PROVE  (\E k \in DOMAIN k2[j] : k2[j][k] = x) <=> (\E k \in DOMAIN kp[j] : kp[j][k] = x) \/ <<j, x>> = <<i, y>>
    <3>1. CASE j = i
      BY <1>1, <1>3, <2>2, <3>1
    <3>2. CASE j # i
      BY <1>3, <3>2
    <3> QED BY <3>1, <3>2
  <2>4. \A j \in Insts, x \in Items : <<j, x>> \in KeepsIn(k2) <=> <<j, x>> \in KeepsIn(kp) \/ <<j, x>> = <<i, y>>
    BY <2>3 DEF KeepsIn
  <2>5. KeepsIn(k2) \subseteq Insts \X Items /\ KeepsIn(kp) \cup {<<i, y>>} \subseteq Insts \X Items
    BY DEF KeepsIn
  <2>6. \A p \in Insts \X Items : p \in KeepsIn(k2) <=> p \in KeepsIn(kp) \cup {<<i, y>>}
    BY <2>4
  <2> QED BY <2>5, <2>6
<1> QED BY <1>1, <1>2, <1>3, <1>5, <1>6

-----------------------------------------------------------------------------
(* The invariant *)

Record ==
  [type : Types \cup {"none"}, ptr : Addrs \cup {"none"},
   state : {"none", "uninitialized", "ready", "relinquished"},
   internal : BOOLEAN, destruct : BOOLEAN, cpp_delete : BOOLEAN]

Counts == CountsIn(keep, frames)
Doomed == DoomedIn(frames)
Keeps  == KeepsIn(keep)

Shape ==
  /\ inst \in [Insts -> Record] /\ refs \in [Insts -> Nat] /\ held \in [Insts -> Nat]
  /\ borrowed \in [Insts -> SUBSET {"deleter", "shared"}]
  /\ inflight \in [Insts -> {"no", "default", "deleter"}]
  /\ inst_c2p \in [Addrs -> Seq(Insts)]
  /\ keep \in Keepings /\ frames \in Seq(Frame)
  /\ mem \in [Addrs -> {"free", "python", "cpp"}] /\ obj \in [Addrs -> Types \cup {"none"}]
  /\ own \in [Addrs -> {"none", "raw", "shared"}] /\ shares \in [Addrs -> Nat]

\* An instance that is there has all its fields.
Complete ==
  \A i \in Insts : IF inst[i].ptr = "none" THEN inst[i] = NoInst
                                           ELSE inst[i].type # "none" /\ inst[i].state # "none"

\* The list of an address has its instances, and an instance is found before a later one
\* of its type could be.
TableAt(a) ==
  /\ \A i \in Insts : inst[i].ptr = a <=> \E k \in DOMAIN inst_c2p[a] : inst_c2p[a][k] = i
  /\ \A k, l \in DOMAIN inst_c2p[a] :
       k < l => ~PyType_IsSubtype(inst[inst_c2p[a][k]].type, inst[inst_c2p[a][l]].type)

Table == \A a \in Addrs : TableAt(a)

Numbers ==
  /\ \A i \in Insts : refs[i] = held[i] + Cardinality(borrowed[i]) + Counts[i]
  /\ \A a \in Addrs : shares[a] = Counts[a] + (IF own[a] = "shared" THEN 1 ELSE 0)

\* An instance lives as long as it is referred to, and then goes; nothing is converted
\* meanwhile.
Lives ==
  /\ \A i \in Insts :
       /\ Exists(i) <=> refs[i] > 0 \/ i \in Doomed
       /\ i \in Doomed => refs[i] = 0
       /\ refs[i] = 0 => keep[i] = <<>>
       /\ inflight[i] # "no" => Exists(i) /\ frames = <<>>
  /\ Apart(frames)

\* What is at an address.
Memory ==
  \A a \in Addrs :
    /\ own[a] = "raw" => mem[a] = "cpp" /\ obj[a] # "none"
    /\ own[a] = "shared" => shares[a] > 0
    /\ shares[a] > 0 => mem[a] = "cpp" /\ obj[a] # "none"
    /\ obj[a] # "none" => mem[a] # "free"

\* What the fields of an instance mean.
FieldsOf(i) ==
  LET a == inst[i].ptr
  IN  /\ inst[i].state = "uninitialized" => inst[i].internal /\ ~inst[i].destruct /\ obj[a] = "none"
      /\ inst[i].internal => mem[a] = "python" /\ ~inst[i].cpp_delete
      /\ inst[i].internal /\ inst[i].state # "uninitialized" => inst[i].destruct
      /\ inst[i].internal /\ i \in Doomed => obj[a] = "none"
      /\ inst[i].cpp_delete => inst[i].destruct
      /\ inst[i].destruct => inst[i].internal \/ inst[i].cpp_delete
      /\ i \notin Doomed /\ inst[i].cpp_delete => mem[a] = "cpp"
      /\ i \notin Doomed /\ inst[i].destruct => obj[a] = inst[i].type
      /\ inflight[i] # "no" => inst[i].state = "relinquished" /\ "deleter" \notin borrowed[i]
      /\ inflight[i] = "default" => ~inst[i].destruct /\ mem[a] = "cpp" /\ obj[a] = inst[i].type
      /\ "deleter" \in borrowed[i] => inst[i].state = "relinquished"

Fields == \A i \in Insts : FieldsOf(i)

\* One instance has its object within.
OneInternal ==
  \A i, j \in Insts : inst[i].internal /\ inst[j].internal /\ inst[i].ptr = inst[j].ptr => i = j

Has(i) == i \notin Doomed /\ (inst[i].destruct \/ inflight[i] = "default")

\* Who will destroy the object: one instance, or C++.
SoleAt(a) ==
  /\ \A i, j \in Insts : inst[i].ptr = a /\ inst[j].ptr = a /\ Has(i) /\ Has(j) => i = j
  /\ \A i \in Insts : inst[i].ptr = a /\ Has(i) => own[a] # "raw" /\ shares[a] = 0 /\ obj[a] # "none"
  /\ own[a] = "raw" => shares[a] = 0
  /\ obj[a] # "none" => own[a] = "raw" \/ shares[a] > 0 \/ \E i \in Insts : inst[i].ptr = a /\ Has(i)

Sole == \A a \in Addrs : SoleAt(a)

\* An instance that is in use fits the object, and has a hold on it: of its own or, for the
\* first member of the object, through an instance that it keeps.
InUseNow(i) ==
  i \notin Doomed /\ (inst[i].state = "ready" \/ inflight[i] # "no" \/ borrowed[i] # {})

Fits(i) ==
  LET a == inst[i].ptr
  IN  PyType_IsSubtype(obj[a], inst[i].type) \/ (obj[a] = "Whole" /\ inst[i].type = "Part")

Holds(i) ==
  inst[i].destruct \/ inflight[i] = "default" \/ own[inst[i].ptr] = "raw" \/ <<i, inst[i].ptr>> \in Keeps

Rooted(i) ==
  \E j \in Insts : /\ j = i \/ (inst[i].type = "Part" /\ <<i, j>> \in Keeps)
                  /\ inst[j].ptr = inst[i].ptr /\ Holds(j)

AliveOf(i) == inst[i].ptr # "none" /\ Fits(i) /\ Rooted(i)

Alive == \A i \in Insts : InUseNow(i) => AliveOf(i)

Solid == Memory /\ Fields /\ OneInternal /\ Sole /\ Alive

Sound == Shape /\ Complete /\ Table /\ Numbers /\ Lives /\ Solid

-----------------------------------------------------------------------------
(* What each kind of step does to the objects and their owners *)

\* What is kept is there, and what is converted.
Kept ==
  \A i \in Insts :
    /\ \A a \in Addrs : <<i, a>> \in Keeps => shares[a] > 0
    /\ \A j \in Insts : <<i, j>> \in Keeps => j \notin Doomed /\ inst[j] # NoInst
    /\ inflight[i] # "no" => i \notin Doomed /\ inst[i] # NoInst

\* References come and go.
LEMMA Quiet ==
  ASSUME Shape, Solid, UNCHANGED <<inst, inflight, mem, obj, own, shares>>,
         Doomed' = Doomed, Keeps \subseteq Keeps',
         \A i \in Insts : \/ borrowed'[i] \subseteq borrowed[i]
                          \/ inst[i].state = "ready" /\ borrowed'[i] \subseteq borrowed[i] \cup {"shared"}
  PROVE  Solid'
<1>1. Memory' /\ OneInternal'
  BY DEF Solid, Memory, OneInternal
<1>2. Sole'
  BY DEF Solid, Sole, SoleAt, Has
<1>3. Fields'
  <2>1. \A i \in Insts : "deleter" \in borrowed'[i] => "deleter" \in borrowed[i]
    OBVIOUS
  <2> QED BY <2>1 DEF Solid, Fields, FieldsOf
<1>4. Alive'
  <2>1. \A i \in Insts : borrowed'[i] # {} => borrowed[i] # {} \/ inst[i].state = "ready"
    OBVIOUS
  <2>2. \A i \in Insts : InUseNow(i)' => InUseNow(i)
    BY <2>1 DEF InUseNow
  <2>3. \A i \in Insts : Fits(i)' <=> Fits(i)
    BY DEF Fits
  <2>4. \A i \in Insts : Holds(i) => Holds(i)'
    BY DEF Holds
  <2>5. \A i \in Insts : Rooted(i) => Rooted(i)'
    BY <2>4 DEF Rooted
  <2> QED BY <2>2, <2>3, <2>5 DEF Solid, Alive, AliveOf
<1> QED BY <1>1, <1>2, <1>3, <1>4 DEF Solid

\* An instance begins to go, and perhaps its object and the memory.
Dies(i) ==
  /\ i \notin Doomed /\ Doomed' = Doomed \cup {i}
  /\ inst[i].ptr \in Addrs
  /\ Keeps' = {p \in Keeps : p[1] # i} /\ \A p \in Keeps : p[2] # i
  /\ Destroyed(inst[i].ptr, inst[i].destruct, inst[i].cpp_delete)
  /\ UNCHANGED <<inflight, own, shares>> /\ \A j \in Insts : inflight[j] = "no"
  /\ \A j \in Insts : j # i => borrowed'[j] \subseteq borrowed[j]
  /\ borrowed'[i] = {}
  /\ \A j \in Insts : j # i => inst'[j] = inst[j]
  /\ inst' = inst \/ (inst[i].state # "uninitialized" /\ inst' = [inst EXCEPT ![i].state = "ready"])

LEMMA DyingKeeps ==
  ASSUME Shape, Complete, Kept, Solid, NEW i \in Insts, Dies(i)
  PROVE  Solid'
<1> DEFINE a == inst[i].ptr
<1>1. /\ a \in Addrs /\ i \notin Doomed /\ Doomed' = Doomed \cup {i} /\ inflight' = inflight
      /\ own' = own /\ shares' = shares /\ \A j \in Insts : inflight[j] = "no"
  BY DEF Dies
<1>2. /\ \A b \in Addrs : obj'[b] = IF b = a /\ inst[i].destruct THEN "none" ELSE obj[b]
      /\ \A b \in Addrs : mem'[b] = IF b = a /\ inst[i].cpp_delete THEN "free" ELSE mem[b]
  BY DEF Dies, Destroyed, Shape
<1>3. \A j \in Insts : /\ inst'[j].type = inst[j].type /\ inst'[j].ptr = inst[j].ptr
                       /\ inst'[j].internal = inst[j].internal /\ inst'[j].destruct = inst[j].destruct
                       /\ inst'[j].cpp_delete = inst[j].cpp_delete
                       /\ j # i => inst'[j].state = inst[j].state
                       /\ inst'[j].state = "uninitialized" <=> inst[j].state = "uninitialized"
  BY DEF Dies, Shape, Record
<1>4. \A j \in Insts : "deleter" \in borrowed'[j] => j # i /\ "deleter" \in borrowed[j]
  BY DEF Dies
<1>5. inst[i].destruct => Has(i) /\ own[a] # "raw" /\ shares[a] = 0
  BY <1>1 DEF Has, Solid, Sole, SoleAt
<1>6. inst[i].cpp_delete => inst[i].destruct
  BY DEF Solid, Fields, FieldsOf
<1>7. Memory'
  BY <1>1, <1>2, <1>5, <1>6 DEF Solid, Memory, Shape
<1>8. ASSUME NEW j \in Insts, j # i, inst[j].ptr = a, Has(j) PROVE ~inst[i].destruct
  BY <1>1, <1>5, <1>8 DEF Solid, Sole, SoleAt
<1>9. ASSUME NEW j \in Insts, j # i, inst[j].internal, inst[j].ptr = a PROVE ~inst[i].cpp_delete
  BY <1>1, <1>9 DEF Solid, Fields, FieldsOf
<1>10. Fields'
  <2> SUFFICES ASSUME NEW j \in Insts PROVE FieldsOf(j)'
    BY DEF Fields
  <2>1. inst[j].ptr \in Addrs \/ inst[j] = NoInst
    BY DEF Shape, Record, Complete
  <2>2. CASE j = i
    BY <1>1, <1>2, <1>3, <1>4, <2>2 DEF Solid, Fields, FieldsOf
  <2>3. CASE j # i
    BY <1>1, <1>2, <1>3, <1>4, <1>8, <1>9, <2>1, <2>3 DEF Solid, Fields, FieldsOf, Has, NoInst
  <2> QED BY <2>2, <2>3
<1>11. OneInternal'
  BY <1>3 DEF Solid, OneInternal
<1>12. Sole'
  <2>1. \A j \in Insts : Has(j)' <=> Has(j) /\ j # i
    BY <1>1, <1>3 DEF Has
  <2> SUFFICES ASSUME NEW b \in Addrs PROVE SoleAt(b)'
    BY DEF Sole
  <2>2. \A j, k \in Insts : inst'[j].ptr = b /\ inst'[k].ptr = b /\ Has(j)' /\ Has(k)' => j = k
    BY <1>3, <2>1 DEF Solid, Sole, SoleAt
  <2>3. ASSUME NEW j \in Insts, inst'[j].ptr = b, Has(j)' PROVE own'[b] # "raw" /\ shares'[b] = 0 /\ obj'[b] # "none"
    BY <1>1, <1>2, <1>3, <1>8, <2>1, <2>3 DEF Solid, Sole, SoleAt
  <2>4. own'[b] = "raw" => shares'[b] = 0
    BY <1>1 DEF Solid, Sole, SoleAt
  <2>5. ASSUME obj'[b] # "none", own'[b] # "raw", ~(shares'[b] > 0) PROVE \E j \in Insts : inst'[j].ptr = b /\ Has(j)'
    <3>1. obj[b] # "none"
      BY <1>2, <2>5
    <3>2. PICK j \in Insts : inst[j].ptr = b /\ Has(j)
      BY <1>1, <2>5, <3>1 DEF Solid, Sole, SoleAt
    <3>3. j # i
      <4>1. inst[i].destruct => b # a
        BY <1>2, <2>5
      <4>2. ~inst[i].destruct => ~Has(i)
        BY <1>1 DEF Has
      <4> QED BY <3>2, <4>1, <4>2
    <3> QED BY <1>3, <2>1, <3>2, <3>3
  <2> QED BY <2>2, <2>3, <2>4, <2>5 DEF SoleAt
<1>13. Alive'
  <2> SUFFICES ASSUME NEW j \in Insts, InUseNow(j)' PROVE AliveOf(j)'
    BY DEF Alive
  <2>1. j # i /\ j \notin Doomed /\ inst'[j] = inst[j] /\ borrowed'[j] \subseteq borrowed[j]
    BY <1>1 DEF InUseNow, Dies
  <2>2. InUseNow(j)
    BY <1>1, <2>1 DEF InUseNow
  <2>3. AliveOf(j)
    BY <2>2 DEF Solid, Alive
  <2>4. PICK b \in Addrs : b = inst[j].ptr
    BY <2>3 DEF AliveOf, Shape, Record
  <2>5. PICK k \in Insts : (k = j \/ (inst[j].type = "Part" /\ <<j, k>> \in Keeps)) /\ inst[k].ptr = b /\ Holds(k)
    BY <2>3, <2>4 DEF AliveOf, Rooted
  <2>6. k # i /\ k \notin Doomed
    BY <2>1, <2>5 DEF Kept, Dies
  <2>7. Holds(k)'
    <3>1. <<k, b>> \in Keeps => <<k, b>> \in Keeps'
      BY <2>6 DEF Dies
    <3> QED BY <1>1, <1>3, <2>5, <3>1 DEF Holds
  <2>8. obj'[b] = obj[b]
    <3>1. CASE b = a /\ inst[i].destruct
      <4>1. own[b] # "raw" /\ shares[b] = 0 /\ <<k, b>> \notin Keeps /\ inflight[k] = "no"
        BY <1>1, <1>5, <3>1 DEF Kept
      <4>2. Has(k)
        BY <2>5, <2>6, <4>1 DEF Holds, Has
      <4> QED BY <1>8, <2>5, <2>6, <3>1, <4>2
    <3>2. CASE ~(b = a /\ inst[i].destruct)
      BY <1>2, <3>2
    <3> QED BY <3>1, <3>2
  <2>9. Fits(j)'
    BY <2>1, <2>3, <2>4, <2>8 DEF AliveOf, Fits
  <2>10. Rooted(j)'
    <3>1. (k = j \/ (inst'[j].type = "Part" /\ <<j, k>> \in Keeps')) /\ inst'[k].ptr = inst'[j].ptr
      BY <1>3, <2>1, <2>4, <2>5 DEF Dies
    <3> QED BY <2>7, <3>1 DEF Rooted
  <2>11. inst'[j].ptr # "none"
    BY <2>1, <2>3 DEF AliveOf
  <2> QED BY <2>9, <2>10, <2>11 DEF AliveOf
<1> QED BY <1>7, <1>10, <1>11, <1>12, <1>13 DEF Solid

\* An instance is gone.
Goes(i) ==
  /\ i \in Doomed /\ Doomed' = Doomed \ {i} /\ Keeps' = Keeps /\ \A p \in Keeps : p[1] # i
  /\ inst[i].ptr \in Addrs /\ inst' = [inst EXCEPT ![i] = NoInst]
  /\ mem' = IF inst[i].internal THEN [mem EXCEPT ![inst[i].ptr] = "free"] ELSE mem
  /\ borrowed[i] = {} /\ inflight[i] = "no"
  /\ UNCHANGED <<borrowed, inflight, obj, own, shares>>

LEMMA GoingKeeps ==
  ASSUME Shape, Complete, Kept, Solid, NEW i \in Insts, Goes(i)
  PROVE  Solid'
<1> DEFINE a == inst[i].ptr
<1>1. /\ a \in Addrs /\ i \in Doomed /\ Doomed' = Doomed \ {i} /\ inflight' = inflight /\ borrowed' = borrowed
      /\ own' = own /\ shares' = shares /\ obj' = obj /\ Keeps' = Keeps /\ borrowed[i] = {} /\ inflight[i] = "no"
  BY DEF Goes
<1>2. /\ \A b \in Addrs : mem'[b] = IF b = a /\ inst[i].internal THEN "free" ELSE mem[b]
      /\ inst'[i] = NoInst /\ \A j \in Insts : j # i => inst'[j] = inst[j]
  BY DEF Goes, Shape
<1>3. inst[i].internal => mem[a] = "python" /\ obj[a] = "none"
  BY <1>1 DEF Solid, Fields, FieldsOf
<1>4. Memory'
  BY <1>1, <1>2, <1>3 DEF Solid, Memory
<1>5. Fields'
  <2> SUFFICES ASSUME NEW j \in Insts PROVE FieldsOf(j)'
    BY DEF Fields
  <2>1. CASE j = i
    BY <1>1, <1>2, <2>1 DEF FieldsOf, NoInst
  <2>2. CASE j # i
    <3>1. inst[j].ptr \in Addrs \/ inst[j] = NoInst
      BY DEF Shape, Record, Complete
    <3>2. inst[j].internal /\ inst[i].internal => inst[j].ptr # a
      BY <2>2 DEF Solid, OneInternal
    <3>3. FieldsOf(j)
      BY DEF Solid, Fields
    <3> QED BY <1>1, <1>2, <1>3, <2>2, <3>1, <3>2, <3>3 DEF FieldsOf, NoInst
  <2> QED BY <2>1, <2>2
<1>6. OneInternal'
  BY <1>2 DEF Solid, OneInternal, NoInst
<1>7. \A j \in Insts : Has(j)' <=> Has(j)
  BY <1>1, <1>2 DEF Has, NoInst
<1>8. \A j \in Insts : Has(j) => j # i
  BY <1>1 DEF Has
<1>9. Sole'
  BY <1>1, <1>2, <1>7, <1>8 DEF Solid, Sole, SoleAt
<1>10. Alive'
  <2> SUFFICES ASSUME NEW j \in Insts, InUseNow(j)' PROVE AliveOf(j)'
    BY DEF Alive
  <2>1. j # i
    BY <1>1, <1>2 DEF InUseNow, NoInst
  <2>2. AliveOf(j)
    BY <1>1, <1>2, <2>1 DEF Solid, Alive, InUseNow
  <2>3. PICK k \in Insts : (k = j \/ (inst[j].type = "Part" /\ <<j, k>> \in Keeps)) /\ inst[k].ptr = inst[j].ptr /\ Holds(k)
    BY <2>2 DEF AliveOf, Rooted
  <2>4. k # i
    BY <1>1, <2>1, <2>3 DEF Kept
  <2>5. inst'[k] = inst[k] /\ inst'[j] = inst[j]
    BY <1>2, <2>1, <2>4
  <2>6. Rooted(j)'
    BY <1>1, <2>3, <2>5 DEF Rooted, Holds
  <2> QED BY <1>1, <2>2, <2>5, <2>6 DEF AliveOf, Fits
<1> QED BY <1>4, <1>5, <1>6, <1>9, <1>10 DEF Solid

\* A share of an object goes, and the object with the last.
ShareGoes(a) ==
  /\ a \in Addrs /\ shares[a] # 0 /\ DropShare(a)
  /\ Doomed' = Doomed /\ Keeps' = Keeps
  /\ shares[a] = 1 => \A i \in Insts : <<i, a>> \notin Keeps
  /\ \/ own' = own
     \/ own[a] = "shared" /\ own' = [own EXCEPT ![a] = "none"]
  /\ own'[a] = "shared" => shares[a] > 1
  /\ UNCHANGED <<inst, borrowed, inflight>>

LEMMA ShareGoingKeeps ==
  ASSUME Shape, Complete, Kept, Solid, NEW a, ShareGoes(a)
  PROVE  Solid'
<1>1. /\ a \in Addrs /\ shares[a] \in Nat /\ shares[a] # 0 /\ own[a] # "raw" /\ Doomed' = Doomed /\ Keeps' = Keeps
      /\ inst' = inst /\ borrowed' = borrowed /\ inflight' = inflight
  BY DEF ShareGoes, Shape, Solid, Sole, SoleAt
<1>2. /\ \A b \in Addrs : obj'[b] = IF b = a /\ shares[a] = 1 THEN "none" ELSE obj[b]
      /\ \A b \in Addrs : mem'[b] = IF b = a /\ shares[a] = 1 THEN "free" ELSE mem[b]
      /\ \A b \in Addrs : shares'[b] = IF b = a THEN shares[a] - 1 ELSE shares[b]
      /\ \A b \in Addrs : (own'[b] = "raw" <=> own[b] = "raw") /\ (own'[b] = "shared" => own[b] = "shared")
      /\ own'[a] = "shared" => shares[a] > 1
  BY DEF ShareGoes, DropShare, Destroyed, Shape
<1>3. mem[a] = "cpp" /\ obj[a] # "none"
  BY <1>1 DEF Solid, Memory
<1>4. \A j \in Insts : inst[j].ptr = a => ~Has(j)
  BY <1>1 DEF Solid, Sole, SoleAt
<1>5. Memory'
  BY <1>1, <1>2 DEF Solid, Memory, Shape
<1>6. Fields'
  <2> SUFFICES ASSUME NEW j \in Insts PROVE FieldsOf(j)'
    BY DEF Fields
  <2>1. inst[j].ptr \in Addrs \/ inst[j] = NoInst
    BY DEF Shape, Record, Complete
  <2>2. FieldsOf(j)
    BY DEF Solid, Fields
  <2> QED BY <1>1, <1>2, <1>3, <1>4, <2>1, <2>2 DEF FieldsOf, Has, NoInst, Kept
<1>7. OneInternal'
  BY <1>1 DEF Solid, OneInternal
<1>8. \A j \in Insts : Has(j)' <=> Has(j)
  BY <1>1 DEF Has
<1>9. Sole'
  <2> SUFFICES ASSUME NEW b \in Addrs PROVE SoleAt(b)'
    BY DEF Sole
  <2>1. SoleAt(b)
    BY DEF Solid, Sole
  <2>2. CASE b # a
    BY <1>1, <1>2, <1>8, <2>1, <2>2 DEF SoleAt
  <2>3. CASE b = a
    BY <1>1, <1>2, <1>4, <1>8, <2>1, <2>3 DEF SoleAt
  <2> QED BY <2>2, <2>3
<1>10. Alive'
  <2> SUFFICES ASSUME NEW j \in Insts, InUseNow(j)' PROVE AliveOf(j)'
    BY DEF Alive
  <2>1. AliveOf(j)
    BY <1>1 DEF Solid, Alive, InUseNow
  <2>2. PICK b \in Addrs : b = inst[j].ptr
    BY <2>1 DEF AliveOf, Shape, Record
  <2>3. PICK k \in Insts : (k = j \/ (inst[j].type = "Part" /\ <<j, k>> \in Keeps)) /\ inst[k].ptr = b /\ Holds(k)
    BY <2>1, <2>2 DEF AliveOf, Rooted
  <2>4. obj'[b] = obj[b]
    <3>1. CASE b = a /\ shares[a] = 1
      <4>1. k \notin Doomed
        BY <1>1, <2>3 DEF Kept, InUseNow
      <4>2. <<k, a>> \notin Keeps
        BY <3>1 DEF ShareGoes
      <4> QED BY <1>1, <1>4, <2>3, <3>1, <4>1, <4>2 DEF Holds, Has
    <3>2. CASE ~(b = a /\ shares[a] = 1)
      BY <1>2, <3>2
    <3> QED BY <3>1, <3>2
  <2>5. Rooted(j)'
    BY <1>1, <1>2, <2>2, <2>3 DEF Rooted, Holds
  <2> QED BY <1>1, <2>1, <2>2, <2>4, <2>5 DEF AliveOf, Fits
<1> QED BY <1>5, <1>6, <1>7, <1>9, <1>10 DEF Solid

\* An instance that is new.
New(i, fields) ==
  /\ inst[i] = NoInst /\ i \notin Doomed /\ borrowed[i] = {}
  /\ inst' = [inst EXCEPT ![i] = fields]
  /\ Doomed' = Doomed /\ UNCHANGED <<borrowed, inflight>>

NewInternal(i, T, a, made) ==
  /\ New(i, [type |-> T, ptr |-> a, internal |-> TRUE,
             state |-> IF made THEN "ready" ELSE "uninitialized", destruct |-> made, cpp_delete |-> FALSE])
  /\ mem[a] = "free" /\ \A j \in Insts : inst[j].ptr # a
  /\ mem' = [mem EXCEPT ![a] = "python"] /\ obj' = IF made THEN [obj EXCEPT ![a] = T] ELSE obj
  /\ Keeps' = Keeps /\ UNCHANGED <<own, shares>>

LEMMA NewInternalKeeps ==
  ASSUME Shape, Complete, Kept, Solid, NEW i \in Insts, NEW T \in Types, NEW a \in Addrs,
         NEW made \in BOOLEAN, NewInternal(i, T, a, made)
  PROVE  Solid'
<1>1. /\ inst[i] = NoInst /\ i \notin Doomed /\ borrowed[i] = {} /\ inflight[i] = "no"
      /\ Doomed' = Doomed /\ borrowed' = borrowed /\ inflight' = inflight
      /\ Keeps' = Keeps /\ own' = own /\ shares' = shares /\ mem[a] = "free" /\ \A j \in Insts : inst[j].ptr # a
  BY DEF NewInternal, New, Kept
<1>2. /\ \A b \in Addrs : mem'[b] = IF b = a THEN "python" ELSE mem[b]
      /\ \A b \in Addrs : obj'[b] = IF b = a /\ made THEN T ELSE obj[b]
      /\ inst'[i].type = T /\ inst'[i].ptr = a /\ inst'[i].internal /\ inst'[i].destruct = made /\ ~inst'[i].cpp_delete
      /\ made => inst'[i].state = "ready"
      /\ ~made => inst'[i].state = "uninitialized"
      /\ \A j \in Insts : j # i => inst'[j] = inst[j]
  BY DEF NewInternal, New, Shape
<1>3. obj[a] = "none" /\ own[a] = "none" /\ shares[a] = 0 /\ T # "none"
  BY <1>1 DEF Solid, Memory, Shape, Types
<1>4. Memory'
  BY <1>1, <1>2, <1>3 DEF Solid, Memory
<1>5. Fields'
  <2> SUFFICES ASSUME NEW j \in Insts PROVE FieldsOf(j)'
    BY DEF Fields
  <2>1. CASE j = i
    BY <1>1, <1>2, <1>3, <2>1 DEF FieldsOf
  <2>2. CASE j # i
    <3>1. inst[j].ptr \in Addrs \/ inst[j] = NoInst
      BY DEF Shape, Record, Complete
    <3>2. FieldsOf(j)
      BY DEF Solid, Fields
    <3> QED BY <1>1, <1>2, <2>2, <3>1, <3>2 DEF FieldsOf, NoInst
  <2> QED BY <2>1, <2>2
<1>6. OneInternal'
  BY <1>1, <1>2 DEF Solid, OneInternal
<1>7. /\ \A j \in Insts : j # i => (Has(j)' <=> Has(j))
      /\ Has(i)' <=> made
  BY <1>1, <1>2 DEF Has
<1>8. Sole'
  <2> SUFFICES ASSUME NEW b \in Addrs PROVE SoleAt(b)'
    BY DEF Sole
  <2>1. SoleAt(b)
    BY DEF Solid, Sole
  <2>2. CASE b = a
    BY <1>1, <1>2, <1>3, <1>7, <2>2 DEF SoleAt
  <2>3. CASE b # a
    <3>1. inst[i].ptr # b
      BY <1>1, PlacesAssumption DEF NoInst
    <3> QED BY <1>1, <1>2, <1>7, <2>1, <2>3, <3>1 DEF SoleAt
  <2> QED BY <2>2, <2>3
<1>9. Alive'
  <2> SUFFICES ASSUME NEW j \in Insts, InUseNow(j)' PROVE AliveOf(j)'
    BY DEF Alive
  <2>1. CASE j = i
    <3>1. made
      BY <1>1, <1>2, <2>1 DEF InUseNow
    <3>2. Fits(i)'
      BY <1>2, <3>1 DEF Fits, PyType_IsSubtype
    <3>3. Holds(i)'
      BY <1>2, <3>1 DEF Holds
    <3>4. inst'[i].ptr # "none"
      BY <1>2, PlacesAssumption
    <3> QED BY <2>1, <3>2, <3>3, <3>4 DEF AliveOf, Rooted
  <2>2. CASE j # i
    <3>1. AliveOf(j)
      BY <1>1, <1>2, <2>2 DEF Solid, Alive, InUseNow
    <3>2. PICK k \in Insts : (k = j \/ (inst[j].type = "Part" /\ <<j, k>> \in Keeps)) /\ inst[k].ptr = inst[j].ptr /\ Holds(k)
      BY <3>1 DEF AliveOf, Rooted
    <3>3. k # i
      BY <1>1, <2>2, <3>2 DEF Kept
    <3>4. Rooted(j)'
      BY <1>1, <1>2, <2>2, <3>2, <3>3 DEF Rooted, Holds
    <3>5. inst[j].ptr \in Addrs
      BY <3>1 DEF AliveOf, Shape, Record
    <3> QED BY <1>1, <1>2, <2>2, <3>1, <3>4, <3>5 DEF AliveOf, Fits
  <2> QED BY <2>1, <2>2
<1> QED BY <1>4, <1>5, <1>6, <1>8, <1>9 DEF Solid

\* An instance that refers to an object that it does not own.
NewReference(i, a, T) ==
  /\ New(i, [type |-> T, ptr |-> a, internal |-> FALSE, state |-> "ready",
             destruct |-> FALSE, cpp_delete |-> FALSE])
  /\ PyType_IsSubtype(obj[a], T) \/ (obj[a] = "Whole" /\ T = "Part")
  /\ Keeps \subseteq Keeps'
  /\ \/ own[a] = "raw" \/ <<i, a>> \in Keeps'
     \/ T = "Part" /\ \E j \in Insts : j # i /\ <<i, j>> \in Keeps' /\ inst[j].ptr = a /\ Holds(j)
  /\ shares' = shares \/ (shares[a] > 0 /\ shares' = [shares EXCEPT ![a] = @ + 1])
  /\ UNCHANGED <<mem, obj, own>>

LEMMA NewReferenceKeeps ==
  ASSUME Shape, Complete, Kept, Solid, NEW i \in Insts, NEW T \in Types, NEW a \in Addrs, NewReference(i, a, T)
  PROVE  Solid'
<1>1. /\ inst[i] = NoInst /\ i \notin Doomed /\ borrowed[i] = {} /\ inflight[i] = "no"
      /\ Doomed' = Doomed /\ borrowed' = borrowed /\ inflight' = inflight
      /\ Keeps \subseteq Keeps' /\ own' = own /\ mem' = mem /\ obj' = obj
  BY DEF NewReference, New, Kept
<1>2. /\ inst'[i].type = T /\ inst'[i].ptr = a /\ ~inst'[i].internal /\ ~inst'[i].destruct /\ ~inst'[i].cpp_delete
      /\ inst'[i].state = "ready"
      /\ \A j \in Insts : j # i => inst'[j] = inst[j]
  BY DEF NewReference, New, Shape
<1>3. \A b \in Addrs : shares'[b] \in Nat /\ (shares'[b] = 0 <=> shares[b] = 0)
  <2>1. CASE shares' = shares
    BY <2>1 DEF Shape
  <2>2. CASE shares[a] > 0 /\ shares' = [shares EXCEPT ![a] = @ + 1]
    <3>1. shares[a] \in Nat /\ shares'[a] = shares[a] + 1 /\ \A b \in Addrs : b # a => shares'[b] = shares[b]
      BY <2>2 DEF Shape
    <3> QED BY <2>2, <3>1 DEF Shape
  <2> QED BY <2>1, <2>2 DEF NewReference
<1>4. Memory'
  BY <1>1, <1>3 DEF Solid, Memory, Shape
<1>5. Fields'
  <2> SUFFICES ASSUME NEW j \in Insts PROVE FieldsOf(j)'
    BY DEF Fields
  <2>1. CASE j = i
    BY <1>1, <1>2, <2>1 DEF FieldsOf
  <2>2. CASE j # i
    BY <1>1, <1>2, <2>2 DEF Solid, Fields, FieldsOf
  <2> QED BY <2>1, <2>2
<1>6. OneInternal'
  BY <1>1, <1>2 DEF Solid, OneInternal
<1>7. /\ \A j \in Insts : Has(j)' <=> Has(j)
      /\ ~Has(i)
  BY <1>1, <1>2 DEF Has, NoInst
<1>8. Sole'
  <2> SUFFICES ASSUME NEW b \in Addrs PROVE SoleAt(b)'
    BY DEF Sole
  <2>1. SoleAt(b)
    BY DEF Solid, Sole
  <2>2. shares'[b] > 0 <=> shares[b] > 0
    BY <1>3 DEF Shape
  <2>3. \A j \in Insts : Has(j)' => j # i
    BY <1>7
  <2> QED BY <1>1, <1>2, <1>3, <1>7, <2>1, <2>2, <2>3 DEF SoleAt
<1>9. Alive'
  <2> SUFFICES ASSUME NEW j \in Insts, InUseNow(j)' PROVE AliveOf(j)'
    BY DEF Alive
  <2>1. CASE j = i
    <3>1. Fits(i)'
      BY <1>1, <1>2 DEF Fits, NewReference
    <3>2. Rooted(i)'
      <4>1. CASE own[a] = "raw" \/ <<i, a>> \in Keeps'
        <5>1. Holds(i)'
          BY <1>1, <1>2, <4>1 DEF Holds
        <5> QED BY <5>1 DEF Rooted
      <4>2. CASE T = "Part" /\ \E k \in Insts : k # i /\ <<i, k>> \in Keeps' /\ inst[k].ptr = a /\ Holds(k)
        <5>1. PICK k \in Insts : k # i /\ <<i, k>> \in Keeps' /\ inst[k].ptr = a /\ Holds(k)
          BY <4>2
        <5>2. Holds(k)'
          BY <1>1, <1>2, <5>1 DEF Holds
        <5> QED BY <1>2, <4>2, <5>1, <5>2 DEF Rooted
      <4> QED BY <4>1, <4>2 DEF NewReference
    <3>3. inst'[i].ptr # "none"
      BY <1>2, PlacesAssumption
    <3> QED BY <2>1, <3>1, <3>2, <3>3 DEF AliveOf
  <2>2. CASE j # i
    <3>1. AliveOf(j)
      BY <1>1, <1>2, <2>2 DEF Solid, Alive, InUseNow
    <3>2. PICK k \in Insts : (k = j \/ (inst[j].type = "Part" /\ <<j, k>> \in Keeps)) /\ inst[k].ptr = inst[j].ptr /\ Holds(k)
      BY <3>1 DEF AliveOf, Rooted
    <3>3. k # i
      BY <1>1, <2>2, <3>2 DEF Kept
    <3>4. Holds(k)'
      BY <1>1, <1>2, <3>2, <3>3 DEF Holds
    <3>5. Rooted(j)'
      BY <1>1, <1>2, <2>2, <3>2, <3>3, <3>4 DEF Rooted
    <3> QED BY <1>1, <1>2, <2>2, <3>1, <3>5 DEF AliveOf, Fits
  <2> QED BY <2>1, <2>2
<1> QED BY <1>4, <1>5, <1>6, <1>8, <1>9 DEF Solid

\* An instance that refers to an object and owns it.
NewOwner(i, a, T) ==
  /\ New(i, [type |-> T, ptr |-> a, internal |-> FALSE, state |-> "ready",
             destruct |-> TRUE, cpp_delete |-> TRUE])
  /\ shares[a] = 0 /\ \A j \in Insts : inst[j].ptr # a
  /\ mem' = [mem EXCEPT ![a] = "cpp"] /\ obj' = [obj EXCEPT ![a] = T]
  /\ own' = [own EXCEPT ![a] = "none"]
  /\ Keeps' = Keeps /\ UNCHANGED shares

LEMMA NewOwnerKeeps ==
  ASSUME Shape, Complete, Kept, Solid, NEW i \in Insts, NEW T \in Types, NEW a \in Addrs, NewOwner(i, a, T)
  PROVE  Solid'
<1>1. /\ inst[i] = NoInst /\ i \notin Doomed /\ borrowed[i] = {} /\ inflight[i] = "no"
      /\ Doomed' = Doomed /\ borrowed' = borrowed /\ inflight' = inflight
      /\ Keeps' = Keeps /\ shares' = shares /\ shares[a] = 0 /\ \A j \in Insts : inst[j].ptr # a
  BY DEF NewOwner, New, Kept
<1>2. /\ \A b \in Addrs : mem'[b] = IF b = a THEN "cpp" ELSE mem[b]
      /\ \A b \in Addrs : obj'[b] = IF b = a THEN T ELSE obj[b]
      /\ \A b \in Addrs : own'[b] = IF b = a THEN "none" ELSE own[b]
      /\ inst'[i].type = T /\ inst'[i].ptr = a /\ ~inst'[i].internal /\ inst'[i].destruct /\ inst'[i].cpp_delete
      /\ inst'[i].state = "ready"
      /\ \A j \in Insts : j # i => inst'[j] = inst[j]
  BY DEF NewOwner, New, Shape
<1>3. T # "none"
  BY DEF Types
<1>4. Memory'
  BY <1>1, <1>2, <1>3 DEF Solid, Memory
<1>5. Fields'
  <2> SUFFICES ASSUME NEW j \in Insts PROVE FieldsOf(j)'
    BY DEF Fields
  <2>1. CASE j = i
    BY <1>1, <1>2, <1>3, <2>1 DEF FieldsOf
  <2>2. CASE j # i
    <3>1. inst[j].ptr \in Addrs \/ inst[j] = NoInst
      BY DEF Shape, Record, Complete
    <3>2. FieldsOf(j)
      BY DEF Solid, Fields
    <3> QED BY <1>1, <1>2, <2>2, <3>1, <3>2 DEF FieldsOf, NoInst
  <2> QED BY <2>1, <2>2
<1>6. OneInternal'
  BY <1>1, <1>2 DEF Solid, OneInternal
<1>7. /\ \A j \in Insts : j # i => (Has(j)' <=> Has(j))
      /\ Has(i)' /\ inst[i].ptr \notin Addrs
  BY <1>1, <1>2, PlacesAssumption DEF Has, NoInst
<1>8. Sole'
  <2> SUFFICES ASSUME NEW b \in Addrs PROVE SoleAt(b)'
    BY DEF Sole
  <2>1. SoleAt(b)
    BY DEF Solid, Sole
  <2>2. CASE b = a
    BY <1>1, <1>2, <1>3, <1>7, <2>2 DEF SoleAt
  <2>3. CASE b # a
    BY <1>1, <1>2, <1>7, <2>1, <2>3 DEF SoleAt
  <2> QED BY <2>2, <2>3
<1>9. Alive'
  <2> SUFFICES ASSUME NEW j \in Insts, InUseNow(j)' PROVE AliveOf(j)'
    BY DEF Alive
  <2>1. CASE j = i
    <3>1. Fits(i)'
      BY <1>2 DEF Fits, PyType_IsSubtype
    <3>2. Holds(i)'
      BY <1>2 DEF Holds
    <3>3. inst'[i].ptr # "none"
      BY <1>2, PlacesAssumption
    <3> QED BY <2>1, <3>1, <3>2, <3>3 DEF AliveOf, Rooted
  <2>2. CASE j # i
    <3>1. AliveOf(j)
      BY <1>1, <1>2, <2>2 DEF Solid, Alive, InUseNow
    <3>2. PICK k \in Insts : (k = j \/ (inst[j].type = "Part" /\ <<j, k>> \in Keeps)) /\ inst[k].ptr = inst[j].ptr /\ Holds(k)
      BY <3>1 DEF AliveOf, Rooted
    <3>3. k # i
      BY <1>1, <2>2, <3>2 DEF Kept
    <3>4. inst[j].ptr \in Addrs /\ inst[j].ptr # a
      BY <1>1, <3>1 DEF AliveOf, Shape, Record
    <3>5. Holds(k)'
      BY <1>1, <1>2, <3>2, <3>3, <3>4 DEF Holds
    <3>6. Rooted(j)'
      BY <1>1, <1>2, <2>2, <3>2, <3>3, <3>5 DEF Rooted
    <3> QED BY <1>1, <1>2, <2>2, <3>1, <3>4, <3>6 DEF AliveOf, Fits
  <2> QED BY <2>1, <2>2
<1> QED BY <1>4, <1>5, <1>6, <1>8, <1>9 DEF Solid

\* No instance in use is at an address without an object.
LEMMA NoneInUse ==
  ASSUME Shape, Complete, Solid, NEW i \in Insts, inst[i].ptr \in Addrs, obj[inst[i].ptr] = "none"
  PROVE  ~InUseNow(i) /\ ~Has(i)
<1>1. inst[i].type \in Types
  BY PlacesAssumption DEF Complete, Shape, Record
<1>2. ~Fits(i)
  BY <1>1 DEF Fits, PyType_IsSubtype, Types
<1>3. ~InUseNow(i)
  BY <1>2 DEF Solid, Alive, AliveOf
<1>4. ~Has(i)
  BY DEF Solid, Sole, SoleAt
<1> QED BY <1>3, <1>4

\* The object of an instance is made.
Initializes(i) ==
  /\ inst[i].state = "uninitialized" /\ inst[i].ptr \in Addrs /\ i \notin Doomed
  /\ inst' = [inst EXCEPT ![i].state = "ready", ![i].destruct = TRUE]
  /\ obj' = [obj EXCEPT ![inst[i].ptr] = inst[i].type]
  /\ Doomed' = Doomed /\ Keeps' = Keeps /\ UNCHANGED <<borrowed, inflight, mem, own, shares>>

LEMMA InitializingKeeps ==
  ASSUME Shape, Complete, Kept, Solid, NEW i \in Insts, Initializes(i)
  PROVE  Solid'
<1> DEFINE a == inst[i].ptr
<1>1. /\ a \in Addrs /\ i \notin Doomed /\ Doomed' = Doomed /\ borrowed' = borrowed /\ inflight' = inflight
      /\ Keeps' = Keeps /\ mem' = mem /\ own' = own /\ shares' = shares
  BY DEF Initializes
<1>2. /\ inst[i].internal /\ ~inst[i].destruct /\ ~inst[i].cpp_delete /\ obj[a] = "none" /\ mem[a] = "python"
      /\ inflight[i] = "no" /\ "deleter" \notin borrowed[i]
  BY DEF Initializes, Solid, Fields, FieldsOf, Shape
<1>3. inst[i].type \in Types
  BY <1>1, PlacesAssumption DEF Complete, Shape, Record
<1>4. /\ \A b \in Addrs : obj'[b] = IF b = a THEN inst[i].type ELSE obj[b]
      /\ inst'[i].state = "ready" /\ inst'[i].destruct /\ inst'[i].type = inst[i].type /\ inst'[i].ptr = a
      /\ inst'[i].internal = inst[i].internal /\ inst'[i].cpp_delete = inst[i].cpp_delete
      /\ \A j \in Insts : j # i => inst'[j] = inst[j]
  BY <1>1 DEF Initializes, Shape, Record
<1>5. \A j \in Insts : inst[j].ptr = a => ~InUseNow(j) /\ ~Has(j)
  BY <1>1, <1>2, NoneInUse
<1>6. own[a] = "none" /\ shares[a] = 0 /\ inst[i].type # "none"
  BY <1>1, <1>2, <1>3 DEF Solid, Memory, Shape, Types
<1>7. Memory'
  BY <1>1, <1>2, <1>4, <1>6 DEF Solid, Memory
<1>8. Fields'
  <2> SUFFICES ASSUME NEW j \in Insts PROVE FieldsOf(j)'
    BY DEF Fields
  <2>1. CASE j = i
    BY <1>1, <1>2, <1>4, <2>1 DEF FieldsOf
  <2>2. CASE j # i
    <3>1. inst[j].ptr \in Addrs \/ inst[j] = NoInst
      BY DEF Shape, Record, Complete
    <3>2. inst[j].internal => inst[j].ptr # a
      BY <1>2, <2>2 DEF Solid, OneInternal
    <3>3. FieldsOf(j)
      BY DEF Solid, Fields
    <3> QED BY <1>1, <1>2, <1>4, <1>5, <2>2, <3>1, <3>2, <3>3 DEF FieldsOf, NoInst, Has
  <2> QED BY <2>1, <2>2
<1>9. OneInternal'
  BY <1>4 DEF Solid, OneInternal
<1>10. /\ \A j \in Insts : j # i => (Has(j)' <=> Has(j))
       /\ Has(i)'
  BY <1>1, <1>4 DEF Has
<1>11. Sole'
  <2> SUFFICES ASSUME NEW b \in Addrs PROVE SoleAt(b)'
    BY DEF Sole
  <2>1. SoleAt(b)
    BY DEF Solid, Sole
  <2>2. CASE b = a
    BY <1>1, <1>4, <1>5, <1>6, <1>10, <2>2 DEF SoleAt
  <2>3. CASE b # a
    BY <1>1, <1>4, <1>10, <2>1, <2>3 DEF SoleAt
  <2> QED BY <2>2, <2>3
<1>12. Alive'
  <2> SUFFICES ASSUME NEW j \in Insts, InUseNow(j)' PROVE AliveOf(j)'
    BY DEF Alive
  <2>1. CASE j = i
    <3>1. Fits(i)'
      BY <1>1, <1>4 DEF Fits, PyType_IsSubtype
    <3>2. Holds(i)'
      BY <1>4 DEF Holds
    <3>3. inst'[i].ptr # "none"
      BY <1>1, <1>4, PlacesAssumption
    <3> QED BY <2>1, <3>1, <3>2, <3>3 DEF AliveOf, Rooted
  <2>2. CASE j # i
    <3>1. AliveOf(j) /\ inst[j].ptr # a
      BY <1>1, <1>4, <1>5, <2>2 DEF Solid, Alive, InUseNow
    <3>2. PICK k \in Insts : (k = j \/ (inst[j].type = "Part" /\ <<j, k>> \in Keeps)) /\ inst[k].ptr = inst[j].ptr /\ Holds(k)
      BY <3>1 DEF AliveOf, Rooted
    <3>3. inst[j].ptr \in Addrs /\ k # i
      BY <3>1, <3>2 DEF AliveOf, Shape, Record
    <3>4. Holds(k)'
      BY <1>1, <1>4, <3>2, <3>3 DEF Holds
    <3>5. Rooted(j)'
      BY <1>1, <1>4, <2>2, <3>2, <3>3, <3>4 DEF Rooted
    <3> QED BY <1>1, <1>4, <2>2, <3>1, <3>3, <3>5 DEF AliveOf, Fits
  <2> QED BY <2>1, <2>2
<1> QED BY <1>7, <1>8, <1>9, <1>11, <1>12 DEF Solid

\* C++ makes an object.
Appears(a, T, how) ==
  /\ mem[a] = "free" /\ how \in {"raw", "shared"}
  /\ mem' = [mem EXCEPT ![a] = "cpp"] /\ obj' = [obj EXCEPT ![a] = T]
  /\ own' = [own EXCEPT ![a] = how]
  /\ shares' = IF how = "shared" THEN [shares EXCEPT ![a] = 1] ELSE shares
  /\ Doomed' = Doomed /\ Keeps' = Keeps /\ UNCHANGED <<inst, borrowed, inflight>>

LEMMA AppearingKeeps ==
  ASSUME Shape, Complete, Kept, Solid, NEW a \in Addrs, NEW T \in Types, NEW how, Appears(a, T, how)
  PROVE  Solid'
<1>1. /\ mem[a] = "free" /\ how \in {"raw", "shared"} /\ inst' = inst /\ borrowed' = borrowed /\ inflight' = inflight
      /\ Doomed' = Doomed /\ Keeps' = Keeps
  BY DEF Appears
<1>2. obj[a] = "none" /\ own[a] = "none" /\ shares[a] = 0 /\ T # "none"
  BY <1>1 DEF Solid, Memory, Shape, Types
<1>3. /\ \A b \in Addrs : mem'[b] = IF b = a THEN "cpp" ELSE mem[b]
      /\ \A b \in Addrs : obj'[b] = IF b = a THEN T ELSE obj[b]
      /\ \A b \in Addrs : own'[b] = IF b = a THEN how ELSE own[b]
      /\ \A b \in Addrs : b # a => shares'[b] = shares[b]
      /\ shares'[a] = IF how = "shared" THEN 1 ELSE 0
  <2>1. \A b \in Addrs : shares'[b] = IF how = "shared" /\ b = a THEN 1 ELSE shares[b]
    BY DEF Appears, Shape
  <2> QED BY <1>2, <2>1 DEF Appears, Shape
<1>4. \A j \in Insts : inst[j].ptr = a => ~InUseNow(j) /\ ~Has(j)
  BY <1>2, NoneInUse
<1>5. Memory'
  BY <1>1, <1>2, <1>3 DEF Solid, Memory
<1>6. Fields'
  <2> SUFFICES ASSUME NEW j \in Insts PROVE FieldsOf(j)'
    BY DEF Fields
  <2>1. inst[j].ptr \in Addrs \/ inst[j] = NoInst
    BY DEF Shape, Record, Complete
  <2>2. FieldsOf(j)
    BY DEF Solid, Fields
  <2> QED BY <1>1, <1>3, <1>4, <2>1, <2>2 DEF FieldsOf, NoInst, Has, Kept
<1>7. OneInternal'
  BY <1>1 DEF Solid, OneInternal
<1>8. \A j \in Insts : Has(j)' <=> Has(j)
  BY <1>1 DEF Has
<1>9. Sole'
  <2> SUFFICES ASSUME NEW b \in Addrs PROVE SoleAt(b)'
    BY DEF Sole
  <2>1. SoleAt(b)
    BY DEF Solid, Sole
  <2>2. CASE b = a
    BY <1>1, <1>2, <1>3, <1>4, <1>8, <2>2 DEF SoleAt
  <2>3. CASE b # a
    BY <1>1, <1>3, <1>8, <2>1, <2>3 DEF SoleAt
  <2> QED BY <2>2, <2>3
<1>10. Alive'
  <2> SUFFICES ASSUME NEW j \in Insts, InUseNow(j)' PROVE AliveOf(j)'
    BY DEF Alive
  <2>1. AliveOf(j) /\ inst[j].ptr # a
    BY <1>1, <1>4 DEF Solid, Alive, InUseNow
  <2>2. inst[j].ptr \in Addrs
    BY <2>1 DEF AliveOf, Shape, Record
  <2>3. PICK k \in Insts : (k = j \/ (inst[j].type = "Part" /\ <<j, k>> \in Keeps)) /\ inst[k].ptr = inst[j].ptr /\ Holds(k)
    BY <2>1 DEF AliveOf, Rooted
  <2>4. Holds(k)'
    BY <1>1, <1>3, <2>1, <2>2, <2>3 DEF Holds
  <2>5. Rooted(j)'
    BY <1>1, <2>3, <2>4 DEF Rooted
  <2> QED BY <1>1, <1>3, <2>1, <2>2, <2>5 DEF AliveOf, Fits
<1> QED BY <1>5, <1>6, <1>7, <1>9, <1>10 DEF Solid

\* C++ deletes an object.
Disappears(a) ==
  /\ own[a] = "raw" /\ UsedAt(a) = {} /\ Doomed = {}
  /\ Destroyed(a, TRUE, TRUE) /\ own' = [own EXCEPT ![a] = "none"]
  /\ Doomed' = Doomed /\ Keeps' = Keeps /\ UNCHANGED <<inst, borrowed, inflight, shares>>

LEMMA UnusedAt ==
  ASSUME Shape, NEW a \in Addrs, UsedAt(a) = {}, NEW i \in Insts, inst[i].ptr = a
  PROVE  ~InUseNow(i) /\ inflight[i] = "no" /\ borrowed[i] = {}
<1>1. inflight[i] = "no" /\ borrowed[i] = {}
  BY DEF UsedAt
<1>2. ~(inst[i].state = "ready" /\ ~Dying(i))
  BY DEF UsedAt, ReadyAt
<1>3. Dying(i) => i \in Doomed
  BY DEF Dying, Doomed, DoomedIn
<1> QED BY <1>1, <1>2, <1>3 DEF InUseNow

LEMMA DisappearingKeeps ==
  ASSUME Shape, Complete, Kept, Solid, NEW a \in Addrs, Disappears(a)
  PROVE  Solid'
<1>1. /\ own[a] = "raw" /\ Doomed = {} /\ inst' = inst /\ borrowed' = borrowed /\ inflight' = inflight
      /\ Doomed' = Doomed /\ Keeps' = Keeps /\ shares' = shares
  BY DEF Disappears
<1>2. /\ \A b \in Addrs : mem'[b] = IF b = a THEN "free" ELSE mem[b]
      /\ \A b \in Addrs : obj'[b] = IF b = a THEN "none" ELSE obj[b]
      /\ \A b \in Addrs : own'[b] = IF b = a THEN "none" ELSE own[b]
  BY DEF Disappears, Destroyed, Shape
<1>3. shares[a] = 0 /\ mem[a] = "cpp"
  BY <1>1 DEF Solid, Memory, Sole, SoleAt
<1>4. \A j \in Insts : inst[j].ptr = a => ~InUseNow(j) /\ ~Has(j)
  <2>1. \A j \in Insts : inst[j].ptr = a => ~InUseNow(j)
    BY UnusedAt DEF Disappears
  <2>2. \A j \in Insts : inst[j].ptr = a => ~Has(j)
    BY <1>1 DEF Solid, Sole, SoleAt
  <2> QED BY <2>1, <2>2
<1>5. Memory'
  BY <1>1, <1>2, <1>3 DEF Solid, Memory
<1>6. Fields'
  <2> SUFFICES ASSUME NEW j \in Insts PROVE FieldsOf(j)'
    BY DEF Fields
  <2>1. inst[j].ptr \in Addrs \/ inst[j] = NoInst
    BY DEF Shape, Record, Complete
  <2>2. FieldsOf(j)
    BY DEF Solid, Fields
  <2> QED BY <1>1, <1>2, <1>3, <1>4, <2>1, <2>2 DEF FieldsOf, NoInst, Has, Kept
<1>7. OneInternal'
  BY <1>1 DEF Solid, OneInternal
<1>8. \A j \in Insts : Has(j)' <=> Has(j)
  BY <1>1 DEF Has
<1>9. Sole'
  <2> SUFFICES ASSUME NEW b \in Addrs PROVE SoleAt(b)'
    BY DEF Sole
  <2>1. SoleAt(b)
    BY DEF Solid, Sole
  <2>2. CASE b = a
    BY <1>1, <1>2, <1>3, <1>4, <1>8, <2>2 DEF SoleAt
  <2>3. CASE b # a
    BY <1>1, <1>2, <1>8, <2>1, <2>3 DEF SoleAt
  <2> QED BY <2>2, <2>3
<1>10. Alive'
  <2> SUFFICES ASSUME NEW j \in Insts, InUseNow(j)' PROVE AliveOf(j)'
    BY DEF Alive
  <2>1. AliveOf(j) /\ inst[j].ptr # a
    BY <1>1, <1>4 DEF Solid, Alive, InUseNow
  <2>2. inst[j].ptr \in Addrs
    BY <2>1 DEF AliveOf, Shape, Record
  <2>3. PICK k \in Insts : (k = j \/ (inst[j].type = "Part" /\ <<j, k>> \in Keeps)) /\ inst[k].ptr = inst[j].ptr /\ Holds(k)
    BY <2>1 DEF AliveOf, Rooted
  <2>4. Holds(k)'
    BY <1>1, <1>2, <2>1, <2>2, <2>3 DEF Holds
  <2>5. Rooted(j)'
    BY <1>1, <2>3, <2>4 DEF Rooted
  <2> QED BY <1>1, <1>2, <2>1, <2>2, <2>5 DEF AliveOf, Fits
<1> QED BY <1>5, <1>6, <1>7, <1>9, <1>10 DEF Solid

\* An instance that is in use is marked as taken or as free for use: what has the object
\* stays the same.
Marks(i) ==
  /\ i \notin Doomed /\ InUseNow(i) /\ Doomed' = Doomed /\ Keeps' = Keeps
  /\ UNCHANGED <<mem, obj, own, shares>>
  /\ \A j \in Insts : j # i => inst'[j] = inst[j] /\ borrowed'[j] = borrowed[j] /\ inflight'[j] = inflight[j]
  /\ inst'[i].type = inst[i].type /\ inst'[i].ptr = inst[i].ptr /\ inst'[i].internal = inst[i].internal
  /\ inst'[i].destruct \/ inflight'[i] = "default" <=> inst[i].destruct \/ inflight[i] = "default"
  /\ FieldsOf(i)'

LEMMA MarkingKeeps ==
  ASSUME Shape, Complete, Kept, Solid, NEW i \in Insts, Marks(i)
  PROVE  Solid'
<1>1. /\ i \notin Doomed /\ InUseNow(i) /\ Doomed' = Doomed /\ Keeps' = Keeps
      /\ mem' = mem /\ obj' = obj /\ own' = own /\ shares' = shares
      /\ \A j \in Insts : j # i => inst'[j] = inst[j] /\ borrowed'[j] = borrowed[j] /\ inflight'[j] = inflight[j]
      /\ \A j \in Insts : inst'[j].type = inst[j].type /\ inst'[j].ptr = inst[j].ptr
                          /\ inst'[j].internal = inst[j].internal
      /\ inst'[i].destruct \/ inflight'[i] = "default" <=> inst[i].destruct \/ inflight[i] = "default"
  BY DEF Marks
<1>2. Memory'
  BY <1>1 DEF Solid, Memory
<1>3. Fields'
  <2> SUFFICES ASSUME NEW j \in Insts PROVE FieldsOf(j)'
    BY DEF Fields
  <2>1. CASE j = i
    BY <2>1 DEF Marks
  <2>2. CASE j # i
    BY <1>1, <2>2 DEF Solid, Fields, FieldsOf
  <2> QED BY <2>1, <2>2
<1>4. OneInternal'
  BY <1>1 DEF Solid, OneInternal
<1>5. \A j \in Insts : (Has(j)' <=> Has(j)) /\ (Holds(j)' <=> Holds(j))
  <2> SUFFICES ASSUME NEW j \in Insts PROVE (Has(j)' <=> Has(j)) /\ (Holds(j)' <=> Holds(j))
    OBVIOUS
  <2>1. inst'[j].destruct \/ inflight'[j] = "default" <=> inst[j].destruct \/ inflight[j] = "default"
    BY <1>1
  <2> QED BY <1>1, <2>1 DEF Has, Holds
<1>6. Sole'
  BY <1>1, <1>5 DEF Solid, Sole, SoleAt
<1>7. Alive'
  <2> SUFFICES ASSUME NEW j \in Insts, InUseNow(j)' PROVE AliveOf(j)'
    BY DEF Alive
  <2>1. InUseNow(j)
    BY <1>1 DEF InUseNow
  <2>2. AliveOf(j)
    BY <2>1 DEF Solid, Alive
  <2>3. Rooted(j)'
    BY <1>1, <1>5, <2>2 DEF AliveOf, Rooted
  <2> QED BY <1>1, <2>2, <2>3 DEF AliveOf, Fits
<1> QED BY <1>2, <1>3, <1>4, <1>6, <1>7 DEF Solid

\* C++ becomes the owner of the object of an instance.
Passes(i) ==
  /\ inflight[i] = "default" /\ i \notin Doomed /\ inst[i].ptr \in Addrs
  /\ inflight' = [inflight EXCEPT ![i] = "no"] /\ own' = [own EXCEPT ![inst[i].ptr] = "raw"]
  /\ Doomed' = Doomed /\ Keeps' = Keeps /\ UNCHANGED <<inst, borrowed, mem, obj, shares>>

LEMMA PassingKeeps ==
  ASSUME Shape, Complete, Kept, Solid, NEW i \in Insts, Passes(i)
  PROVE  Solid'
<1> DEFINE a == inst[i].ptr
<1>1. /\ inflight[i] = "default" /\ i \notin Doomed /\ a \in Addrs
      /\ Doomed' = Doomed /\ Keeps' = Keeps /\ inst' = inst /\ borrowed' = borrowed
      /\ mem' = mem /\ obj' = obj /\ shares' = shares
  BY DEF Passes
<1>2. /\ \A b \in Addrs : own'[b] = IF b = a THEN "raw" ELSE own[b]
      /\ inflight'[i] = "no" /\ \A j \in Insts : j # i => inflight'[j] = inflight[j]
  BY <1>1 DEF Passes, Shape
<1>3. Has(i) /\ ~inst[i].destruct /\ mem[a] = "cpp"
  BY <1>1 DEF Has, Solid, Fields, FieldsOf
<1>4. obj[a] # "none" /\ shares[a] = 0 /\ \A j \in Insts : inst[j].ptr = a /\ Has(j) => j = i
  BY <1>1, <1>3 DEF Solid, Sole, SoleAt
<1>5. Memory'
  BY <1>1, <1>2, <1>3, <1>4 DEF Solid, Memory
<1>6. Fields'
  <2>1. \A j \in Insts : inflight'[j] = "no" \/ inflight'[j] = inflight[j]
    BY <1>2
  <2> QED BY <1>1, <2>1 DEF Solid, Fields, FieldsOf
<1>7. OneInternal'
  BY <1>1 DEF Solid, OneInternal
<1>8. \A j \in Insts : Has(j)' <=> Has(j) /\ j # i
  BY <1>1, <1>2, <1>3 DEF Has
<1>9. Sole'
  <2> SUFFICES ASSUME NEW b \in Addrs PROVE SoleAt(b)'
    BY DEF Sole
  <2>1. SoleAt(b)
    BY DEF Solid, Sole
  <2>2. CASE b = a
    BY <1>1, <1>2, <1>4, <1>8, <2>2 DEF SoleAt
  <2>3. CASE b # a
    BY <1>1, <1>2, <1>8, <2>1, <2>3 DEF SoleAt
  <2> QED BY <2>2, <2>3
<1>10. Alive'
  <2> SUFFICES ASSUME NEW j \in Insts, InUseNow(j)' PROVE AliveOf(j)'
    BY DEF Alive
  <2>1. InUseNow(j)
    BY <1>1, <1>2 DEF InUseNow
  <2>2. AliveOf(j)
    BY <2>1 DEF Solid, Alive
  <2>3. inst[j].ptr \in Addrs
    BY <2>2 DEF AliveOf, Shape, Record
  <2>4. PICK k \in Insts : (k = j \/ (inst[j].type = "Part" /\ <<j, k>> \in Keeps)) /\ inst[k].ptr = inst[j].ptr /\ Holds(k)
    BY <2>2 DEF AliveOf, Rooted
  <2>5. Holds(k)'
    BY <1>1, <1>2, <2>3, <2>4 DEF Holds
  <2>6. Rooted(j)'
    BY <1>1, <2>4, <2>5 DEF Rooted
  <2> QED BY <1>1, <2>2, <2>6 DEF AliveOf, Fits
<1> QED BY <1>5, <1>6, <1>7, <1>9, <1>10 DEF Solid

\* An instance that C++ had taken becomes the owner again.
TakesBack(i) ==
  /\ inst[i].ptr \in Addrs /\ own[inst[i].ptr] = "raw" /\ UsedAt(inst[i].ptr) = {} /\ Doomed = {}
  /\ inst[i].state = "relinquished" /\ inst[i].type = obj[inst[i].ptr]
  /\ inst' = [inst EXCEPT ![i].state = "ready", ![i].destruct = TRUE, ![i].cpp_delete = TRUE]
  /\ own' = [own EXCEPT ![inst[i].ptr] = "none"]
  /\ Doomed' = Doomed /\ Keeps' = Keeps /\ UNCHANGED <<borrowed, inflight, mem, obj, shares>>

LEMMA ReturningKeeps ==
  ASSUME Shape, Complete, Kept, Solid, NEW i \in Insts, TakesBack(i)
  PROVE  Solid'
<1> DEFINE a == inst[i].ptr
<1>1. /\ a \in Addrs /\ own[a] = "raw" /\ Doomed = {} /\ Doomed' = Doomed /\ Keeps' = Keeps
      /\ borrowed' = borrowed /\ inflight' = inflight /\ mem' = mem /\ obj' = obj /\ shares' = shares
      /\ inst[i].type = obj[a]
  BY DEF TakesBack
<1>2. /\ \A b \in Addrs : own'[b] = IF b = a THEN "none" ELSE own[b]
      /\ inst'[i].state = "ready" /\ inst'[i].destruct /\ inst'[i].cpp_delete
      /\ inst'[i].type = inst[i].type /\ inst'[i].ptr = a /\ inst'[i].internal = inst[i].internal
      /\ \A j \in Insts : j # i => inst'[j] = inst[j]
  BY <1>1 DEF TakesBack, Shape, Record
<1>3. mem[a] = "cpp" /\ obj[a] # "none" /\ shares[a] = 0
  BY <1>1 DEF Solid, Memory, Sole, SoleAt
<1>4. \A j \in Insts : inst[j].ptr = a => ~InUseNow(j) /\ inflight[j] = "no" /\ borrowed[j] = {} /\ ~Has(j)
  <2>1. \A j \in Insts : inst[j].ptr = a => ~InUseNow(j) /\ inflight[j] = "no" /\ borrowed[j] = {}
    BY <1>1, UnusedAt DEF TakesBack
  <2>2. \A j \in Insts : inst[j].ptr = a => ~Has(j)
    BY <1>1 DEF Solid, Sole, SoleAt
  <2> QED BY <2>1, <2>2
<1>5. Memory'
  BY <1>1, <1>2, <1>3 DEF Solid, Memory
<1>6. Fields'
  <2> SUFFICES ASSUME NEW j \in Insts PROVE FieldsOf(j)'
    BY DEF Fields
  <2>1. CASE j = i
    <3>1. ~inst[i].internal
      BY <1>3 DEF Solid, Fields, FieldsOf
    <3> QED BY <1>1, <1>2, <1>3, <1>4, <2>1, <3>1 DEF FieldsOf
  <2>2. CASE j # i
    BY <1>1, <1>2, <2>2 DEF Solid, Fields, FieldsOf
  <2> QED BY <2>1, <2>2
<1>7. OneInternal'
  BY <1>2 DEF Solid, OneInternal
<1>8. /\ \A j \in Insts : j # i => (Has(j)' <=> Has(j))
      /\ Has(i)'
  BY <1>1, <1>2 DEF Has
<1>9. Sole'
  <2> SUFFICES ASSUME NEW b \in Addrs PROVE SoleAt(b)'
    BY DEF Sole
  <2>1. SoleAt(b)
    BY DEF Solid, Sole
  <2>2. CASE b = a
    BY <1>1, <1>2, <1>3, <1>4, <1>8, <2>2 DEF SoleAt
  <2>3. CASE b # a
    BY <1>1, <1>2, <1>8, <2>1, <2>3 DEF SoleAt
  <2> QED BY <2>2, <2>3
<1>10. Alive'
  <2> SUFFICES ASSUME NEW j \in Insts, InUseNow(j)' PROVE AliveOf(j)'
    BY DEF Alive
  <2>1. CASE j = i
    <3>1. Fits(i)'
      BY <1>1, <1>2 DEF Fits, PyType_IsSubtype
    <3>2. Holds(i)'
      BY <1>2 DEF Holds
    <3>3. inst'[i].ptr # "none"
      BY <1>1, <1>2, PlacesAssumption
    <3> QED BY <2>1, <3>1, <3>2, <3>3 DEF AliveOf, Rooted
  <2>2. CASE j # i
    <3>1. AliveOf(j) /\ inst[j].ptr # a
      BY <1>1, <1>2, <1>4, <2>2 DEF Solid, Alive, InUseNow
    <3>2. PICK k \in Insts : (k = j \/ (inst[j].type = "Part" /\ <<j, k>> \in Keeps)) /\ inst[k].ptr = inst[j].ptr /\ Holds(k)
      BY <3>1 DEF AliveOf, Rooted
    <3>3. inst[j].ptr \in Addrs /\ k # i
      BY <3>1, <3>2 DEF AliveOf, Shape, Record
    <3>4. Holds(k)'
      BY <1>1, <1>2, <3>1, <3>2, <3>3 DEF Holds
    <3>5. Rooted(j)'
      BY <1>1, <1>2, <2>2, <3>2, <3>3, <3>4 DEF Rooted
    <3> QED BY <1>1, <1>2, <2>2, <3>1, <3>3, <3>5 DEF AliveOf, Fits
  <2> QED BY <2>1, <2>2
<1> QED BY <1>5, <1>6, <1>7, <1>9, <1>10 DEF Solid

-----------------------------------------------------------------------------
(* References *)

LEMMA CountsInNat ==
  ASSUME Shape
  PROVE  Counts \in [Items -> Nat] /\ \A p \in Keeps : Counts[p[2]] # 0
BY CountsAreNumbers DEF Shape, Counts, Keeps

LEMMA BorrowedNumbers ==
  ASSUME NEW B \in SUBSET {"deleter", "shared"}
  PROVE  /\ Cardinality(B) \in Nat /\ (Cardinality(B) = 0 => B = {}) /\ Cardinality({}) = 0
         /\ \A x : x \notin B => Cardinality(B \cup {x}) = Cardinality(B) + 1
         /\ \A x \in B : Cardinality(B \ {x}) = Cardinality(B) - 1
<1>1. IsFiniteSet({"deleter", "shared"})
  <2>1. IsFiniteSet({"shared"})
    BY FS_Singleton
  <2>2. IsFiniteSet({"shared"} \cup {"deleter"})
    BY <2>1, FS_AddElement
  <2>3. {"shared"} \cup {"deleter"} = {"deleter", "shared"}
    OBVIOUS
  <2> QED BY <2>2, <2>3
<1>2. IsFiniteSet(B)
  BY <1>1, FS_Subset
<1> QED BY <1>2, FS_CardinalityType, FS_EmptySet, FS_AddElement, FS_RemoveElement

LEMMA KeptNow ==
  ASSUME Shape, Numbers, Lives
  PROVE  Kept
<1>1. Counts \in [Items -> Nat] /\ \A p \in Keeps : Counts[p[2]] # 0
  BY CountsInNat
<1>2. \A x \in Insts \cup Addrs : x \in Items
  BY DEF Items
<1>3. ASSUME NEW i \in Insts, NEW a \in Addrs, <<i, a>> \in Keeps PROVE shares[a] > 0
  <2>1. Counts[a] \in Nat /\ Counts[a] # 0
    BY <1>1, <1>2, <1>3
  <2>2. shares[a] = Counts[a] \/ shares[a] = Counts[a] + 1
    <3>1. Counts[a] + 0 = Counts[a]
      BY <2>1
    <3> QED BY <3>1 DEF Numbers
  <2> QED BY <2>1, <2>2
<1>4. ASSUME NEW i \in Insts, NEW j \in Insts, <<i, j>> \in Keeps PROVE j \notin Doomed /\ inst[j] # NoInst
  <2>1. Counts[j] \in Nat /\ Counts[j] # 0
    BY <1>1, <1>2, <1>4
  <2>2. Cardinality(borrowed[j]) \in Nat /\ held[j] \in Nat
    BY BorrowedNumbers DEF Shape
  <2>3. refs[j] > 0
    BY <2>1, <2>2 DEF Numbers
  <2> QED BY <2>3 DEF Lives, Exists
<1>5. ASSUME NEW i \in Insts, inflight[i] # "no" PROVE i \notin Doomed /\ inst[i] # NoInst
  BY <1>5 DEF Lives, Exists, Doomed, DoomedIn
<1> QED BY <1>3, <1>4, <1>5 DEF Kept

\* What Py_DECREF does to the counts and to the deallocations.
LEMMA DecrefDoes ==
  ASSUME Shape, NEW i \in Insts, NEW outer \in Seq(Frame), DoomedIn(outer) = Doomed, Apart(outer),
         i \notin Doomed, refs[i] # 0, Py_DECREF(i, outer)
  PROVE  /\ keep' \in Keepings /\ frames' \in Seq(Frame) /\ Apart(frames') /\ Counts' = CountsIn(keep, outer)
         /\ refs' = [refs EXCEPT ![i] = @ - 1] /\ refs' \in [Insts -> Nat]
         /\ refs[i] = 1 => /\ Doomed' = Doomed \cup {i} /\ Keeps' = {p \in Keeps : p[1] # i}
                           /\ keep' = [keep EXCEPT ![i] = <<>>]
                           /\ Destroyed(inst[i].ptr, inst[i].destruct, inst[i].cpp_delete)
         /\ refs[i] # 1 => Doomed' = Doomed /\ UNCHANGED <<keep, obj, mem>> /\ Keeps' = Keeps
<1>1. refs' = [refs EXCEPT ![i] = @ - 1] /\ refs' \in [Insts -> Nat]
  BY DEF Py_DECREF, Shape
<1>2. keep \in Keepings
  BY DEF Shape
<1>3. CASE refs[i] = 1
  <2>1. /\ keep' = [keep EXCEPT ![i] = <<>>] /\ frames' = Append(outer, [self |-> i, todo |-> keep[i]])
        /\ Destroyed(inst[i].ptr, inst[i].destruct, inst[i].cpp_delete)
    BY <1>3 DEF Py_DECREF, Dealloc
  <2>2. /\ keep' \in Keepings /\ frames' \in Seq(Frame)
        /\ CountsIn(keep', frames') = CountsIn(keep, outer)
        /\ DoomedIn(frames') = DoomedIn(outer) \cup {i}
        /\ KeepsIn(keep') = {p \in KeepsIn(keep) : p[1] # i}
        /\ Apart(frames')
    BY <1>2, <2>1, DeallocCounts
  <2>3. Counts' = CountsIn(keep, outer) /\ Doomed' = Doomed \cup {i} /\ Keeps' = {p \in Keeps : p[1] # i}
    BY <2>2 DEF Counts, Doomed, Keeps
  <2> QED BY <1>1, <1>3, <2>1, <2>2, <2>3
<1>4. CASE refs[i] # 1
  <2>1. frames' = outer /\ UNCHANGED <<keep, obj, mem>>
    BY <1>4 DEF Py_DECREF
  <2>2. Counts' = CountsIn(keep, outer) /\ Doomed' = DoomedIn(outer) /\ Keeps' = Keeps
    BY <2>1 DEF Counts, Doomed, Keeps
  <2> QED BY <1>1, <1>2, <1>4, <2>1, <2>2
<1> QED BY <1>3, <1>4

\* A reference goes, and the instance with the last one.
LEMMA DecrefKeeps ==
  ASSUME Shape, Complete, Numbers, Lives, Solid,
         NEW i \in Insts, NEW outer \in Seq(Frame), DoomedIn(outer) = Doomed, Apart(outer),
         refs[i] # 0, Py_DECREF(i, outer), \A j \in Insts : inflight[j] = "no",
         Counts' = CountsIn(keep, outer) => Numbers', Shape',
         UNCHANGED <<inst, inflight, own, shares>>, \A j \in Insts : borrowed'[j] \subseteq borrowed[j]
  PROVE  Numbers' /\ Lives' /\ Solid'
<1>1. i \notin Doomed
  BY DEF Lives
<1>2. /\ Counts' = CountsIn(keep, outer) /\ Apart(frames') /\ refs' = [refs EXCEPT ![i] = @ - 1]
      /\ refs[i] = 1 => /\ Doomed' = Doomed \cup {i} /\ Keeps' = {p \in Keeps : p[1] # i}
                        /\ keep' = [keep EXCEPT ![i] = <<>>]
                        /\ Destroyed(inst[i].ptr, inst[i].destruct, inst[i].cpp_delete)
      /\ refs[i] # 1 => Doomed' = Doomed /\ UNCHANGED <<keep, obj, mem>> /\ Keeps' = Keeps
  BY <1>1, DecrefDoes
<1>3. Numbers'
  BY <1>2
<1>4. /\ refs[i] \in Nat /\ refs'[i] = refs[i] - 1 /\ \A j \in Insts : j # i => refs'[j] = refs[j]
      /\ \A j \in Insts : j # i \/ refs[i] # 1 => keep'[j] = keep[j]
      /\ refs[i] = 1 => keep'[i] = <<>>
  BY <1>2 DEF Shape, Keepings
<1>5. Lives'
  <2>1. ASSUME NEW j \in Insts
        PROVE /\ (inst[j] # NoInst <=> refs'[j] > 0 \/ j \in Doomed')
              /\ j \in Doomed' => refs'[j] = 0
              /\ refs'[j] = 0 => keep'[j] = <<>>
    <3>1. CASE j # i
      BY <1>2, <1>4, <3>1 DEF Lives, Exists
    <3>2. CASE j = i
      BY <1>1, <1>2, <1>4, <3>2 DEF Lives, Exists
    <3> QED BY <3>1, <3>2
  <2> QED BY <1>2, <2>1 DEF Lives, Exists
<1>6. Solid'
  <2>1. CASE refs[i] # 1
    <3>1. UNCHANGED <<inst, inflight, mem, obj, own, shares>> /\ Doomed' = Doomed /\ Keeps \subseteq Keeps'
      BY <1>2, <2>1
    <3> QED BY <3>1, Quiet
  <2>2. CASE refs[i] = 1
    <3>1. Counts' \in [Items -> Nat] /\ \A p \in Keeps' : Counts'[p[2]] # 0
      BY CountsAreNumbers DEF Shape, Counts, Keeps
    <3>2. /\ Cardinality(borrowed'[i]) \in Nat /\ held'[i] \in Nat /\ Counts'[i] \in Nat
          /\ Cardinality(borrowed'[i]) = 0 => borrowed'[i] = {}
      BY <3>1, BorrowedNumbers DEF Shape, Items
    <3>3. borrowed'[i] = {} /\ Counts'[i] = 0
      <4>1. refs'[i] = held'[i] + Cardinality(borrowed'[i]) + Counts'[i]
        BY <1>3 DEF Numbers
      <4>2. refs'[i] = 0
        BY <1>4, <2>2
      <4>3. PICK x \in Nat, y \in Nat, z \in Nat : x = held'[i] /\ y = Cardinality(borrowed'[i]) /\ z = Counts'[i]
        BY <3>2
      <4>4. x + y + z = 0
        BY <4>1, <4>2, <4>3
      <4>5. y = 0 /\ z = 0
        BY <4>4
      <4> QED BY <3>2, <4>3, <4>5
    <3>4. \A p \in Keeps : p[2] # i
      <4>1. \A p \in KeepsIn(keep) : CountsIn(keep, outer)[p[2]] # 0
        BY CountsAreNumbers DEF Shape
      <4> QED BY <1>2, <3>3, <4>1 DEF Keeps
    <3>5. inst[i].ptr \in Addrs
      BY <2>2 DEF Lives, Exists, Complete, Shape, Record
    <3>6. Dies(i)
      BY <1>1, <1>2, <2>2, <3>3, <3>4, <3>5 DEF Dies
    <3> QED BY <3>6, KeptNow, DyingKeeps
  <2> QED BY <2>1, <2>2
<1> QED BY <1>3, <1>5, <1>6

-----------------------------------------------------------------------------
(* The table *)

\* The place of the first element that passes a test.
LEMMA KnownIs ==
  ASSUME Shape, NEW a \in Addrs, NEW S, NEW D
  PROVE  /\ Known(a, S, D) = 0 => \A k \in DOMAIN inst_c2p[a] : ~Matches(inst_c2p[a][k], S, D)
         /\ Known(a, S, D) # 0 =>
              /\ Known(a, S, D) \in DOMAIN inst_c2p[a] /\ inst_c2p[a][Known(a, S, D)] \in Insts
              /\ Matches(inst_c2p[a][Known(a, S, D)], S, D)
              /\ \A k \in DOMAIN inst_c2p[a] : k < Known(a, S, D) => ~Matches(inst_c2p[a][k], S, D)
<1>1. PICK s \in Seq(Insts) : s = inst_c2p[a]
  BY DEF Shape
<1>2. Len(s) \in Nat /\ DOMAIN s = 1..Len(s)
  OBVIOUS
<1> DEFINE P == {k \in 1..Len(s) : Matches(s[k], S, D)}
<1>3. Known(a, S, D) = IF P # {} THEN Min(P) ELSE 0
  BY <1>1 DEF Known, SelectInSeq
<1>4. CASE P = {}
  BY <1>1, <1>2, <1>3, <1>4
<1>5. CASE P # {}
  <2>1. PICK x \in P : \A y \in P : x <= y
    <3>1. P \in SUBSET Nat
      BY <1>2
    <3> HIDE DEF P
    <3> QED BY <1>5, <3>1, LeastNumber
  <2>2. PICK m \in P : m = Min(P) /\ \A y \in P : m <= y
    <3> HIDE DEF P
    <3> QED BY <2>1 DEF Min
  <2>3. m = Known(a, S, D) /\ m \in 1..Len(s) /\ m # 0 /\ Matches(s[m], S, D) /\ s[m] \in Insts
    BY <1>2, <1>3, <1>5, <2>2, ElementOfSeq
  <2>4. ASSUME NEW k \in DOMAIN s, k < m PROVE ~Matches(s[k], S, D)
    BY <1>2, <2>2, <2>4
  <2> QED BY <1>1, <1>2, <2>3, <2>4
<1> QED BY <1>4, <1>5

\* A list without one of its elements.
LEMMA ListWithout ==
  ASSUME NEW s \in Seq(Insts), NEW x \in Insts, \E k \in DOMAIN s : s[k] = x,
         \A k, l \in DOMAIN s : s[k] = s[l] => k = l
  PROVE  /\ RemoveFirst(s, x) \in Seq(Insts)
         /\ \A j \in Insts : (\E k \in DOMAIN RemoveFirst(s, x) : RemoveFirst(s, x)[k] = j)
                               <=> (\E k \in DOMAIN s : s[k] = j) /\ j # x
         /\ \A k, l \in DOMAIN RemoveFirst(s, x) : k < l =>
              \E m, n \in DOMAIN s : m < n /\ s[m] = RemoveFirst(s, x)[k] /\ s[n] = RemoveFirst(s, x)[l]
<1>1. Len(s) \in Nat /\ DOMAIN s = 1..Len(s)
  OBVIOUS
<1> DEFINE P == {k \in 1..Len(s) : s[k] = x}
<1>2. PICK p \in 1..Len(s) : s[p] = x /\ RemoveFirst(s, x) = RemoveAt(s, p)
  <2>1. RemoveFirst(s, x) = RemoveAt(s, IF P # {} THEN Min(P) ELSE 0) /\ P # {}
    BY <1>1 DEF RemoveFirst, SelectInSeq
  <2>2. PICK y \in P : \A z \in P : y <= z
    <3>1. P \in SUBSET Nat
      BY <1>1
    <3> HIDE DEF P
    <3> QED BY <2>1, <3>1, LeastNumber
  <2>3. PICK m \in P : m = Min(P)
    <3> HIDE DEF P
    <3> QED BY <2>2 DEF Min
  <2> QED BY <2>1, <2>3
<1>3. PICK b \in Nat, n \in Nat : n = Len(s) /\ b = p - 1 /\ p <= n
  <2>1. Len(s) \in Nat /\ p - 1 \in Nat /\ p <= Len(s)
    BY <1>1
  <2> QED BY <2>1
<1>4. PICK f \in Seq(Insts) : f = SubSeq(s, 1, p - 1) /\ Len(f) = b /\ \A k \in 1..b : f[k] = s[k]
  <2>1. \A k \in 1..b : s[k] \in Insts
    BY <1>1, <1>3, ElementOfSeq
  <2>2. PICK f : f = SubSeq(s, 1, b)
    OBVIOUS
  <2>3. f \in Seq(Insts) /\ Len(f) = (IF 1 <= b THEN b - 1 + 1 ELSE 0) /\ \A k \in 1..(b - 1 + 1) : f[k] = s[1 + k - 1]
    BY <2>1, <2>2, SubSeqProperties
  <2>4. Len(f) = b
    BY <2>3
  <2>5. ASSUME NEW k \in 1..b PROVE f[k] = s[k]
    <3>1. k \in 1..(b - 1 + 1) /\ 1 + k - 1 = k
      OBVIOUS
    <3> QED BY <2>3, <3>1
  <2> QED BY <1>3, <2>2, <2>3, <2>4, <2>5
<1>5. PICK g \in Seq(Insts) : g = SubSeq(s, p + 1, Len(s)) /\ Len(g) = n - p /\ \A k \in 1..(n - p) : g[k] = s[p + k]
  <2>1. \A k \in (p + 1)..n : s[k] \in Insts
    BY <1>1, <1>3, ElementOfSeq
  <2>2. PICK q \in Nat : q = p + 1
    BY <1>1
  <2>6. PICK g : g = SubSeq(s, q, n)
    OBVIOUS
  <2>3. g \in Seq(Insts) /\ Len(g) = (IF q <= n THEN n - q + 1 ELSE 0) /\ \A k \in 1..(n - q + 1) : g[k] = s[q + k - 1]
    BY <2>1, <2>2, <2>6, SubSeqProperties
  <2>4. Len(g) = n - p
    BY <1>3, <2>2, <2>3
  <2>5. ASSUME NEW k \in 1..(n - p) PROVE g[k] = s[p + k]
    <3>1. k \in 1..(n - q + 1) /\ q + k - 1 = p + k
      BY <1>3, <2>2
    <3> QED BY <2>3, <3>1
  <2> QED BY <1>3, <2>2, <2>3, <2>4, <2>5, <2>6
<1>6. PICK u \in Seq(Insts) : /\ u = RemoveFirst(s, x) /\ Len(u) = n - 1
                              /\ \A k \in 1..(n - 1) : u[k] = IF k < p THEN s[k] ELSE s[k + 1]
  <2>1. RemoveFirst(s, x) = f \o g
    BY <1>2, <1>4, <1>5 DEF RemoveAt
  <2>2. PICK u : u = f \o g
    OBVIOUS
  <2>3. /\ u \in Seq(Insts) /\ Len(u) = Len(f) + Len(g)
        /\ \A k \in 1..(Len(f) + Len(g)) : u[k] = IF k <= Len(f) THEN f[k] ELSE g[k - Len(f)]
    BY <2>2, ConcatProperties
  <2>4. Len(u) = n - 1
    <3>1. Len(u) = Len(f) + Len(g)
      BY <2>3
    <3>2. Len(f) = p - 1 /\ Len(g) = n - p
      BY <1>3, <1>4, <1>5
    <3>3. p \in Nat /\ n \in Nat
      BY <1>1, <1>3
    <3> QED BY <3>1, <3>2, <3>3
  <2>5. ASSUME NEW k \in 1..(n - 1) PROVE u[k] = IF k < p THEN s[k] ELSE s[k + 1]
    <3>1. (k <= b => u[k] = f[k]) /\ (~(k <= b) => u[k] = g[k - b])
      <4>1. k \in 1..(Len(f) + Len(g))
        <5>1. p \in Nat /\ Len(f) + Len(g) = n - 1
          <6>1. p \in Nat
            BY <1>1
          <6>2. Len(f) = p - 1 /\ Len(g) = n - p
            BY <1>3, <1>4, <1>5
          <6> QED BY <6>1, <6>2
        <5> QED BY <5>1
      <4>2. u[k] = IF k <= Len(f) THEN f[k] ELSE g[k - Len(f)]
        BY <2>3, <4>1
      <4> QED BY <1>4, <4>2
    <3>2. CASE k < p
      <4>1. k \in 1..b /\ k <= b
        BY <1>3, <3>2
      <4> QED BY <1>4, <3>1, <3>2, <4>1
    <3>3. CASE ~(k < p)
      <4>1. k - b \in 1..(n - p) /\ ~(k <= b) /\ p + (k - b) = k + 1
        BY <1>3, <3>3
      <4> QED BY <1>5, <3>1, <3>3, <4>1
    <3> QED BY <3>2, <3>3
  <2> QED BY <2>1, <2>2, <2>3, <2>4, <2>5
<1> DEFINE at(k) == IF k < p THEN k ELSE k + 1
<1>7. DOMAIN u = 1..(n - 1) /\ DOMAIN s = 1..n /\ n \in Nat /\ p \in 1..n
  BY <1>1, <1>3, <1>6
<1>8. \A k \in DOMAIN u : at(k) \in DOMAIN s /\ at(k) # p /\ u[k] = s[at(k)]
  BY <1>6, <1>7
<1>9. \A k, l \in DOMAIN u : k < l => at(k) < at(l)
  BY <1>7
<1>10. \A m \in DOMAIN s : m # p => \E k \in DOMAIN u : u[k] = s[m]
  <2> SUFFICES ASSUME NEW m \in DOMAIN s, m # p PROVE \E k \in DOMAIN u : u[k] = s[m]
    OBVIOUS
  <2>1. CASE m < p
    <3>1. m \in DOMAIN u
      BY <1>7, <2>1
    <3> QED BY <1>6, <1>7, <2>1, <3>1
  <2>2. CASE m > p
    <3>1. m - 1 \in DOMAIN u /\ ~(m - 1 < p) /\ m - 1 + 1 = m
      BY <1>7, <2>2
    <3> QED BY <1>6, <1>7, <3>1
  <2> QED BY <1>7, <2>1, <2>2
<1> HIDE DEF at
<1>11. ASSUME NEW j \in Insts PROVE (\E k \in DOMAIN u : u[k] = j) <=> (\E k \in DOMAIN s : s[k] = j) /\ j # x
  <2>1. ASSUME NEW k \in DOMAIN u, u[k] = j PROVE (\E m \in DOMAIN s : s[m] = j) /\ j # x
    <3>1. at(k) \in DOMAIN s /\ at(k) # p /\ j = s[at(k)]
      BY <1>8, <2>1
    <3>2. j # x
      BY <1>2, <1>7, <3>1
    <3> QED BY <3>1, <3>2
  <2>2. ASSUME NEW m \in DOMAIN s, s[m] = j, j # x PROVE \E k \in DOMAIN u : u[k] = j
    <3>1. m # p
      BY <1>2, <2>2
    <3> QED BY <1>10, <2>2, <3>1
  <2> QED BY <2>1, <2>2
<1>12. ASSUME NEW k \in DOMAIN u, NEW l \in DOMAIN u, k < l
       PROVE  \E m, q \in DOMAIN s : m < q /\ s[m] = u[k] /\ s[q] = u[l]
  BY <1>8, <1>9, <1>12
<1> QED BY <1>6, <1>11, <1>12

\* An instance is listed once.
LEMMA ListedOnce ==
  ASSUME Shape, Table, NEW a \in Addrs
  PROVE  \A k, l \in DOMAIN inst_c2p[a] : inst_c2p[a][k] = inst_c2p[a][l] => k = l
<1>1. PICK s \in Seq(Insts) : s = inst_c2p[a]
  BY DEF Shape
<1>2. Len(s) \in Nat /\ DOMAIN s = 1..Len(s)
  OBVIOUS
<1>3. \A k, l \in DOMAIN s : k < l => s[k] # s[l]
  BY <1>1 DEF Table, TableAt, PyType_IsSubtype
<1>4. \A k, l \in DOMAIN s : k < l \/ l < k \/ k = l
  BY <1>2
<1> QED BY <1>1, <1>3, <1>4

LEMMA TableStays ==
  ASSUME Shape, Table, UNCHANGED inst_c2p,
         \A i \in Insts : inst'[i].type = inst[i].type /\ inst'[i].ptr = inst[i].ptr
  PROVE  Table'
<1>1. \A a \in Addrs : \A k \in DOMAIN inst_c2p[a] : inst_c2p[a][k] \in Insts
  BY ElementOfSeq DEF Shape
<1>2. \A a \in Addrs : \A k, l \in DOMAIN inst_c2p'[a] :
        k < l => ~PyType_IsSubtype(inst'[inst_c2p'[a][k]].type, inst'[inst_c2p'[a][l]].type)
  BY <1>1 DEF Table, TableAt
<1> QED BY <1>2 DEF Table, TableAt

\* A new instance is found after the others.
LEMMA TableGrows ==
  ASSUME Shape, Table, NEW i \in Insts, NEW a \in Addrs, NEW r, r.ptr = a, inst[i] = NoInst,
         inst' = [inst EXCEPT ![i] = r], inst_c2p' = [inst_c2p EXCEPT ![a] = Append(@, i)],
         \A k \in DOMAIN inst_c2p[a] : ~PyType_IsSubtype(inst[inst_c2p[a][k]].type, r.type)
  PROVE  Table' /\ inst_c2p' \in [Addrs -> Seq(Insts)]
<1>1. PICK s \in Seq(Insts) : s = inst_c2p[a]
  BY DEF Shape
<1>2. PICK u \in Seq(Insts) : u = Append(s, i) /\ Len(u) = Len(s) + 1 /\ u[Len(s) + 1] = i /\ \A k \in 1..Len(s) : u[k] = s[k]
  <2>1. PICK u : u = Append(s, i)
    OBVIOUS
  <2>2. u \in Seq(Insts) /\ Len(u) = Len(s) + 1 /\ u[Len(s) + 1] = i /\ \A k \in 1..Len(s) : u[k] = s[k]
    BY <2>1, AppendProperties
  <2> QED BY <2>1, <2>2
<1>3. DOMAIN s = 1..Len(s) /\ DOMAIN u = 1..(Len(s) + 1) /\ Len(s) \in Nat
  BY <1>2
<1>4. /\ inst_c2p'[a] = u /\ \A b \in Addrs : b # a => inst_c2p'[b] = inst_c2p[b]
      /\ inst_c2p' \in [Addrs -> Seq(Insts)]
      /\ inst'[i] = r /\ \A j \in Insts : j # i => inst'[j] = inst[j]
  BY <1>1, <1>2 DEF Shape
<1>5. \A b \in Addrs : \A k \in DOMAIN inst_c2p[b] : inst_c2p[b][k] \in Insts /\ inst_c2p[b][k] # i
  <2>1. inst[i].ptr \notin Addrs
    BY PlacesAssumption DEF NoInst
  <2>2. \A b \in Addrs : \A k \in DOMAIN inst_c2p[b] : inst_c2p[b][k] \in Insts
    BY ElementOfSeq DEF Shape
  <2> QED BY <2>1, <2>2 DEF Table, TableAt
<1>6. ASSUME NEW b \in Addrs, b # a PROVE TableAt(b)'
  <2>1. \A j \in Insts : inst'[j].ptr = b <=> inst[j].ptr = b
    BY <1>4, <1>6, PlacesAssumption DEF NoInst
  <2>2. PICK t : t = inst_c2p[b]
    OBVIOUS
  <2>3. inst_c2p'[b] = t /\ \A k \in DOMAIN t : inst'[t[k]] = inst[t[k]]
    BY <1>4, <1>5, <1>6, <2>2
  <2>4. \A k, l \in DOMAIN t : k < l => ~PyType_IsSubtype(inst'[t[k]].type, inst'[t[l]].type)
    BY <2>2, <2>3 DEF Table, TableAt
  <2>5. \A j \in Insts : inst'[j].ptr = b <=> \E k \in DOMAIN t : t[k] = j
    BY <2>1, <2>2 DEF Table, TableAt
  <2> QED BY <2>3, <2>4, <2>5 DEF TableAt
<1>7. \A j \in Insts : inst'[j].ptr = a <=> \E k \in DOMAIN u : u[k] = j
  <2>1. ASSUME NEW j \in Insts PROVE (\E k \in DOMAIN u : u[k] = j) <=> (\E k \in DOMAIN s : s[k] = j) \/ j = i
    BY <1>2, <1>3
  <2>2. \A j \in Insts : inst[j].ptr = a <=> \E k \in DOMAIN s : s[k] = j
    BY <1>1 DEF Table, TableAt
  <2>3. \A j \in Insts : inst'[j].ptr = a <=> inst[j].ptr = a \/ j = i
    BY <1>4
  <2> QED BY <2>1, <2>2, <2>3
<1>8. ASSUME NEW k \in DOMAIN u, NEW l \in DOMAIN u, k < l PROVE ~PyType_IsSubtype(inst'[u[k]].type, inst'[u[l]].type)
  <2>1. k \in DOMAIN s /\ u[k] = s[k] /\ inst'[s[k]] = inst[s[k]]
    <3>1. k \in 1..Len(s)
      BY <1>3, <1>8
    <3> QED BY <1>1, <1>2, <1>3, <1>4, <1>5, <3>1
  <2>2. CASE l = Len(s) + 1
    <3>1. u[l] = i /\ inst'[i] = r
      BY <1>2, <1>4, <2>2
    <3> QED BY <1>1, <2>1, <3>1
  <2>3. CASE l # Len(s) + 1
    <3>1. l \in 1..Len(s)
      BY <1>3, <2>3
    <3>2. l \in DOMAIN s /\ u[l] = s[l] /\ inst'[s[l]] = inst[s[l]]
      BY <1>1, <1>2, <1>3, <1>4, <1>5, <3>1
    <3> QED BY <1>1, <1>8, <2>1, <3>2 DEF Table, TableAt
  <2> QED BY <2>2, <2>3
<1>9. Table'
  <2>1. TableAt(a)'
    <3>1. \A k, l \in DOMAIN u : k < l => ~PyType_IsSubtype(inst'[u[k]].type, inst'[u[l]].type)
      BY <1>8
    <3>2. inst_c2p'[a] = u
      BY <1>4
    <3> QED BY <1>7, <3>1, <3>2 DEF TableAt
  <2> QED BY <1>6, <2>1 DEF Table
<1> QED BY <1>4, <1>9

\* An instance leaves the list of its address.
LEMMA TableShrinks ==
  ASSUME Shape, Table, NEW i \in Insts, NEW a \in Addrs, inst[i].ptr = a, inst' = [inst EXCEPT ![i] = NoInst],
         inst_c2p' = [inst_c2p EXCEPT ![a] = Unlisted(@, i)]
  PROVE  Contains(inst_c2p[a], i) /\ Table' /\ inst_c2p' \in [Addrs -> Seq(Insts)]
<1>1. PICK s \in Seq(Insts) : s = inst_c2p[a]
  BY DEF Shape
<1>2. \E k \in DOMAIN s : s[k] = i
  BY <1>1 DEF Table, TableAt
<1>3. PICK u \in Seq(Insts) :
        /\ u = Unlisted(s, i)
        /\ \A j \in Insts : (\E k \in DOMAIN u : u[k] = j) <=> (\E k \in DOMAIN s : s[k] = j) /\ j # i
        /\ \A k, l \in DOMAIN u : k < l => \E m, n \in DOMAIN s : m < n /\ s[m] = u[k] /\ s[n] = u[l]
  <2>1. \A k, l \in DOMAIN s : s[k] = s[l] => k = l
    BY <1>1, ListedOnce
  <2>2. PICK u : u = RemoveFirst(s, i)
    OBVIOUS
  <2>3. /\ u \in Seq(Insts)
        /\ \A j \in Insts : (\E k \in DOMAIN u : u[k] = j) <=> (\E k \in DOMAIN s : s[k] = j) /\ j # i
        /\ \A k, l \in DOMAIN u : k < l => \E m, n \in DOMAIN s : m < n /\ s[m] = u[k] /\ s[n] = u[l]
    BY <1>2, <2>1, <2>2, ListWithout
  <2> QED BY <2>2, <2>3 DEF Unlisted
<1>4. /\ inst_c2p'[a] = u /\ \A b \in Addrs : b # a => inst_c2p'[b] = inst_c2p[b]
      /\ inst_c2p' \in [Addrs -> Seq(Insts)]
      /\ inst'[i] = NoInst /\ \A j \in Insts : j # i => inst'[j] = inst[j]
      /\ inst'[i].ptr \notin Addrs
  <2>1. NoInst.ptr \notin Addrs
    BY PlacesAssumption DEF NoInst
  <2> QED BY <1>1, <1>3, <2>1 DEF Shape
<1>5. \A b \in Addrs : \A k \in DOMAIN inst_c2p[b] : inst_c2p[b][k] \in Insts /\ (b # a => inst_c2p[b][k] # i)
  <2>1. \A b \in Addrs : \A k \in DOMAIN inst_c2p[b] : inst_c2p[b][k] \in Insts
    BY ElementOfSeq DEF Shape
  <2> QED BY <2>1 DEF Table, TableAt
<1>6. ASSUME NEW b \in Addrs, b # a PROVE TableAt(b)'
  <2>1. \A j \in Insts : inst'[j].ptr = b <=> inst[j].ptr = b
    BY <1>4, <1>6
  <2>2. PICK t : t = inst_c2p[b]
    OBVIOUS
  <2>3. inst_c2p'[b] = t /\ \A k \in DOMAIN t : inst'[t[k]] = inst[t[k]]
    BY <1>4, <1>5, <1>6, <2>2
  <2>4. \A k, l \in DOMAIN t : k < l => ~PyType_IsSubtype(inst'[t[k]].type, inst'[t[l]].type)
    BY <2>2, <2>3 DEF Table, TableAt
  <2>5. \A j \in Insts : inst'[j].ptr = b <=> \E k \in DOMAIN t : t[k] = j
    BY <2>1, <2>2 DEF Table, TableAt
  <2> QED BY <2>3, <2>4, <2>5 DEF TableAt
<1>7. \A j \in Insts : inst'[j].ptr = a <=> \E k \in DOMAIN u : u[k] = j
  <2>1. \A j \in Insts : inst[j].ptr = a <=> \E k \in DOMAIN s : s[k] = j
    BY <1>1 DEF Table, TableAt
  <2>2. \A j \in Insts : inst'[j].ptr = a <=> inst[j].ptr = a /\ j # i
    BY <1>4
  <2> QED BY <1>3, <2>1, <2>2
<1>8. ASSUME NEW k \in DOMAIN u, NEW l \in DOMAIN u, k < l PROVE ~PyType_IsSubtype(inst'[u[k]].type, inst'[u[l]].type)
  <2>1. PICK m \in DOMAIN s, n \in DOMAIN s : m < n /\ s[m] = u[k] /\ s[n] = u[l]
    BY <1>3, <1>8
  <2>2. u[k] \in Insts /\ u[l] \in Insts
    BY ElementOfSeq
  <2>3. u[k] # i /\ u[l] # i
    BY <1>3, <2>2
  <2>4. ~PyType_IsSubtype(inst[s[m]].type, inst[s[n]].type)
    BY <1>1, <2>1 DEF Table, TableAt
  <2> QED BY <1>4, <2>1, <2>2, <2>3, <2>4
<1>9. Table'
  <2>1. TableAt(a)'
    <3>1. \A k, l \in DOMAIN u : k < l => ~PyType_IsSubtype(inst'[u[k]].type, inst'[u[l]].type)
      BY <1>8
    <3>2. inst_c2p'[a] = u
      BY <1>4
    <3> QED BY <1>7, <3>1, <3>2 DEF TableAt
  <2> QED BY <1>6, <2>1 DEF Table
<1>10. Contains(s, i)
  BY <1>2 DEF Contains
<1> QED BY <1>1, <1>4, <1>9, <1>10

-----------------------------------------------------------------------------
(* What stays *)

LEMMA There ==
  ASSUME Shape, Complete
  PROVE  \A i \in Insts : /\ inst[i].ptr \in Addrs <=> inst[i] # NoInst
                          /\ inst[i] # NoInst => inst[i].type \in Types /\ inst[i].state # "none"
                          /\ inst[i].state # "none" => inst[i] # NoInst
BY PlacesAssumption DEF Shape, Complete, Record, NoInst

LEMMA NoneDoomed ==
  ASSUME frames = <<>>
  PROVE  Doomed = {} /\ Apart(frames) /\ <<>> \in Seq(Frame) /\ DoomedIn(<<>>) = {} /\ Apart(<<>>)
<1>1. <<>> \in Seq(Frame)
  BY EmptySeq
<1> QED BY <1>1 DEF Doomed, DoomedIn, Apart

LEMMA SameFrames ==
  ASSUME UNCHANGED <<keep, frames>>
  PROVE  Counts' = Counts /\ Doomed' = Doomed /\ Keeps' = Keeps
BY DEF Counts, Doomed, Keeps

LEMMA CompleteStays ==
  ASSUME Complete,
         \A i \in Insts : /\ inst'[i].type = inst[i].type /\ inst'[i].ptr = inst[i].ptr
                          /\ inst'[i] = inst[i] \/ (inst[i].ptr # "none" /\ inst'[i].state # "none")
  PROVE  Complete'
BY DEF Complete

LEMMA NumbersStay ==
  ASSUME Numbers, UNCHANGED <<refs, held, borrowed, keep, frames, shares>>,
         \A a \in Addrs : own'[a] = "shared" <=> own[a] = "shared"
  PROVE  Numbers'
BY SameFrames DEF Numbers

LEMMA LivesStay ==
  ASSUME Lives, UNCHANGED <<refs, keep, frames>>,
         \A i \in Insts : /\ inst'[i] = NoInst <=> inst[i] = NoInst
                          /\ inflight'[i] # "no" => inst[i] # NoInst /\ frames = <<>>
  PROVE  Lives'
BY SameFrames DEF Lives, Exists

\* The fields of an instance change.
LEMMA FieldsChange ==
  ASSUME Sound, NEW i \in Insts, inst[i] # NoInst, inst' \in [Insts -> Record],
         \A j \in Insts : j # i => inst'[j] = inst[j],
         inst'[i].type = inst[i].type, inst'[i].ptr = inst[i].ptr, inst'[i].state # "none",
         UNCHANGED inst_c2p
  PROVE  Complete' /\ Table' /\ \A j \in Insts : inst'[j] = NoInst <=> inst[j] = NoInst
<1>1. inst[i].ptr \in Addrs /\ inst[i].ptr # "none"
  BY There, PlacesAssumption DEF Sound
<1>2. Complete'
  BY <1>1, CompleteStays DEF Sound
<1>3. Table'
  BY TableStays DEF Sound
<1>4. inst'[i] # NoInst
  BY <1>1 DEF NoInst
<1> QED BY <1>2, <1>3, <1>4

-----------------------------------------------------------------------------
(* The steps *)

LEMMA InitInstKeeps ==
  ASSUME Sound, NEW i \in Insts, InitInst(i)
  PROVE  Sound'
<1>1. /\ frames = <<>> /\ inst[i].state = "uninitialized"
      /\ inst' = [inst EXCEPT ![i].state = "ready", ![i].destruct = TRUE]
      /\ obj' = [obj EXCEPT ![inst[i].ptr] = inst[i].type]
      /\ UNCHANGED <<refs, held, borrowed, inflight, inst_c2p, keep, mem, own, shares, frames>>
  BY DEF InitInst, Running, Converting
<1>2. inst[i] # NoInst /\ inst[i].ptr \in Addrs /\ inst[i].type \in Types
  BY <1>1, There DEF Sound
<1>3. /\ inst' \in [Insts -> Record] /\ inst'[i].type = inst[i].type /\ inst'[i].ptr = inst[i].ptr
      /\ inst'[i].state = "ready" /\ \A j \in Insts : j # i => inst'[j] = inst[j]
  <2>1. inst \in [Insts -> Record]
    BY DEF Sound, Shape
  <2>2. PICK r \in Record : r = [inst[i] EXCEPT !.state = "ready", !.destruct = TRUE]
    BY <2>1 DEF Record
  <2>3. inst' = [inst EXCEPT ![i] = r]
    BY <1>1, <2>1, <2>2 DEF Record
  <2>4. r.state = "ready" /\ r.type = inst[i].type /\ r.ptr = inst[i].ptr
    BY <2>1, <2>2 DEF Record
  <2> QED BY <2>1, <2>3, <2>4
<1>4. Shape'
  <2>1. obj' \in [Addrs -> Types \cup {"none"}]
    BY <1>1, <1>2 DEF Sound, Shape
  <2> QED BY <1>1, <1>3, <2>1 DEF Sound, Shape
<1>5. Complete' /\ Table' /\ \A j \in Insts : inst'[j] = NoInst <=> inst[j] = NoInst
  BY <1>1, <1>2, <1>3, FieldsChange
<1>6. Numbers'
  BY <1>1, NumbersStay DEF Sound
<1>7. Lives'
  BY <1>1, <1>5, LivesStay DEF Sound, Lives, Exists
<1>8. Solid'
  <2>1. Initializes(i)
    BY <1>1, <1>2, NoneDoomed, SameFrames DEF Initializes
  <2> QED BY <2>1, KeptNow, InitializingKeeps DEF Sound
<1> QED BY <1>4, <1>5, <1>6, <1>7, <1>8 DEF Sound

LEMMA RelinquishKeeps ==
  ASSUME Sound, NEW i \in Insts, NEW kind \in {"default", "deleter"}, Relinquish(i, kind)
  PROVE  Sound'
<1>1. /\ frames = <<>> /\ inst[i].state = "ready" /\ MayGive(i, kind)
      /\ inst' = [inst EXCEPT ![i].state = "relinquished",
                              ![i].destruct = kind # "default" /\ @,
                              ![i].cpp_delete = kind # "default" /\ @]
      /\ inflight' = [inflight EXCEPT ![i] = kind]
      /\ UNCHANGED <<refs, held, borrowed, inst_c2p, keep, mem, obj, own, shares, frames>>
  BY DEF Relinquish, Converting
<1>2. inst[i] # NoInst /\ inst[i].ptr \in Addrs /\ i \notin Doomed
  BY <1>1, There, NoneDoomed DEF Sound
<1>3. /\ inst' \in [Insts -> Record] /\ inst'[i].type = inst[i].type /\ inst'[i].ptr = inst[i].ptr
      /\ inst'[i].state = "relinquished" /\ inst'[i].internal = inst[i].internal
      /\ inst'[i].destruct = (kind # "default" /\ inst[i].destruct)
      /\ inst'[i].cpp_delete = (kind # "default" /\ inst[i].cpp_delete)
      /\ \A j \in Insts : j # i => inst'[j] = inst[j]
      /\ inflight' \in [Insts -> {"no", "default", "deleter"}]
      /\ inflight'[i] = kind /\ \A j \in Insts : j # i => inflight'[j] = inflight[j]
  <2>1. inst \in [Insts -> Record]
    BY DEF Sound, Shape
  <2>2. PICK r \in Record : r = [inst[i] EXCEPT !.state = "relinquished", !.destruct = (kind # "default" /\ inst[i].destruct),
                                              !.cpp_delete = (kind # "default" /\ inst[i].cpp_delete)]
    BY <2>1 DEF Record
  <2>3. inst' = [inst EXCEPT ![i] = r]
    BY <1>1, <2>1, <2>2 DEF Record
  <2>4. /\ r.state = "relinquished" /\ r.type = inst[i].type /\ r.ptr = inst[i].ptr /\ r.internal = inst[i].internal
        /\ r.destruct = (kind # "default" /\ inst[i].destruct) /\ r.cpp_delete = (kind # "default" /\ inst[i].cpp_delete)
    BY <2>1, <2>2 DEF Record
  <2>5. inst'[i] = r /\ inst' \in [Insts -> Record] /\ \A j \in Insts : j # i => inst'[j] = inst[j]
    BY <2>1, <2>3
  <2>6. /\ inflight' \in [Insts -> {"no", "default", "deleter"}]
        /\ inflight'[i] = kind /\ \A j \in Insts : j # i => inflight'[j] = inflight[j]
    BY <1>1 DEF Sound, Shape
  <2> QED BY <2>4, <2>5, <2>6
<1>4. Shape'
  BY <1>1, <1>3 DEF Sound, Shape
<1>5. Complete' /\ Table' /\ \A j \in Insts : inst'[j] = NoInst <=> inst[j] = NoInst
  BY <1>1, <1>2, <1>3, FieldsChange
<1>6. Numbers'
  BY <1>1, NumbersStay DEF Sound
<1>7. Lives'
  BY <1>1, <1>2, <1>3, <1>5, LivesStay DEF Sound, Lives, Exists
<1>8. Solid'
  <2>1. Doomed' = Doomed /\ Keeps' = Keeps
    BY <1>1, SameFrames
  <2>2. inflight[i] = "no" /\ FieldsOf(i)
    BY <1>1 DEF Sound, Solid, Fields, FieldsOf
  <2>3. FieldsOf(i)'
    BY <1>1, <1>2, <1>3, <2>1, <2>2 DEF FieldsOf, MayGive
  <2>4. inst'[i].destruct \/ inflight'[i] = "default" <=> inst[i].destruct \/ inflight[i] = "default"
    BY <1>1, <1>3, <2>2 DEF MayGive
  <2>5. Marks(i)
    BY <1>1, <1>2, <1>3, <2>1, <2>3, <2>4 DEF Marks, InUseNow
  <2> QED BY <2>5, KeptNow, MarkingKeeps DEF Sound
<1> QED BY <1>4, <1>5, <1>6, <1>7, <1>8 DEF Sound

LEMMA RestoreKeeps ==
  ASSUME Sound, NEW i \in Insts, Restore(i)
  PROVE  Sound'
<1>1. /\ frames = <<>> /\ inflight[i] # "no"
      /\ inst' = [inst EXCEPT ![i].state = "ready",
                              ![i].destruct = @ \/ RestoredFlags(i),
                              ![i].cpp_delete = @ \/ RestoredFlags(i)]
      /\ inflight' = [inflight EXCEPT ![i] = "no"]
      /\ UNCHANGED <<refs, held, borrowed, inst_c2p, keep, mem, obj, own, shares, frames>>
  BY DEF Restore, Converting
<1>2. inst[i] # NoInst /\ i \notin Doomed
  BY <1>1, KeptNow DEF Sound, Kept
<1>3. /\ inst' \in [Insts -> Record] /\ inst'[i].type = inst[i].type /\ inst'[i].ptr = inst[i].ptr
      /\ inst'[i].state = "ready" /\ inst'[i].internal = inst[i].internal
      /\ inst'[i].destruct = (inst[i].destruct \/ inflight[i] = "default")
      /\ inst'[i].cpp_delete = (inst[i].cpp_delete \/ inflight[i] = "default")
      /\ \A j \in Insts : j # i => inst'[j] = inst[j]
      /\ inflight' \in [Insts -> {"no", "default", "deleter"}]
      /\ inflight'[i] = "no" /\ \A j \in Insts : j # i => inflight'[j] = inflight[j]
  <2>1. inst \in [Insts -> Record]
    BY DEF Sound, Shape
  <2>2. PICK r \in Record : r = [inst[i] EXCEPT !.state = "ready", !.destruct = (inst[i].destruct \/ inflight[i] = "default"),
                                              !.cpp_delete = (inst[i].cpp_delete \/ inflight[i] = "default")]
    BY <2>1 DEF Record
  <2>3. inst' = [inst EXCEPT ![i] = r]
    BY <1>1, <2>1, <2>2 DEF Record, RestoredFlags
  <2>4. /\ r.state = "ready" /\ r.type = inst[i].type /\ r.ptr = inst[i].ptr /\ r.internal = inst[i].internal
        /\ r.destruct = (inst[i].destruct \/ inflight[i] = "default") /\ r.cpp_delete = (inst[i].cpp_delete \/ inflight[i] = "default")
    BY <2>1, <2>2 DEF Record
  <2>5. inst'[i] = r /\ inst' \in [Insts -> Record] /\ \A j \in Insts : j # i => inst'[j] = inst[j]
    BY <2>1, <2>3
  <2>6. /\ inflight' \in [Insts -> {"no", "default", "deleter"}]
        /\ inflight'[i] = "no" /\ \A j \in Insts : j # i => inflight'[j] = inflight[j]
    BY <1>1 DEF Sound, Shape
  <2> QED BY <2>4, <2>5, <2>6
<1>4. Shape'
  BY <1>1, <1>3 DEF Sound, Shape
<1>5. Complete' /\ Table' /\ \A j \in Insts : inst'[j] = NoInst <=> inst[j] = NoInst
  BY <1>1, <1>2, <1>3, FieldsChange
<1>6. Numbers'
  BY <1>1, NumbersStay DEF Sound
<1>7. Lives'
  BY <1>1, <1>2, <1>3, <1>5, LivesStay DEF Sound, Lives, Exists
<1>8. Solid'
  <2>1. Doomed' = Doomed /\ Keeps' = Keeps
    BY <1>1, SameFrames
  <2>2. FieldsOf(i)
    BY DEF Sound, Solid, Fields
  <2>3. FieldsOf(i)'
    BY <1>1, <1>2, <1>3, <2>1, <2>2 DEF FieldsOf
  <2>4. inst'[i].destruct \/ inflight'[i] = "default" <=> inst[i].destruct \/ inflight[i] = "default"
    BY <1>3
  <2>5. Marks(i)
    BY <1>1, <1>2, <1>3, <2>1, <2>3, <2>4 DEF Marks, InUseNow
  <2> QED BY <2>5, KeptNow, MarkingKeeps DEF Sound
<1> QED BY <1>4, <1>5, <1>6, <1>7, <1>8 DEF Sound

LEMMA TakeOverKeeps ==
  ASSUME Sound, NEW i \in Insts, TakeOver(i)
  PROVE  Sound'
<1>1. /\ frames = <<>> /\ inflight[i] # "no" /\ inflight' = [inflight EXCEPT ![i] = "no"]
      /\ UNCHANGED <<inst, held, inst_c2p, keep, mem, obj, shares, frames>>
  BY DEF TakeOver, Converting
<1>2. inst[i] # NoInst /\ i \notin Doomed /\ inst[i].ptr \in Addrs
  BY <1>1, KeptNow, There DEF Sound, Kept
<1>3. /\ inflight' \in [Insts -> {"no", "default", "deleter"}]
      /\ inflight'[i] = "no" /\ \A j \in Insts : j # i => inflight'[j] = inflight[j]
  BY <1>1 DEF Sound, Shape
<1>4. Complete' /\ Table'
  BY <1>1, CompleteStays, TableStays DEF Sound
<1>5. Doomed' = Doomed /\ Keeps' = Keeps /\ Counts' = Counts
  BY <1>1, SameFrames
<1>6. CASE inflight[i] = "default"
  <2>1. own' = [own EXCEPT ![inst[i].ptr] = "raw"] /\ UNCHANGED <<refs, borrowed>>
    BY <1>6 DEF TakeOver
  <2>2. Shape'
    BY <1>1, <1>3, <2>1 DEF Sound, Shape
  <2>3. Passes(i)
    BY <1>1, <1>2, <1>5, <1>6, <2>1 DEF Passes
  <2>4. Solid'
    BY <2>3, KeptNow, PassingKeeps DEF Sound
  <2>5. Numbers'
    <3>1. Has(i)
      BY <1>2, <1>6 DEF Has
    <3>2. own[inst[i].ptr] # "shared"
      BY <1>2, <3>1 DEF Sound, Solid, Sole, SoleAt, Memory, Shape
    <3>3. \A a \in Addrs : own'[a] = "shared" <=> own[a] = "shared"
      BY <1>2, <2>1, <3>2 DEF Sound, Shape
    <3> QED BY <1>1, <2>1, <3>3, NumbersStay DEF Sound
  <2>6. Lives'
    BY <1>1, <1>3, <2>1, LivesStay DEF Sound, Lives, Exists
  <2> QED BY <1>4, <2>2, <2>4, <2>5, <2>6 DEF Sound
<1>7. CASE inflight[i] # "default"
  <2>1. /\ borrowed' = [borrowed EXCEPT ![i] = @ \cup {"deleter"}] /\ refs' = [refs EXCEPT ![i] = @ + 1]
        /\ UNCHANGED own
    BY <1>7 DEF TakeOver
  <2>2. FieldsOf(i) /\ "deleter" \notin borrowed[i] /\ inst[i].state = "relinquished"
    BY <1>1 DEF Sound, Solid, Fields, FieldsOf
  <2>3. /\ borrowed' \in [Insts -> SUBSET {"deleter", "shared"}] /\ refs' \in [Insts -> Nat]
        /\ borrowed'[i] = borrowed[i] \cup {"deleter"} /\ \A j \in Insts : j # i => borrowed'[j] = borrowed[j]
        /\ refs'[i] = refs[i] + 1 /\ \A j \in Insts : j # i => refs'[j] = refs[j]
    BY <2>1 DEF Sound, Shape
  <2>4. Shape'
    BY <1>1, <1>3, <2>1, <2>3 DEF Sound, Shape
  <2>5. Numbers'
    <3>1. Cardinality(borrowed'[i]) = Cardinality(borrowed[i]) + 1 /\ Cardinality(borrowed[i]) \in Nat
      <4>1. PICK B \in SUBSET {"deleter", "shared"} : B = borrowed[i]
        BY DEF Sound, Shape
      <4>2. Cardinality(B \cup {"deleter"}) = Cardinality(B) + 1 /\ Cardinality(B) \in Nat
        BY <2>2, <4>1, BorrowedNumbers
      <4> QED BY <2>3, <4>1, <4>2
    <3>2. Counts[i] \in Nat /\ held[i] \in Nat
      BY CountsInNat DEF Sound, Shape, Items
    <3>3. refs'[i] = held'[i] + Cardinality(borrowed'[i]) + Counts'[i]
      BY <1>1, <1>5, <2>3, <3>1, <3>2 DEF Sound, Numbers
    <3> QED BY <1>1, <1>5, <2>1, <2>3, <3>3 DEF Sound, Numbers
  <2>6. Lives'
    <3>1. \A j \in Insts : (refs'[j] > 0 /\ refs'[j] # 0) \/ refs'[j] = refs[j]
      BY <2>3 DEF Sound, Shape
    <3>2. i \notin Doomed /\ Doomed = {}
      BY <1>1, NoneDoomed
    <3>3. \A j \in Insts : inst'[j] # NoInst <=> refs'[j] > 0 \/ j \in Doomed'
      BY <1>1, <1>2, <1>5, <2>3, <3>1 DEF Sound, Lives, Exists
    <3>4. \A j \in Insts : refs'[j] = 0 => keep'[j] = <<>>
      BY <1>1, <3>1 DEF Sound, Lives
    <3>5. \A j \in Insts : inflight'[j] # "no" => inst'[j] # NoInst /\ frames' = <<>>
      BY <1>1, <1>3 DEF Sound, Lives, Exists
    <3> QED BY <1>1, <1>5, <3>2, <3>3, <3>4, <3>5 DEF Sound, Lives, Exists
  <2>7. Solid'
    <3>1. FieldsOf(i)'
      BY <1>1, <1>3, <1>5, <2>1, <2>2 DEF FieldsOf
    <3>2. Marks(i)
      BY <1>1, <1>2, <1>3, <1>5, <1>7, <2>1, <2>3, <3>1 DEF Marks, InUseNow
    <3> QED BY <3>2, KeptNow, MarkingKeeps DEF Sound
  <2> QED BY <1>4, <2>4, <2>5, <2>6, <2>7 DEF Sound
<1> QED BY <1>6, <1>7

LEMMA SharedFromPythonKeeps ==
  ASSUME Sound, NEW i \in Insts, SharedFromPython(i)
  PROVE  Sound'
<1>1. /\ frames = <<>> /\ inst[i].state = "ready" /\ "shared" \notin borrowed[i]
      /\ borrowed' = [borrowed EXCEPT ![i] = @ \cup {"shared"}] /\ refs' = [refs EXCEPT ![i] = @ + 1]
      /\ UNCHANGED <<inst, held, inflight, inst_c2p, keep, mem, obj, own, shares, frames>>
  BY DEF SharedFromPython, Running, Converting
<1>2. inst[i] # NoInst
  BY <1>1 DEF NoInst
<1>3. /\ borrowed' \in [Insts -> SUBSET {"deleter", "shared"}] /\ refs' \in [Insts -> Nat]
      /\ borrowed'[i] = borrowed[i] \cup {"shared"} /\ \A j \in Insts : j # i => borrowed'[j] = borrowed[j]
      /\ refs'[i] = refs[i] + 1 /\ \A j \in Insts : j # i => refs'[j] = refs[j]
  BY <1>1 DEF Sound, Shape
<1>4. Shape'
  BY <1>1, <1>3 DEF Sound, Shape
<1>5. Complete' /\ Table'
  BY <1>1, CompleteStays, TableStays DEF Sound
<1>6. Doomed' = Doomed /\ Keeps' = Keeps /\ Counts' = Counts
  BY <1>1, SameFrames
<1>7. Numbers'
  <2>1. Cardinality(borrowed'[i]) = Cardinality(borrowed[i]) + 1 /\ Cardinality(borrowed[i]) \in Nat
    <3>1. PICK B \in SUBSET {"deleter", "shared"} : B = borrowed[i]
      BY DEF Sound, Shape
    <3>2. Cardinality(B \cup {"shared"}) = Cardinality(B) + 1 /\ Cardinality(B) \in Nat
      BY <1>1, <3>1, BorrowedNumbers
    <3> QED BY <1>3, <3>1, <3>2
  <2>2. Counts[i] \in Nat /\ held[i] \in Nat
    BY CountsInNat DEF Sound, Shape, Items
  <2>3. refs'[i] = held'[i] + Cardinality(borrowed'[i]) + Counts'[i]
    <3>1. refs[i] = held[i] + Cardinality(borrowed[i]) + Counts[i]
      BY DEF Sound, Numbers
    <3>2. held'[i] = held[i] /\ Counts'[i] = Counts[i]
      BY <1>1, <1>6
    <3> QED BY <1>3, <2>1, <2>2, <3>1, <3>2
  <2> QED BY <1>1, <1>6, <1>3, <2>3 DEF Sound, Numbers
<1>8. Lives'
  <2>1. \A j \in Insts : (refs'[j] > 0 /\ refs'[j] # 0) \/ refs'[j] = refs[j]
    BY <1>3 DEF Sound, Shape
  <2>2. Doomed = {}
    BY <1>1, NoneDoomed
  <2>3. \A j \in Insts : inst'[j] # NoInst <=> refs'[j] > 0 \/ j \in Doomed'
    BY <1>1, <1>2, <1>3, <1>6, <2>1 DEF Sound, Lives, Exists
  <2>4. \A j \in Insts : refs'[j] = 0 => keep'[j] = <<>>
    BY <1>1, <2>1 DEF Sound, Lives
  <2> QED BY <1>1, <1>6, <2>2, <2>3, <2>4 DEF Sound, Lives, Exists
<1>9. Solid'
  <2>1. \A j \in Insts : \/ borrowed'[j] \subseteq borrowed[j]
                         \/ inst[j].state = "ready" /\ borrowed'[j] \subseteq borrowed[j] \cup {"shared"}
    BY <1>1, <1>3
  <2> QED BY <1>1, <1>6, <2>1, Quiet DEF Sound
<1> QED BY <1>4, <1>5, <1>7, <1>8, <1>9 DEF Sound

\* Whoever has an instance is counted.
LEMMA RefsCover ==
  ASSUME Shape, Numbers, NEW i \in Insts
  PROVE  /\ held[i] \in Nat /\ Cardinality(borrowed[i]) \in Nat /\ Counts[i] \in Nat /\ refs[i] \in Nat
         /\ refs[i] = held[i] + Cardinality(borrowed[i]) + Counts[i]
         /\ held[i] > 0 \/ borrowed[i] # {} \/ Counts[i] # 0 => refs[i] # 0
<1>1. held[i] \in Nat /\ refs[i] \in Nat /\ borrowed[i] \in SUBSET {"deleter", "shared"}
  BY DEF Shape
<1>2. Cardinality(borrowed[i]) \in Nat /\ (Cardinality(borrowed[i]) = 0 => borrowed[i] = {})
  BY <1>1, BorrowedNumbers
<1>3. Counts[i] \in Nat
  BY CountsInNat DEF Items
<1>4. refs[i] = held[i] + Cardinality(borrowed[i]) + Counts[i]
  BY DEF Numbers
<1>5. held[i] > 0 \/ Cardinality(borrowed[i]) # 0 \/ Counts[i] # 0 => refs[i] # 0
  <2>1. PICK x \in Nat, y \in Nat, z \in Nat : x = held[i] /\ y = Cardinality(borrowed[i]) /\ z = Counts[i]
    BY <1>1, <1>2, <1>3
  <2>2. refs[i] = x + y + z
    BY <1>4, <2>1
  <2>3. x > 0 \/ y # 0 \/ z # 0 => x + y + z # 0
    OBVIOUS
  <2> QED BY <2>1, <2>2, <2>3
<1> QED BY <1>1, <1>2, <1>3, <1>4, <1>5

\* An instance keeps one more than before.
LEMMA KeepGrows ==
  ASSUME Shape, NEW i \in Insts, NEW y \in Items, NEW w, w = Append(keep[i], y),
         keep' = [keep EXCEPT ![i] = w], UNCHANGED frames
  PROVE  /\ keep' \in Keepings /\ Doomed' = Doomed /\ Keeps' = Keeps \cup {<<i, y>>}
         /\ \A x \in Items : Counts'[x] = Counts[x] + (IF x = y THEN 1 ELSE 0)
<1>1. PICK kp \in Keepings, fr \in Seq(Frame) : kp = keep /\ fr = frames
  BY DEF Shape
<1>2. w = Append(kp[i], y)
  BY <1>1
<1>3. [kp EXCEPT ![i] = w] \in Keepings
  BY <1>2, KeepCounts
<1>4. \A x \in Items : CountsIn([kp EXCEPT ![i] = w], fr)[x] = CountsIn(kp, fr)[x] + (IF x = y THEN 1 ELSE 0)
  BY <1>2, KeepCounts
<1>5. KeepsIn([kp EXCEPT ![i] = w]) = KeepsIn(kp) \cup {<<i, y>>}
  BY <1>2, KeepCounts
<1>6. keep' = [kp EXCEPT ![i] = w] /\ frames' = fr
  BY <1>1
<1> QED BY <1>1, <1>3, <1>4, <1>5, <1>6 DEF Counts, Keeps, Doomed

LEMMA KeepAliveKeeps ==
  ASSUME Sound, NEW nurse \in Insts, NEW patient \in Insts, KeepAlive(nurse, patient)
  PROVE  Sound'
<1>1. /\ frames = <<>> /\ held[nurse] > 0 /\ held[patient] > 0
      /\ keep' = [keep EXCEPT ![nurse] = Append(@, patient)] /\ refs' = [refs EXCEPT ![patient] = @ + 1]
      /\ UNCHANGED <<inst, held, borrowed, inflight, inst_c2p, mem, obj, own, shares, frames>>
  BY DEF KeepAlive, Running, Converting
<1>2. /\ keep' \in Keepings
      /\ \A x \in Items : Counts'[x] = Counts[x] + (IF x = patient THEN 1 ELSE 0)
      /\ Keeps' = Keeps \cup {<<nurse, patient>>} /\ Doomed' = Doomed /\ Doomed = {}
  <2>1. PICK y \in Items : y = patient
    BY DEF Items
  <2>2. PICK w : w = Append(keep[nurse], y)
    OBVIOUS
  <2>3. keep' = [keep EXCEPT ![nurse] = w]
    BY <1>1, <2>1, <2>2
  <2>4. frames' = frames /\ Shape
    BY <1>1 DEF Sound
  <2>5. /\ keep' \in Keepings /\ Doomed' = Doomed /\ Keeps' = Keeps \cup {<<nurse, y>>}
        /\ \A x \in Items : Counts'[x] = Counts[x] + (IF x = y THEN 1 ELSE 0)
    BY <2>2, <2>3, <2>4, KeepGrows
  <2> QED BY <1>1, <2>1, <2>5, NoneDoomed
<1>3. /\ refs' \in [Insts -> Nat]
      /\ refs'[patient] = refs[patient] + 1 /\ \A j \in Insts : j # patient => refs'[j] = refs[j]
  BY <1>1 DEF Sound, Shape
<1>4. Shape'
  BY <1>1, <1>2, <1>3 DEF Sound, Shape
<1>5. Complete' /\ Table'
  BY <1>1, CompleteStays, TableStays DEF Sound
<1>6. refs[nurse] # 0 /\ refs[patient] # 0
  BY <1>1, RefsCover DEF Sound
<1>7. Numbers'
  <2>1. /\ Counts \in [Items -> Nat] /\ Counts'[patient] = Counts[patient] + 1
        /\ \A x \in Items : x # patient => Counts'[x] = Counts[x]
    <3>1. Counts \in [Items -> Nat] /\ patient \in Items
      BY CountsInNat DEF Sound, Items
    <3>2. \A x \in Items : Counts[x] \in Nat
      BY <3>1
    <3> QED BY <1>2, <3>1, <3>2
  <2>2. ASSUME NEW j \in Insts PROVE refs'[j] = held'[j] + Cardinality(borrowed'[j]) + Counts'[j]
    <3>1. /\ held[j] \in Nat /\ Cardinality(borrowed[j]) \in Nat /\ Counts[j] \in Nat
          /\ refs[j] = held[j] + Cardinality(borrowed[j]) + Counts[j]
      BY RefsCover DEF Sound
    <3>2. held'[j] = held[j] /\ borrowed'[j] = borrowed[j]
      BY <1>1
    <3>3. CASE j = patient
      BY <1>3, <2>1, <3>1, <3>2, <3>3
    <3>4. CASE j # patient
      BY <1>3, <2>1, <3>1, <3>2, <3>4 DEF Items
    <3> QED BY <3>3, <3>4
  <2>3. \A a \in Addrs : a # patient
    BY InstsAssumption
  <2>4. \A a \in Addrs : Counts'[a] = Counts[a]
    BY <2>1, <2>3 DEF Items
  <2> QED BY <1>1, <2>2, <2>4 DEF Sound, Numbers
<1>8. Lives'
  <2>1. \A j \in Insts : refs'[j] = 0 <=> refs[j] = 0
    BY <1>3, <1>6 DEF Sound, Shape
  <2>2. ASSUME NEW j \in Insts PROVE refs'[j] > 0 <=> refs[j] > 0
    <3>1. refs[j] \in Nat /\ refs'[j] \in Nat
      BY <1>3 DEF Sound, Shape
    <3> QED BY <1>3, <1>6, <3>1
  <2>3. \A j \in Insts : refs'[j] = 0 => keep'[j] = <<>>
    BY <1>1, <1>6, <2>1 DEF Sound, Lives, Shape, Keepings
  <2> QED BY <1>1, <1>2, <2>1, <2>2, <2>3 DEF Sound, Lives, Exists
<1>9. Solid'
  BY <1>1, <1>2, Quiet DEF Sound
<1> QED BY <1>4, <1>5, <1>7, <1>8, <1>9 DEF Sound

LEMMA CppNewKeeps ==
  ASSUME Sound, NEW a \in Addrs, NEW T \in Made, NEW how \in {"raw", "shared"}, CppNew(a, T, how)
  PROVE  Sound'
<1>1. /\ frames = <<>> /\ mem[a] = "free"
      /\ mem' = [mem EXCEPT ![a] = "cpp"] /\ obj' = [obj EXCEPT ![a] = T] /\ own' = [own EXCEPT ![a] = how]
      /\ shares' = IF how = "shared" THEN [shares EXCEPT ![a] = 1] ELSE shares
      /\ UNCHANGED <<inst, refs, held, borrowed, inflight, inst_c2p, keep, frames>>
  BY DEF CppNew, Running, Converting
<1>2. T \in Types
  BY PlacesAssumption
<1>3. shares' \in [Addrs -> Nat] /\ own' \in [Addrs -> {"none", "raw", "shared"}]
  BY <1>1 DEF Sound, Shape
<1>4. Shape'
  BY <1>1, <1>2, <1>3 DEF Sound, Shape
<1>5. Complete' /\ Table'
  BY <1>1, CompleteStays, TableStays DEF Sound
<1>6. Doomed' = Doomed /\ Keeps' = Keeps /\ Counts' = Counts
  BY <1>1, SameFrames
<1>7. Lives'
  BY <1>1, LivesStay DEF Sound, Lives, Exists
<1>8. Numbers'
  <2>1. shares[a] = 0 /\ own[a] = "none"
    BY <1>1 DEF Sound, Solid, Memory, Shape
  <2>2. Counts[a] \in Nat
    BY CountsInNat DEF Sound, Items
  <2>3. Counts[a] = 0
    BY <2>1, <2>2 DEF Sound, Numbers
  <2>4. \A b \in Addrs : /\ shares'[b] = IF b = a /\ how = "shared" THEN 1 ELSE shares[b]
                         /\ own'[b] = IF b = a THEN how ELSE own[b]
    BY <1>1 DEF Sound, Shape
  <2>5. \A b \in Addrs : shares'[b] = Counts[b] + (IF own'[b] = "shared" THEN 1 ELSE 0)
    BY <2>1, <2>3, <2>4 DEF Sound, Numbers
  <2> QED BY <1>1, <1>6, <2>5 DEF Sound, Numbers
<1>9. Solid'
  <2>1. Appears(a, T, how)
    BY <1>1, <1>6 DEF Appears
  <2> QED BY <1>2, <2>1, KeptNow, AppearingKeeps DEF Sound
<1> QED BY <1>4, <1>5, <1>7, <1>8, <1>9 DEF Sound

LEMMA CppDeleteKeeps ==
  ASSUME Sound, NEW a \in Addrs, CppDelete(a)
  PROVE  Sound'
<1>1. /\ frames = <<>> /\ own[a] = "raw" /\ UsedAt(a) = {} /\ Destroyed(a, TRUE, TRUE)
      /\ own' = [own EXCEPT ![a] = "none"]
      /\ UNCHANGED <<inst, refs, held, borrowed, inflight, inst_c2p, keep, shares, frames>>
  BY DEF CppDelete, Running, Converting
<1>2. Shape'
  BY <1>1 DEF Sound, Shape, Destroyed
<1>3. Complete' /\ Table'
  BY <1>1, CompleteStays, TableStays DEF Sound
<1>4. Doomed' = Doomed /\ Keeps' = Keeps /\ Doomed = {}
  BY <1>1, SameFrames, NoneDoomed
<1>5. Lives'
  BY <1>1, LivesStay DEF Sound, Lives, Exists
<1>6. Numbers'
  <2>1. \A b \in Addrs : own'[b] = "shared" <=> own[b] = "shared"
    BY <1>1 DEF Sound, Shape
  <2> QED BY <1>1, <2>1, NumbersStay DEF Sound
<1>7. Solid'
  <2>1. Disappears(a)
    BY <1>1, <1>4 DEF Disappears
  <2> QED BY <2>1, KeptNow, DisappearingKeeps DEF Sound
<1> QED BY <1>2, <1>3, <1>5, <1>6, <1>7 DEF Sound

LEMMA CppDropSharedKeeps ==
  ASSUME Sound, NEW a \in Addrs, CppDropShared(a)
  PROVE  Sound'
<1>1. /\ frames = <<>> /\ own[a] = "shared" /\ own' = [own EXCEPT ![a] = "none"] /\ DropShare(a)
      /\ UNCHANGED <<inst, refs, held, borrowed, inflight, inst_c2p, keep, frames>>
  BY DEF CppDropShared, Running, Converting
<1>2. shares[a] \in Nat /\ Counts[a] \in Nat /\ shares[a] = Counts[a] + 1
  BY <1>1, CountsInNat DEF Sound, Shape, Items, Numbers
<1>3. /\ \A b \in Addrs : shares'[b] = IF b = a THEN shares[a] - 1 ELSE shares[b]
      /\ \A b \in Addrs : own'[b] = IF b = a THEN "none" ELSE own[b]
      /\ shares' \in [Addrs -> Nat] /\ own' \in [Addrs -> {"none", "raw", "shared"}]
  BY <1>1, <1>2 DEF DropShare, Sound, Shape
<1>4. Shape'
  BY <1>1, <1>3 DEF Sound, Shape, DropShare, Destroyed
<1>5. Complete' /\ Table'
  BY <1>1, CompleteStays, TableStays DEF Sound
<1>6. Doomed' = Doomed /\ Keeps' = Keeps /\ Counts' = Counts
  BY <1>1, SameFrames
<1>7. Lives'
  BY <1>1, LivesStay DEF Sound, Lives, Exists
<1>8. Numbers'
  <2>1. \A b \in Addrs : shares'[b] = Counts[b] + (IF own'[b] = "shared" THEN 1 ELSE 0)
    BY <1>1, <1>2, <1>3 DEF Sound, Numbers
  <2> QED BY <1>1, <1>6, <2>1 DEF Sound, Numbers
<1>9. Solid'
  <2>1. shares[a] = 1 => \A i \in Insts : <<i, a>> \notin Keeps
    <3>1. \A p \in Keeps : Counts[p[2]] # 0
      BY CountsInNat DEF Sound
    <3>2. \A i \in Insts : <<i, a>> \in Keeps => Counts[a] # 0
      BY <3>1
    <3> QED BY <1>2, <3>2
  <2>2. ShareGoes(a)
    BY <1>1, <1>2, <1>3, <1>6, <2>1 DEF ShareGoes
  <2> QED BY <2>2, KeptNow, ShareGoingKeeps DEF Sound
<1> QED BY <1>4, <1>5, <1>7, <1>8, <1>9 DEF Sound

\* Nothing is converted while something is deallocated.
LEMMA NoneInFlight ==
  ASSUME Lives, frames # <<>>
  PROVE  \A i \in Insts : inflight[i] = "no"
BY DEF Lives

LEMMA DecrefShape ==
  ASSUME Shape, Lives, NEW i \in Insts, NEW outer \in Seq(Frame), DoomedIn(outer) = Doomed, Apart(outer),
         refs[i] # 0, Py_DECREF(i, outer)
  PROVE  /\ keep' \in Keepings /\ frames' \in Seq(Frame) /\ refs' \in [Insts -> Nat]
         /\ mem' \in [Addrs -> {"free", "python", "cpp"}] /\ obj' \in [Addrs -> Types \cup {"none"}]
         /\ Counts' = CountsIn(keep, outer)
         /\ refs'[i] = refs[i] - 1 /\ \A j \in Insts : j # i => refs'[j] = refs[j]
<1>1. i \notin Doomed
  BY DEF Lives
<1>2. /\ keep' \in Keepings /\ frames' \in Seq(Frame) /\ refs' \in [Insts -> Nat]
      /\ Counts' = CountsIn(keep, outer) /\ refs' = [refs EXCEPT ![i] = @ - 1]
      /\ refs[i] = 1 => Destroyed(inst[i].ptr, inst[i].destruct, inst[i].cpp_delete)
      /\ refs[i] # 1 => UNCHANGED <<obj, mem>>
  BY <1>1, DecrefDoes
<1>3. mem' \in [Addrs -> {"free", "python", "cpp"}] /\ obj' \in [Addrs -> Types \cup {"none"}]
  BY <1>2 DEF Destroyed, Shape
<1>4. refs'[i] = refs[i] - 1 /\ \A j \in Insts : j # i => refs'[j] = refs[j]
  BY <1>2 DEF Shape
<1> QED BY <1>2, <1>3, <1>4

\* One reference less, and one place less that has it.
LEMMA NumbersFall ==
  ASSUME Shape, Numbers, NEW i \in Insts, Counts' \in [Items -> Nat],
         \A x \in Items : Counts[x] = Counts'[x] + (IF x = i THEN 1 ELSE 0),
         refs'[i] = refs[i] - 1, \A j \in Insts : j # i => refs'[j] = refs[j],
         UNCHANGED <<held, borrowed, own, shares>>
  PROVE  Numbers'
<1>1. ASSUME NEW j \in Insts PROVE refs'[j] = held'[j] + Cardinality(borrowed'[j]) + Counts'[j]
  <2>1. /\ held[j] \in Nat /\ Cardinality(borrowed[j]) \in Nat /\ Counts[j] \in Nat
        /\ refs[j] = held[j] + Cardinality(borrowed[j]) + Counts[j]
    BY RefsCover
  <2>2. held'[j] = held[j] /\ borrowed'[j] = borrowed[j]
    OBVIOUS
  <2>3. j \in Items /\ Counts'[j] \in Nat /\ Counts[j] = Counts'[j] + (IF j = i THEN 1 ELSE 0)
    BY DEF Items
  <2>4. CASE j = i
    BY <2>1, <2>2, <2>3, <2>4
  <2>5. CASE j # i
    BY <2>1, <2>2, <2>3, <2>5
  <2> QED BY <2>4, <2>5
<1>2. ASSUME NEW a \in Addrs PROVE Counts'[a] = Counts[a]
  <2>1. a # i /\ a \in Items
    BY InstsAssumption DEF Items
  <2> QED BY <2>1
<1> QED BY <1>1, <1>2 DEF Numbers

LEMMA ReleaseKeeps ==
  ASSUME Sound, Release
  PROVE  Sound'
<1>1. /\ frames # <<>> /\ Last(frames).todo # <<>>
      /\ UNCHANGED <<inst, held, borrowed, inflight, inst_c2p, own>>
  BY DEF Release, Top
<1>2. PICK y \in Items, outer \in Seq(Frame) :
        /\ y = Head(Last(frames).todo) /\ outer = Popped(frames) /\ Counts[y] # 0
        /\ \A x \in Items : Counts[x] = CountsIn(keep, outer)[x] + (IF x = y THEN 1 ELSE 0)
        /\ DoomedIn(outer) = Doomed /\ Apart(outer)
  <2>1. keep \in Keepings /\ frames \in Seq(Frame) /\ Apart(frames)
    BY DEF Sound, Shape, Lives
  <2>2. PICK kp \in Keepings, fr \in Seq(Frame) : kp = keep /\ fr = frames
    BY <2>1
  <2>3. fr # <<>> /\ Last(fr).todo # <<>>
    BY <1>1, <2>2
  <2>4. Head(Last(fr).todo) \in Items /\ Popped(fr) \in Seq(Frame) /\ CountsIn(kp, fr)[Head(Last(fr).todo)] # 0
    BY <2>3, PopCounts
  <2>5. \A x \in Items : CountsIn(kp, fr)[x] = CountsIn(kp, Popped(fr))[x] + (IF x = Head(Last(fr).todo) THEN 1 ELSE 0)
    BY <2>3, PopCounts
  <2>6. DoomedIn(Popped(fr)) = DoomedIn(fr) /\ (Apart(fr) => Apart(Popped(fr)))
    BY <2>3, PopCounts
  <2> QED BY <2>1, <2>2, <2>4, <2>5, <2>6 DEF Counts, Doomed
<1>3. IF y \in Insts THEN Py_DECREF(y, outer) /\ UNCHANGED shares
                     ELSE DropShare(y) /\ frames' = outer /\ UNCHANGED <<refs, keep>>
  BY <1>2 DEF Release, Top, Popped
<1>4. \A i \in Insts : inflight[i] = "no"
  BY <1>1, NoneInFlight DEF Sound
<1>5. CountsIn(keep, outer) \in [Items -> Nat] /\ \A p \in KeepsIn(keep) : CountsIn(keep, outer)[p[2]] # 0
  BY CountsAreNumbers DEF Sound, Shape
<1>6. Complete' /\ Table'
  BY <1>1, CompleteStays, TableStays DEF Sound
<1>7. CASE y \in Insts
  <2>1. Py_DECREF(y, outer) /\ UNCHANGED shares /\ refs[y] # 0
    BY <1>2, <1>3, <1>7, RefsCover DEF Sound
  <2>2. /\ keep' \in Keepings /\ frames' \in Seq(Frame) /\ refs' \in [Insts -> Nat]
        /\ mem' \in [Addrs -> {"free", "python", "cpp"}] /\ obj' \in [Addrs -> Types \cup {"none"}]
        /\ Counts' = CountsIn(keep, outer)
        /\ refs'[y] = refs[y] - 1 /\ \A j \in Insts : j # y => refs'[j] = refs[j]
    BY <1>2, <1>7, <2>1, DecrefShape DEF Sound
  <2>3. Shape'
    BY <1>1, <2>1, <2>2 DEF Sound, Shape
  <2>4. Numbers'
    BY <1>1, <1>2, <1>5, <1>7, <2>1, <2>2, NumbersFall DEF Sound
  <2>5. \A j \in Insts : borrowed'[j] \subseteq borrowed[j]
    BY <1>1
  <2>6. Numbers' /\ Lives' /\ Solid'
    BY <1>1, <1>2, <1>4, <1>7, <2>1, <2>3, <2>4, <2>5, DecrefKeeps DEF Sound
  <2> QED BY <1>6, <2>3, <2>6 DEF Sound
<1>8. CASE y \notin Insts
  <2>1. y \in Addrs /\ DropShare(y) /\ frames' = outer /\ UNCHANGED <<refs, keep>>
    BY <1>3, <1>8 DEF Items
  <2>2. /\ Counts' = CountsIn(keep, outer) /\ Doomed' = Doomed /\ Keeps' = Keeps
        /\ Counts' \in [Items -> Nat]
        /\ \A x \in Items : Counts[x] = Counts'[x] + (IF x = y THEN 1 ELSE 0)
    BY <1>2, <1>5, <2>1 DEF Counts, Doomed, Keeps
  <2>3. /\ shares[y] \in Nat /\ Counts[y] \in Nat /\ Counts'[y] \in Nat /\ Counts[y] = Counts'[y] + 1
        /\ shares[y] = Counts[y] + (IF own[y] = "shared" THEN 1 ELSE 0)
    BY <2>1, <2>2, CountsInNat DEF Sound, Shape, Numbers
  <2>4. shares[y] # 0 /\ (own[y] = "shared" => shares[y] > 1) /\ (shares[y] = 1 => Counts'[y] = 0)
    BY <2>3
  <2>5. /\ \A b \in Addrs : shares'[b] = IF b = y THEN shares[y] - 1 ELSE shares[b]
        /\ shares' \in [Addrs -> Nat]
        /\ mem' \in [Addrs -> {"free", "python", "cpp"}] /\ obj' \in [Addrs -> Types \cup {"none"}]
    BY <2>1, <2>3, <2>4 DEF DropShare, Destroyed, Sound, Shape
  <2>6. Shape'
    BY <1>1, <1>2, <2>1, <2>5 DEF Sound, Shape
  <2>7. Numbers'
    <3>1. ASSUME NEW j \in Insts PROVE Counts'[j] = Counts[j]
      <4>1. j \in Items /\ j # y
        BY <1>8 DEF Items
      <4>2. Counts'[j] \in Nat
        BY <2>2, <4>1
      <4> QED BY <2>2, <4>1, <4>2
    <3>2. ASSUME NEW b \in Addrs PROVE shares'[b] = Counts'[b] + (IF own'[b] = "shared" THEN 1 ELSE 0)
      <4>1. CASE b = y
        BY <1>1, <2>3, <2>5, <4>1
      <4>2. CASE b # y
        <5>1. Counts'[b] \in Nat /\ Counts[b] = Counts'[b]
          BY <2>2, <4>2 DEF Items
        <5> QED BY <1>1, <2>5, <4>2, <5>1 DEF Sound, Numbers
      <4> QED BY <4>1, <4>2
    <3> QED BY <1>1, <2>1, <3>1, <3>2 DEF Sound, Numbers
  <2>8. Lives'
    BY <1>1, <1>2, <1>4, <2>1, <2>2 DEF Sound, Lives, Exists
  <2>9. Solid'
    <3>1. shares[y] = 1 => \A i \in Insts : <<i, y>> \notin Keeps
      BY <1>5, <2>2, <2>4 DEF Keeps
    <3>2. ShareGoes(y)
      BY <1>1, <2>1, <2>2, <2>4, <3>1 DEF ShareGoes
    <3> QED BY <3>2, KeptNow, ShareGoingKeeps DEF Sound
  <2> QED BY <1>6, <2>6, <2>7, <2>8, <2>9 DEF Sound
<1> QED BY <1>7, <1>8

LEMMA UnregisterKeeps ==
  ASSUME Sound, Unregister
  PROVE  Sound' /\ stopped' # "aborted"
<1>1. /\ frames # <<>> /\ Last(frames).todo = <<>> /\ frames' = Front(frames)
      /\ UNCHANGED <<refs, held, borrowed, inflight, keep, obj, own, shares>>
  BY DEF Unregister, Top
<1>2. PICK i \in Insts :
        /\ i = Last(frames).self /\ i \in Doomed /\ Doomed' = Doomed \ {i} /\ Counts' = Counts /\ Keeps' = Keeps
        /\ frames' \in Seq(Frame) /\ Apart(frames')
  <2>1. PICK kp \in Keepings, fr \in Seq(Frame) : kp = keep /\ fr = frames /\ Apart(fr)
    BY DEF Sound, Shape, Lives
  <2>2. fr # <<>> /\ Last(fr).todo = <<>>
    BY <1>1, <2>1
  <2>3. Front(fr) \in Seq(Frame) /\ CountsIn(kp, Front(fr)) = CountsIn(kp, fr) /\ Last(fr).self \in DoomedIn(fr)
    BY <2>2, FrontCounts
  <2>4. Apart(Front(fr)) /\ DoomedIn(Front(fr)) = DoomedIn(fr) \ {Last(fr).self}
    BY <2>1, <2>2, FrontCounts
  <2>5. Last(fr).self \in Insts
    BY <2>3 DEF DoomedIn
  <2>6. frames' = Front(fr) /\ keep' = kp
    BY <1>1, <2>1
  <2> QED BY <2>1, <2>3, <2>4, <2>5, <2>6 DEF Counts, Doomed, Keeps
<1>3. PICK a \in Addrs : a = inst[i].ptr
  BY <1>2, There DEF Sound, Lives, Exists
<1>4. /\ stopped' = IF Contains(inst_c2p[a], i) THEN "no" ELSE "aborted"
      /\ inst_c2p' = [inst_c2p EXCEPT ![a] = Unlisted(@, i)]
      /\ inst' = [inst EXCEPT ![i] = NoInst]
      /\ mem' = IF inst[i].internal THEN [mem EXCEPT ![a] = "free"] ELSE mem
  BY <1>2, <1>3 DEF Unregister, Top
<1>5. Contains(inst_c2p[a], i) /\ Table' /\ inst_c2p' \in [Addrs -> Seq(Insts)]
  BY <1>3, <1>4, TableShrinks DEF Sound
<1>6. NoInst \in Record
  BY DEF NoInst, Record
<1>7. inst' \in [Insts -> Record] /\ inst'[i] = NoInst /\ \A j \in Insts : j # i => inst'[j] = inst[j]
  BY <1>4, <1>6 DEF Sound, Shape
<1>8. Shape'
  <2>1. mem' \in [Addrs -> {"free", "python", "cpp"}]
    BY <1>4 DEF Sound, Shape
  <2> QED BY <1>1, <1>2, <1>5, <1>7, <2>1 DEF Sound, Shape
<1>9. Complete'
  <2>1. NoInst.ptr = "none"
    BY DEF NoInst
  <2> QED BY <1>7, <2>1 DEF Sound, Complete
<1>10. Numbers'
  BY <1>1, <1>2 DEF Sound, Numbers
<1>11. refs[i] = 0 /\ keep[i] = <<>> /\ borrowed[i] = {} /\ inflight[i] = "no"
  BY <1>1, <1>2, RefsCover, NoneInFlight DEF Sound, Lives
<1>12. Lives'
  <2>1. ASSUME NEW j \in Insts PROVE inst'[j] # NoInst <=> refs'[j] > 0 \/ j \in Doomed'
    <3>1. CASE j = i
      BY <1>1, <1>2, <1>7, <1>11, <3>1
    <3>2. CASE j # i
      BY <1>1, <1>2, <1>7, <3>2 DEF Sound, Lives, Exists
    <3> QED BY <3>1, <3>2
  <2>2. \A j \in Insts : inflight'[j] = "no"
    BY <1>1, NoneInFlight DEF Sound
  <2> QED BY <1>1, <1>2, <2>1, <2>2 DEF Sound, Lives, Exists
<1>13. Solid'
  <2>1. \A p \in Keeps : p[1] # i
    <3>1. DOMAIN keep[i] = {}
      BY <1>11
    <3> QED BY <3>1 DEF Keeps, KeepsIn
  <2>2. Goes(i)
    BY <1>1, <1>2, <1>3, <1>4, <1>11, <2>1 DEF Goes
  <2> QED BY <2>2, KeptNow, GoingKeeps DEF Sound
<1> QED BY <1>4, <1>5, <1>8, <1>9, <1>10, <1>12, <1>13 DEF Sound

LEMMA NoFrames ==
  \E none \in Seq(Frame) : none = <<>> /\ DoomedIn(none) = {} /\ Apart(none)
<1>1. PICK none : none = <<>>
  OBVIOUS
<1>2. none \in Seq(Frame) /\ DOMAIN none = {}
  BY <1>1, EmptySeq
<1>3. DoomedIn(none) = {} /\ Apart(none)
  BY <1>2 DEF DoomedIn, Apart
<1> QED BY <1>1, <1>2, <1>3

LEMMA DropKeeps ==
  ASSUME Sound, NEW i \in Insts, Drop(i)
  PROVE  Sound'
<1>1. PICK none \in Seq(Frame) : none = <<>> /\ DoomedIn(none) = {} /\ Apart(none)
  BY NoFrames
<1>2. /\ frames = none /\ held[i] > 0 /\ held' = [held EXCEPT ![i] = @ - 1] /\ Py_DECREF(i, none)
      /\ \A j \in Insts : inflight[j] = "no"
      /\ UNCHANGED <<inst, borrowed, inflight, inst_c2p, own, shares>>
  BY <1>1 DEF Drop, Running, Converting
<1>3. Doomed = DoomedIn(none) /\ Counts = CountsIn(keep, none)
  BY <1>2 DEF Doomed, Counts
<1>4. refs[i] # 0
  BY <1>2, RefsCover DEF Sound
<1>5. /\ keep' \in Keepings /\ frames' \in Seq(Frame) /\ refs' \in [Insts -> Nat]
      /\ mem' \in [Addrs -> {"free", "python", "cpp"}] /\ obj' \in [Addrs -> Types \cup {"none"}]
      /\ Counts' = CountsIn(keep, none)
      /\ refs'[i] = refs[i] - 1 /\ \A j \in Insts : j # i => refs'[j] = refs[j]
  BY <1>1, <1>2, <1>3, <1>4, DecrefShape DEF Sound
<1>6. /\ held' \in [Insts -> Nat] /\ held'[i] = held[i] - 1 /\ \A j \in Insts : j # i => held'[j] = held[j]
  BY <1>2 DEF Sound, Shape
<1>7. Shape'
  BY <1>2, <1>5, <1>6 DEF Sound, Shape
<1>8. Complete' /\ Table'
  BY <1>2, CompleteStays, TableStays DEF Sound
<1>9. Numbers'
  <2>1. ASSUME NEW j \in Insts PROVE refs'[j] = held'[j] + Cardinality(borrowed'[j]) + Counts'[j]
    <3>1. /\ held[j] \in Nat /\ Cardinality(borrowed[j]) \in Nat /\ Counts[j] \in Nat
          /\ refs[j] = held[j] + Cardinality(borrowed[j]) + Counts[j]
      BY RefsCover DEF Sound
    <3>2. borrowed'[j] = borrowed[j] /\ Counts'[j] = Counts[j]
      BY <1>2, <1>3, <1>5
    <3>3. CASE j = i
      BY <1>5, <1>6, <3>1, <3>2, <3>3
    <3>4. CASE j # i
      BY <1>5, <1>6, <3>1, <3>2, <3>4
    <3> QED BY <3>3, <3>4
  <2> QED BY <1>2, <1>3, <1>5, <2>1 DEF Sound, Numbers
<1>10. \A j \in Insts : borrowed'[j] \subseteq borrowed[j]
  BY <1>2
<1>11. Numbers' /\ Lives' /\ Solid'
  BY <1>1, <1>2, <1>3, <1>4, <1>7, <1>9, <1>10, DecrefKeeps DEF Sound
<1> QED BY <1>7, <1>8, <1>11 DEF Sound

\* A smart pointer of C++ gives up an instance.
LEMMA DropBorrowedKeeps ==
  ASSUME Sound, NEW i \in Insts, NEW how \in {"deleter", "shared"}, DropBorrowed(i, how)
  PROVE  Sound'
<1>1. PICK none \in Seq(Frame) : none = <<>> /\ DoomedIn(none) = {} /\ Apart(none)
  BY NoFrames
<1>2. /\ frames = none /\ how \in borrowed[i] /\ borrowed' = [borrowed EXCEPT ![i] = @ \ {how}] /\ Py_DECREF(i, none)
      /\ \A j \in Insts : inflight[j] = "no"
      /\ UNCHANGED <<inst, held, inflight, inst_c2p, own, shares>>
  BY <1>1 DEF DropBorrowed, Running, Converting
<1>3. Doomed = DoomedIn(none) /\ Counts = CountsIn(keep, none)
  BY <1>2 DEF Doomed, Counts
<1>4. refs[i] # 0
  BY <1>2, RefsCover DEF Sound
<1>5. /\ keep' \in Keepings /\ frames' \in Seq(Frame) /\ refs' \in [Insts -> Nat]
      /\ mem' \in [Addrs -> {"free", "python", "cpp"}] /\ obj' \in [Addrs -> Types \cup {"none"}]
      /\ Counts' = CountsIn(keep, none)
      /\ refs'[i] = refs[i] - 1 /\ \A j \in Insts : j # i => refs'[j] = refs[j]
  BY <1>1, <1>2, <1>3, <1>4, DecrefShape DEF Sound
<1>6. /\ borrowed' \in [Insts -> SUBSET {"deleter", "shared"}]
      /\ borrowed'[i] = borrowed[i] \ {how} /\ \A j \in Insts : j # i => borrowed'[j] = borrowed[j]
      /\ Cardinality(borrowed'[i]) = Cardinality(borrowed[i]) - 1
  <2>1. /\ borrowed' \in [Insts -> SUBSET {"deleter", "shared"}]
        /\ borrowed'[i] = borrowed[i] \ {how} /\ \A j \in Insts : j # i => borrowed'[j] = borrowed[j]
    BY <1>2 DEF Sound, Shape
  <2>2. PICK B \in SUBSET {"deleter", "shared"} : B = borrowed[i]
    BY DEF Sound, Shape
  <2>3. Cardinality(B \ {how}) = Cardinality(B) - 1
    BY <1>2, <2>2, BorrowedNumbers
  <2> QED BY <2>1, <2>2, <2>3
<1>7. Shape'
  BY <1>2, <1>5, <1>6 DEF Sound, Shape
<1>8. Complete' /\ Table'
  BY <1>2, CompleteStays, TableStays DEF Sound
<1>9. Numbers'
  <2>1. ASSUME NEW j \in Insts PROVE refs'[j] = held'[j] + Cardinality(borrowed'[j]) + Counts'[j]
    <3>1. /\ held[j] \in Nat /\ Cardinality(borrowed[j]) \in Nat /\ Counts[j] \in Nat
          /\ refs[j] = held[j] + Cardinality(borrowed[j]) + Counts[j]
      BY RefsCover DEF Sound
    <3>2. held'[j] = held[j] /\ Counts'[j] = Counts[j]
      BY <1>2, <1>3, <1>5
    <3>3. CASE j = i
      <4>1. PICK x \in Nat, y \in Nat, z \in Nat : x = held[j] /\ y = Cardinality(borrowed[j]) /\ z = Counts[j]
        BY <3>1
      <4>2. refs'[j] = (x + y + z) - 1 /\ Cardinality(borrowed'[j]) = y - 1
        BY <1>5, <1>6, <3>1, <3>3, <4>1
      <4>3. (x + y + z) - 1 = x + (y - 1) + z
        OBVIOUS
      <4> QED BY <3>2, <4>1, <4>2, <4>3
    <3>4. CASE j # i
      BY <1>5, <1>6, <3>1, <3>2, <3>4
    <3> QED BY <3>3, <3>4
  <2> QED BY <1>2, <1>3, <1>5, <2>1 DEF Sound, Numbers
<1>10. \A j \in Insts : borrowed'[j] \subseteq borrowed[j]
  BY <1>6
<1>11. Numbers' /\ Lives' /\ Solid'
  BY <1>1, <1>2, <1>3, <1>4, <1>7, <1>9, <1>10, DecrefKeeps DEF Sound
<1> QED BY <1>7, <1>8, <1>11 DEF Sound

-----------------------------------------------------------------------------
(* Instances that are new *)

\* Nothing refers to an nb_inst that is free.
LEMMA NothingHasIt ==
  ASSUME Sound, NEW i \in Insts, Free(i)
  PROVE  /\ inst[i] = NoInst /\ refs[i] = 0 /\ held[i] = 0 /\ borrowed[i] = {} /\ Counts[i] = 0
         /\ i \notin Doomed /\ inflight[i] = "no" /\ keep[i] = <<>>
<1>1. inst[i] = NoInst /\ refs[i] = 0
  BY DEF Free, Exists
<1>2. i \notin Doomed /\ inflight[i] = "no" /\ keep[i] = <<>>
  BY <1>1 DEF Sound, Lives, Exists
<1>3. held[i] = 0 /\ borrowed[i] = {} /\ Counts[i] = 0
  <2>1. held[i] \in Nat /\ Counts[i] \in Nat /\ ~(held[i] > 0 \/ borrowed[i] # {} \/ Counts[i] # 0)
    BY <1>1, RefsCover DEF Sound
  <2> QED BY <2>1
<1> QED BY <1>1, <1>2, <1>3

\* The table with a new instance in it.
LEMMA Listing ==
  ASSUME Sound, NEW i \in Insts, Free(i), NEW a \in Addrs,
         NEW r \in Record, r.ptr = a, r.type # "none", r.state # "none",
         inst' = [inst EXCEPT ![i] = r], inst_c2p' = [inst_c2p EXCEPT ![a] = Append(@, i)],
         \A k \in DOMAIN inst_c2p[a] : ~PyType_IsSubtype(inst[inst_c2p[a][k]].type, r.type)
  PROVE  /\ Complete' /\ Table'
         /\ inst' \in [Insts -> Record] /\ inst_c2p' \in [Addrs -> Seq(Insts)]
         /\ inst'[i] # NoInst /\ \A j \in Insts : j # i => inst'[j] = inst[j]
<1>1. inst[i] = NoInst
  BY NothingHasIt
<1>2. Table' /\ inst_c2p' \in [Addrs -> Seq(Insts)]
  BY <1>1, TableGrows DEF Sound
<1>3. inst' \in [Insts -> Record] /\ inst'[i] = r /\ \A j \in Insts : j # i => inst'[j] = inst[j]
  BY DEF Sound, Shape
<1>4. a # "none" /\ r # NoInst
  BY PlacesAssumption DEF NoInst
<1>5. Complete'
  BY <1>3, <1>4 DEF Sound, Complete
<1> QED BY <1>2, <1>3, <1>4, <1>5

\* The counts with a new instance, that Python has.
LEMMA Counting ==
  ASSUME Sound, NEW i \in Insts, Free(i),
         held' = [held EXCEPT ![i] = 1], refs' = [refs EXCEPT ![i] = 1],
         inst'[i] # NoInst, \A j \in Insts : j # i => inst'[j] = inst[j],
         \A a \in Addrs : own'[a] = "shared" <=> own[a] = "shared",
         UNCHANGED <<borrowed, inflight, keep, frames, shares>>
  PROVE  held' \in [Insts -> Nat] /\ refs' \in [Insts -> Nat] /\ Numbers' /\ Lives'
<1>1. /\ inst[i] = NoInst /\ refs[i] = 0 /\ held[i] = 0 /\ borrowed[i] = {} /\ Counts[i] = 0
      /\ i \notin Doomed /\ inflight[i] = "no" /\ keep[i] = <<>>
  BY NothingHasIt
<1>2. /\ held' \in [Insts -> Nat] /\ refs' \in [Insts -> Nat] /\ held'[i] = 1 /\ refs'[i] = 1
      /\ \A j \in Insts : j # i => held'[j] = held[j] /\ refs'[j] = refs[j]
  BY DEF Sound, Shape
<1>3. Counts' = Counts /\ Doomed' = Doomed
  BY SameFrames
<1>4. Numbers'
  <2>1. refs'[i] = held'[i] + Cardinality(borrowed'[i]) + Counts'[i]
    <3>1. Cardinality(borrowed'[i]) = 0
      BY <1>1, FS_EmptySet
    <3> QED BY <1>1, <1>2, <1>3, <3>1
  <2> QED BY <1>2, <1>3, <2>1 DEF Sound, Numbers
<1>5. Lives'
  <2>1. ASSUME NEW j \in Insts
        PROVE  /\ inst'[j] # NoInst <=> refs'[j] > 0 \/ j \in Doomed'
               /\ j \in Doomed' => refs'[j] = 0
               /\ refs'[j] = 0 => keep'[j] = <<>>
               /\ inflight'[j] # "no" => inst'[j] # NoInst /\ frames' = <<>>
    <3>1. CASE j = i
      BY <1>1, <1>2, <1>3, <3>1
    <3>2. CASE j # i
      BY <1>2, <1>3, <3>2 DEF Sound, Lives, Exists
    <3> QED BY <3>1, <3>2
  <2> QED BY <2>1 DEF Sound, Lives, Exists
<1> QED BY <1>2, <1>4, <1>5

\* The instances at an address that is free have been given away.
LEMMA StaleAt ==
  ASSUME Sound, frames = <<>>, NEW a \in Addrs, mem[a] = "free", NEW i \in Insts, inst[i].ptr = a
  PROVE  inst[i].state = "relinquished"
<1>1. obj[a] = "none"
  BY DEF Sound, Solid, Memory
<1>2. ~InUseNow(i) /\ i \notin Doomed
  BY <1>1, NoneInUse, NoneDoomed DEF Sound
<1>3. inst[i].state # "ready"
  BY <1>2 DEF InUseNow
<1>4. ~inst[i].internal /\ inst[i].state # "uninitialized"
  BY DEF Sound, Solid, Fields, FieldsOf
<1>5. inst[i].state # "none"
  BY There DEF Sound
<1> QED BY <1>3, <1>4, <1>5 DEF Sound, Shape, Record

-----------------------------------------------------------------------------
(* Owners *)

OneOwner(a) == \E x : OwnersOf(a) \subseteq {x}

\* What lives has one owner, and what is gone has none.
LEMMA SoundOwners ==
  ASSUME Sound, NEW a \in Addrs
  PROVE  IF obj[a] = "none" THEN OwnersOf(a) = {} ELSE \E x : OwnersOf(a) = {x}
<1> DEFINE Having == {i \in Insts : inst[i].ptr = a /\ Has(i)}
<1>1. \A i \in Insts : Dying(i) <=> i \in Doomed
  BY DEF Dying, Doomed, DoomedIn
<1>2. \A i \in Insts : inflight[i] = "default" => i \notin Doomed
  BY KeptNow DEF Sound, Kept
<1>3. OwnersOf(a) = Having \cup (IF own[a] = "raw" THEN {"raw"} ELSE {}) \cup (IF shares[a] > 0 THEN {"shared"} ELSE {})
  BY <1>1, <1>2 DEF OwnersOf, Has
<1>4. /\ \A i, j \in Having : i = j
      /\ \A i \in Having : own[a] # "raw" /\ shares[a] = 0 /\ obj[a] # "none"
      /\ own[a] = "raw" => shares[a] = 0 /\ obj[a] # "none"
      /\ shares[a] > 0 => obj[a] # "none"
      /\ obj[a] # "none" => own[a] = "raw" \/ shares[a] > 0 \/ \E i \in Insts : i \in Having
  BY DEF Sound, Solid, Sole, SoleAt, Memory
<1>5. CASE obj[a] = "none"
  BY <1>3, <1>4, <1>5
<1>6. CASE obj[a] # "none"
  <2>1. CASE own[a] = "raw"
    <3>1. OwnersOf(a) = {"raw"}
      BY <1>3, <1>4, <2>1
    <3> QED BY <1>6, <3>1
  <2>2. CASE shares[a] > 0
    <3>1. own[a] # "raw" /\ Having = {}
      BY <1>4, <2>2
    <3>2. OwnersOf(a) = {"shared"}
      BY <1>3, <2>2, <3>1
    <3> QED BY <1>6, <3>2
  <2>3. CASE \E i \in Insts : i \in Having
    <3>1. PICK i \in Insts : i \in Having
      BY <2>3
    <3>2. own[a] # "raw" /\ ~(shares[a] > 0) /\ Having = {i}
      BY <1>4, <3>1
    <3>3. OwnersOf(a) = {i}
      BY <1>3, <3>2
    <3> QED BY <1>6, <3>3
  <2> QED BY <1>4, <1>6, <2>1, <2>2, <2>3
<1> QED BY <1>5, <1>6

LEMMA SoundOneOwner ==
  ASSUME Sound, NEW a \in Addrs
  PROVE  OneOwner(a)
BY SoundOwners DEF OneOwner

\* A step in which nobody comes to own an object.
LEMMA OwnersStay ==
  ASSUME Sound, UNCHANGED <<inst, inflight, shares, frames>>, \A a \in Addrs : own'[a] = "raw" => own[a] = "raw"
  PROVE  \A a \in Addrs : OneOwner(a)'
<1>1. ASSUME NEW a \in Addrs PROVE OneOwner(a)'
  <2>1. PICK x : OwnersOf(a) \subseteq {x}
    BY SoundOneOwner DEF OneOwner
  <2>2. (OwnersOf(a))' \subseteq OwnersOf(a)
    BY DEF OwnersOf, Dying
  <2>3. (OwnersOf(a))' \subseteq {x}
    BY <2>1, <2>2
  <2> QED BY <2>3 DEF OneOwner
<1> QED BY <1>1

\* An instance takes what C++ owned, or nobody.
LEMMA OwnerTakes ==
  ASSUME Sound, NEW i \in Insts, NEW a \in Addrs, OwnersOf(a) \subseteq {"raw"},
         inst'[i].ptr = a, \A j \in Insts : j # i => inst'[j] = inst[j],
         own'[a] # "raw", \A b \in Addrs : b # a => own'[b] = own[b],
         UNCHANGED <<inflight, shares, frames>>
  PROVE  \A b \in Addrs : OneOwner(b)'
<1>1. ASSUME NEW b \in Addrs, b # a PROVE OneOwner(b)'
  <2>1. PICK x : OwnersOf(b) \subseteq {x}
    BY SoundOneOwner DEF OneOwner
  <2>2. \A j \in Insts : inst'[j].ptr = b => inst'[j] = inst[j]
    BY <1>1
  <2>3. (OwnersOf(b))' \subseteq OwnersOf(b)
    BY <1>1, <2>2 DEF OwnersOf, Dying
  <2>4. (OwnersOf(b))' \subseteq {x}
    BY <2>1, <2>3
  <2> QED BY <2>4 DEF OneOwner
<1>2. OneOwner(a)'
  <2>1. ASSUME NEW j \in Insts, j # i PROVE j \notin (OwnersOf(a))'
    <3>1. j \notin OwnersOf(a) /\ j \notin {"raw", "shared"}
      BY InstsAssumption
    <3> QED BY <2>1, <3>1 DEF OwnersOf, Dying
  <2>2. ~(shares[a] > 0)
    BY DEF OwnersOf
  <2>3. (OwnersOf(a))' \subseteq {i}
    BY <2>1, <2>2 DEF OwnersOf
  <2> QED BY <2>3 DEF OneOwner
<1> QED BY <1>1, <1>2

LEMMA NewAt ==
  ASSUME Sound, NEW i \in Insts, NEW a \in Addrs, NEW T, inst_new_ext(i, a, T, TRUE, TRUE),
         OwnersOf(a) \subseteq {"raw"}, own'[a] # "raw", \A b \in Addrs : b # a => own'[b] = own[b],
         UNCHANGED <<inflight, shares, frames>>
  PROVE  \A b \in Addrs : OneOwner(b)'
<1>1. inst'[i].ptr = a /\ \A j \in Insts : j # i => inst'[j] = inst[j]
  BY DEF inst_new_ext, GiveNew, Sound, Shape
<1> QED BY <1>1, OwnerTakes

LEMMA RawAlone ==
  ASSUME Sound, NEW a \in Addrs, own[a] = "raw"
  PROVE  OwnersOf(a) \subseteq {"raw"}
<1>1. PICK x : OwnersOf(a) \subseteq {x}
  BY SoundOneOwner DEF OneOwner
<1>2. "raw" \in OwnersOf(a)
  BY DEF OwnersOf
<1> QED BY <1>1, <1>2

\* Where the model ends, but with the second owner that rv_policy::none makes, no object
\* has two.
Single == stopped \notin {"no", "doubled"} => \A a \in Addrs : OneOwner(a)

LEMMA NewIntKeeps ==
  ASSUME Sound, stopped = "no", frames = <<>>,
         NEW i \in Insts, NEW T \in Types, NEW a \in Addrs, NEW made \in BOOLEAN, inst_new_int(i, T, a, made),
         UNCHANGED <<borrowed, inflight, keep, own, shares, frames>>
  PROVE  (stopped' = "no" => Sound') /\ AbortsOnlyOnStale' /\ Single'
<1>1. Free(i) /\ mem[a] = "free"
  BY DEF inst_new_int
<1>2. CASE inst_c2p[a] # <<>>
  <2>1. stopped' = "aborted" /\ UNCHANGED <<inst, mem>>
    BY <1>2 DEF inst_new_int
  <2>2. PICK s \in Seq(Insts) : s = inst_c2p[a]
    BY DEF Sound, Shape
  <2>3. PICK j \in Insts : j = s[1] /\ 1 \in DOMAIN s
    <3>1. Len(s) \in Nat \ {0} /\ DOMAIN s = 1..Len(s)
      BY <1>2, <2>2, EmptySeq
    <3>2. 1 \in DOMAIN s /\ s[1] \in Insts
      BY <3>1, ElementOfSeq
    <3> QED BY <3>2
  <2>4. inst[j].ptr = a
    BY <2>2, <2>3 DEF Sound, Table, TableAt
  <2>5. inst[j].state = "relinquished"
    BY <1>1, <2>4, StaleAt
  <2>6. \A b \in Addrs : OneOwner(b)'
    BY <2>1, OwnersStay
  <2> QED BY <1>1, <2>1, <2>4, <2>5, <2>6 DEF AbortsOnlyOnStale, Single
<1>3. CASE inst_c2p[a] = <<>>
  <2>1. PICK r \in Record :
          r = [type |-> T, ptr |-> a, internal |-> TRUE, state |-> IF made THEN "ready" ELSE "uninitialized",
               destruct |-> made, cpp_delete |-> FALSE]
    BY DEF Record
  <2>2. r.ptr = a /\ r.type # "none" /\ r.state # "none"
    BY <2>1 DEF Types
  <2>3. /\ inst' = [inst EXCEPT ![i] = r] /\ inst_c2p' = [inst_c2p EXCEPT ![a] = Append(@, i)]
        /\ held' = [held EXCEPT ![i] = 1] /\ refs' = [refs EXCEPT ![i] = 1]
        /\ mem' = [mem EXCEPT ![a] = "python"] /\ obj' = IF made THEN [obj EXCEPT ![a] = T] ELSE obj
        /\ stopped' = "no"
    BY <1>3, <2>1 DEF inst_new_int, GiveNew
  <2>4. DOMAIN inst_c2p[a] = {}
    BY <1>3
  <2>5. /\ Complete' /\ Table'
        /\ inst' \in [Insts -> Record] /\ inst_c2p' \in [Addrs -> Seq(Insts)]
        /\ inst'[i] # NoInst /\ \A j \in Insts : j # i => inst'[j] = inst[j]
    BY <1>1, <2>2, <2>3, <2>4, Listing
  <2>6. held' \in [Insts -> Nat] /\ refs' \in [Insts -> Nat] /\ Numbers' /\ Lives'
    BY <1>1, <2>3, <2>5, Counting
  <2>7. Shape'
    BY <2>3, <2>5, <2>6 DEF Sound, Shape
  <2>8. Solid'
    <3>1. \A j \in Insts : inst[j].ptr # a
      BY <2>4 DEF Sound, Table, TableAt
    <3>2. Doomed' = Doomed /\ Keeps' = Keeps
      BY SameFrames
    <3>3. NewInternal(i, T, a, made)
      BY <1>1, <2>1, <2>3, <3>1, <3>2, NothingHasIt DEF NewInternal, New
    <3> QED BY <3>3, KeptNow, NewInternalKeeps DEF Sound
  <2> QED BY <2>3, <2>5, <2>6, <2>7, <2>8 DEF Sound, AbortsOnlyOnStale, Single
<1> QED BY <1>2, <1>3

-----------------------------------------------------------------------------
(* Objects that come to Python *)

\* The invariant: what goes on until a check fails or the model ends, why a check fails, and
\* what the ends leave behind.
Owns == (stopped = "no" => Sound) /\ AbortsOnlyOnStale /\ Single

\* Another reference to an instance that is there.
LEMMA CountingAgain ==
  ASSUME Sound, NEW i \in Insts, inst[i] # NoInst, i \notin Doomed, HeldAgain(i),
         \A j \in Insts : inst'[j] = NoInst <=> inst[j] = NoInst,
         \A a \in Addrs : own'[a] = "shared" <=> own[a] = "shared",
         UNCHANGED <<borrowed, inflight, keep, frames, shares>>
  PROVE  held' \in [Insts -> Nat] /\ refs' \in [Insts -> Nat] /\ Numbers' /\ Lives'
<1>1. CASE UNCHANGED <<held, refs>>
  <2>1. Numbers' /\ Lives'
    BY <1>1, NumbersStay, LivesStay DEF Sound, Lives, Exists
  <2> QED BY <1>1, <2>1 DEF Sound, Shape
<1>2. CASE held' = [held EXCEPT ![i] = @ + 1] /\ refs' = [refs EXCEPT ![i] = @ + 1]
  <2>1. /\ held' \in [Insts -> Nat] /\ refs' \in [Insts -> Nat] /\ held'[i] = held[i] + 1 /\ refs'[i] = refs[i] + 1
        /\ \A j \in Insts : j # i => held'[j] = held[j] /\ refs'[j] = refs[j]
    BY <1>2 DEF Sound, Shape
  <2>2. Counts' = Counts /\ Doomed' = Doomed
    BY SameFrames
  <2>3. Numbers'
    <3>1. /\ held[i] \in Nat /\ Cardinality(borrowed[i]) \in Nat /\ Counts[i] \in Nat
          /\ refs[i] = held[i] + Cardinality(borrowed[i]) + Counts[i]
      BY RefsCover DEF Sound
    <3>2. refs'[i] = held'[i] + Cardinality(borrowed'[i]) + Counts'[i]
      BY <2>1, <2>2, <3>1
    <3> QED BY <2>1, <2>2, <3>2 DEF Sound, Numbers
  <2>4. Lives'
    <3>1. ASSUME NEW j \in Insts
          PROVE  /\ inst'[j] # NoInst <=> refs'[j] > 0 \/ j \in Doomed'
                 /\ j \in Doomed' => refs'[j] = 0
                 /\ refs'[j] = 0 => keep'[j] = <<>>
                 /\ inflight'[j] # "no" => inst'[j] # NoInst /\ frames' = <<>>
      <4>1. CASE j = i
        <5>1. refs'[j] > 0 /\ refs'[j] # 0
          BY <2>1, <4>1 DEF Sound, Shape
        <5> QED BY <2>2, <4>1, <5>1 DEF Sound, Lives
      <4>2. CASE j # i
        BY <2>1, <2>2, <4>2 DEF Sound, Lives, Exists
      <4> QED BY <4>1, <4>2
    <3> QED BY <3>1 DEF Sound, Lives, Exists
  <2> QED BY <2>1, <2>3, <2>4
<1> QED BY <1>1, <1>2 DEF HeldAgain

LEMMA AgainKeeps ==
  ASSUME Sound, frames = <<>>, NEW i \in Insts, inst[i].ptr \in Addrs, Again(i),
         UNCHANGED <<borrowed, inflight, keep, mem, obj, own, shares, frames>>
  PROVE  Sound'
<1>1. inst[i] # NoInst /\ i \notin Doomed
  BY There, NoneDoomed DEF Sound
<1>2. HeldAgain(i) /\ inst' = inst /\ inst_c2p' = inst_c2p
  BY DEF Again
<1>3. held' \in [Insts -> Nat] /\ refs' \in [Insts -> Nat] /\ Numbers' /\ Lives'
  BY <1>1, <1>2, CountingAgain
<1>4. Shape'
  BY <1>2, <1>3 DEF Sound, Shape
<1>5. Complete' /\ Table'
  BY <1>2, CompleteStays, TableStays DEF Sound
<1>6. Solid'
  <2>1. Doomed' = Doomed /\ Keeps' = Keeps
    BY SameFrames
  <2> QED BY <1>2, <2>1, Quiet DEF Sound
<1> QED BY <1>3, <1>4, <1>5, <1>6 DEF Sound

\* The instance that is returned in place of a new one.
LEMMA KnownAt ==
  ASSUME Sound, NEW a \in Addrs, NEW S, NEW D, Known(a, S, D) # 0, NEW i, i = inst_c2p[a][Known(a, S, D)]
  PROVE  i \in Insts /\ inst[i].ptr = a /\ inst_c2p[a] # <<>> /\ Matches(i, S, D)
<1>1. PICK n \in DOMAIN inst_c2p[a] : n = Known(a, S, D) /\ inst_c2p[a][n] \in Insts /\ Matches(inst_c2p[a][n], S, D)
  BY KnownIs DEF Sound
<1>2. inst[i].ptr = a
  BY <1>1 DEF Sound, Table, TableAt
<1>3. inst_c2p[a] # <<>>
  BY <1>1
<1> QED BY <1>1, <1>2, <1>3

\* With no instance that matches, none in the list is of the type, or derived from it.
LEMMA NoneMatches ==
  ASSUME Sound, NEW a \in Addrs, NEW S, NEW D, Known(a, S, D) = 0
  PROVE  \A k \in DOMAIN inst_c2p[a] : ~PyType_IsSubtype(inst[inst_c2p[a][k]].type, D)
<1>1. \A k \in DOMAIN inst_c2p[a] : ~Matches(inst_c2p[a][k], S, D)
  BY KnownIs DEF Sound
<1> QED BY <1>1 DEF Matches

LEMMA PutReferenceKeeps ==
  ASSUME Owns, NEW i \in Insts, NEW a \in Addrs, NEW S \in Types, NEW D \in Types, NEW rvp, PutReference(i, a, S, D, rvp)
  PROVE  Owns'
<1>1. /\ stopped = "no" /\ frames = <<>> /\ own[a] = "raw" /\ Points(a, S, D)
      /\ UNCHANGED <<borrowed, inflight, keep, mem, obj, own, shares, frames>>
  BY DEF PutReference, Running, Converting
<1>2. Sound
  BY <1>1 DEF Owns
<1>3. CASE Known(a, S, D) # 0
  <2>1. i = inst_c2p[a][Known(a, S, D)] /\ Again(i) /\ stopped' # "aborted"
    BY <1>3 DEF PutReference
  <2>2. inst[i].ptr = a
    BY <1>2, <1>3, <2>1, KnownAt
  <2>3. Sound'
    BY <1>1, <1>2, <2>1, <2>2, AgainKeeps
  <2>4. \A b \in Addrs : OneOwner(b)'
    BY <1>1, <1>2, <2>1, OwnersStay DEF Again
  <2> QED BY <2>1, <2>3, <2>4 DEF Owns, AbortsOnlyOnStale, Single
<1>4. CASE Known(a, S, D) = 0 /\ PutNone(i, a, D)
  BY <1>4 DEF PutNone, Owns, AbortsOnlyOnStale, Single
<1>5. CASE Known(a, S, D) = 0 /\ inst_new_ext(i, a, D, FALSE, FALSE) /\ UNCHANGED stopped
  <2>1. PICK r \in Record :
          r = [type |-> D, ptr |-> a, internal |-> FALSE, state |-> "ready", destruct |-> FALSE, cpp_delete |-> FALSE]
    BY DEF Record
  <2>2. r.ptr = a /\ r.type = D /\ r.type # "none" /\ r.state # "none"
    BY <2>1 DEF Types
  <2>3. /\ Free(i) /\ inst' = [inst EXCEPT ![i] = r] /\ inst_c2p' = [inst_c2p EXCEPT ![a] = Append(@, i)]
        /\ held' = [held EXCEPT ![i] = 1] /\ refs' = [refs EXCEPT ![i] = 1] /\ stopped' = "no"
    BY <1>1, <1>5, <2>1 DEF inst_new_ext, GiveNew
  <2>4. \A k \in DOMAIN inst_c2p[a] : ~PyType_IsSubtype(inst[inst_c2p[a][k]].type, r.type)
    BY <1>2, <1>5, <2>2, NoneMatches
  <2>5. /\ Complete' /\ Table'
        /\ inst' \in [Insts -> Record] /\ inst_c2p' \in [Addrs -> Seq(Insts)]
        /\ inst'[i] # NoInst /\ \A j \in Insts : j # i => inst'[j] = inst[j]
    BY <1>2, <2>2, <2>3, <2>4, Listing
  <2>6. held' \in [Insts -> Nat] /\ refs' \in [Insts -> Nat] /\ Numbers' /\ Lives'
    BY <1>1, <1>2, <2>3, <2>5, Counting
  <2>7. Shape'
    BY <1>1, <1>2, <2>5, <2>6 DEF Sound, Shape
  <2>8. Solid'
    <3>1. Doomed' = Doomed /\ Keeps' = Keeps
      BY <1>1, SameFrames
    <3>2. PyType_IsSubtype(obj[a], D) \/ (obj[a] = "Whole" /\ D = "Part")
      BY <1>1 DEF Points, PyType_IsSubtype
    <3>3. New(i, r)
      BY <1>1, <1>2, <2>3, <3>1, NothingHasIt DEF New
    <3>4. NewReference(i, a, D)
      BY <1>1, <2>1, <3>1, <3>2, <3>3 DEF NewReference
    <3> QED BY <1>2, <3>4, KeptNow, NewReferenceKeeps DEF Sound
  <2> QED BY <2>3, <2>5, <2>6, <2>7, <2>8 DEF Sound, Owns, AbortsOnlyOnStale, Single
<1>6. Known(a, S, D) = 0 => PutNone(i, a, D) \/ (inst_new_ext(i, a, D, FALSE, FALSE) /\ UNCHANGED stopped)
  BY DEF PutReference
<1> QED BY <1>3, <1>4, <1>5, <1>6

\* A new instance at an address where there is none takes an object, from C++ or as its
\* destructor makes it.
LEMMA NewExtOwns ==
  ASSUME Sound, NEW i \in Insts, NEW a \in Addrs, NEW T \in Types, inst_new_ext(i, a, T, TRUE, TRUE),
         inst_c2p[a] = <<>>, shares[a] = 0,
         mem' = [mem EXCEPT ![a] = "cpp"], obj' = [obj EXCEPT ![a] = T], own' = [own EXCEPT ![a] = "none"],
         UNCHANGED <<borrowed, inflight, keep, shares, frames>>
  PROVE  Sound'
<1>1. PICK r \in Record :
        r = [type |-> T, ptr |-> a, internal |-> FALSE, state |-> "ready", destruct |-> TRUE, cpp_delete |-> TRUE]
  BY DEF Record
<1>2. r.ptr = a /\ r.type # "none" /\ r.state # "none"
  BY <1>1 DEF Types
<1>3. /\ Free(i) /\ inst' = [inst EXCEPT ![i] = r] /\ inst_c2p' = [inst_c2p EXCEPT ![a] = Append(@, i)]
      /\ held' = [held EXCEPT ![i] = 1] /\ refs' = [refs EXCEPT ![i] = 1]
  BY <1>1 DEF inst_new_ext, GiveNew
<1>4. DOMAIN inst_c2p[a] = {}
  OBVIOUS
<1>5. /\ Complete' /\ Table'
      /\ inst' \in [Insts -> Record] /\ inst_c2p' \in [Addrs -> Seq(Insts)]
      /\ inst'[i] # NoInst /\ \A j \in Insts : j # i => inst'[j] = inst[j]
  BY <1>2, <1>3, <1>4, Listing
<1>6. own[a] # "shared" /\ \A b \in Addrs : own'[b] = "shared" <=> own[b] = "shared"
  BY DEF Sound, Solid, Memory, Shape
<1>7. held' \in [Insts -> Nat] /\ refs' \in [Insts -> Nat] /\ Numbers' /\ Lives'
  BY <1>3, <1>5, <1>6, Counting
<1>8. Shape'
  BY <1>5, <1>7 DEF Sound, Shape
<1>9. Solid'
  <2>1. \A j \in Insts : inst[j].ptr # a
    BY <1>4 DEF Sound, Table, TableAt
  <2>2. Doomed' = Doomed /\ Keeps' = Keeps
    BY SameFrames
  <2>3. New(i, r)
    BY <1>3, <2>2, NothingHasIt DEF New
  <2>4. NewOwner(i, a, T)
    BY <1>1, <2>1, <2>2, <2>3 DEF NewOwner
  <2> QED BY <2>4, KeptNow, NewOwnerKeeps DEF Sound
<1> QED BY <1>5, <1>7, <1>8, <1>9 DEF Sound

\* An object that C++ owns: its type, and that nothing else owns it.
LEMMA RawAt ==
  ASSUME Sound, NEW a \in Addrs, own[a] = "raw"
  PROVE  obj[a] \in Types /\ mem[a] = "cpp" /\ shares[a] = 0
BY DEF Sound, Shape, Solid, Memory, Sole, SoleAt

LEMMA PutOwnershipKeeps ==
  ASSUME Owns, NEW i \in Insts, NEW a \in Addrs, PutOwnership(i, a)
  PROVE  Owns'
<1>1. /\ stopped = "no" /\ own[a] = "raw" /\ Shadowed(a) /\ own' = [own EXCEPT ![a] = "none"]
      /\ UNCHANGED <<borrowed, inflight, keep, mem, obj, shares, frames>>
  BY DEF PutOwnership, Running, Converting
<1>2. Sound /\ stopped' # "aborted"
  BY <1>1 DEF Owns, Shadowed
<1>3. ASSUME inst_c2p[a] = <<>> PROVE Sound'
  <2>1. PICK T \in Types : T = obj[a] /\ mem[a] = "cpp" /\ shares[a] = 0
    BY <1>1, <1>2, RawAt
  <2>2. Known(a, T, T) = 0
    BY <1>2, <1>3, KnownAt
  <2>3. inst_new_ext(i, a, T, TRUE, TRUE)
    BY <2>1, <2>2 DEF PutOwnership
  <2>4. mem' = [mem EXCEPT ![a] = "cpp"] /\ obj' = [obj EXCEPT ![a] = T]
    BY <1>1, <1>2, <2>1 DEF Sound, Shape
  <2> QED BY <1>1, <1>2, <1>3, <2>1, <2>3, <2>4, NewExtOwns
<1>4. inst_c2p[a] # <<>> => stopped' = "shadowed"
  BY <1>1 DEF Shadowed
<1>5. \A b \in Addrs : OneOwner(b)'
  <2>1. own \in [Addrs -> {"none", "raw", "shared"}]
    BY <1>2 DEF Sound, Shape
  <2>2. own'[a] # "raw" /\ \A b \in Addrs : (b # a => own'[b] = own[b]) /\ (own'[b] = "raw" => own[b] = "raw")
    BY <1>1, <2>1
  <2>3. CASE Again(i)
    BY <1>1, <1>2, <2>2, <2>3, OwnersStay DEF Again
  <2>4. CASE \E T : inst_new_ext(i, a, T, TRUE, TRUE)
    BY <1>1, <1>2, <2>2, <2>4, RawAlone, NewAt
  <2>5. Again(i) \/ \E T : inst_new_ext(i, a, T, TRUE, TRUE)
    BY DEF PutOwnership
  <2> QED BY <2>3, <2>4, <2>5
<1> QED BY <1>2, <1>3, <1>4, <1>5 DEF Owns, AbortsOnlyOnStale, Single

LEMMA ReenterKeeps ==
  ASSUME Owns, NEW i \in Insts, NEW a \in Addrs, NEW T \in Made, Reenter(i, a, T)
  PROVE  Owns'
<1>1. /\ stopped = "no" /\ mem[a] = "free" /\ Shadowed(a)
      /\ mem' = [mem EXCEPT ![a] = "cpp"] /\ obj' = [obj EXCEPT ![a] = T]
      /\ UNCHANGED <<borrowed, inflight, keep, own, shares, frames>>
  BY DEF Reenter
<1>2. Sound /\ stopped' # "aborted" /\ T \in Types
  BY <1>1, PlacesAssumption DEF Owns, Shadowed
<1>3. ASSUME inst_c2p[a] = <<>> PROVE Sound'
  <2>1. Known(a, T, T) = 0
    BY <1>2, <1>3, KnownAt
  <2>2. inst_new_ext(i, a, T, TRUE, TRUE)
    BY <2>1 DEF Reenter
  <2>3. shares[a] = 0 /\ own[a] = "none"
    BY <1>1, <1>2 DEF Sound, Solid, Memory, Shape
  <2>4. own' = [own EXCEPT ![a] = "none"]
    BY <1>1, <1>2, <2>3 DEF Sound, Shape
  <2> QED BY <1>1, <1>2, <1>3, <2>2, <2>3, <2>4, NewExtOwns
<1>4. inst_c2p[a] # <<>> => stopped' = "shadowed"
  BY <1>1 DEF Shadowed
<1>5. \A b \in Addrs : OneOwner(b)'
  <2>1. OwnersOf(a) \subseteq {"raw"} /\ own'[a] # "raw"
    <3>1. obj[a] = "none" /\ own[a] = "none"
      BY <1>1, <1>2 DEF Sound, Solid, Memory, Shape
    <3> QED BY <1>1, <1>2, <3>1, SoundOwners
  <2>2. CASE Again(i)
    BY <1>1, <1>2, <2>2, OwnersStay DEF Again
  <2>3. CASE inst_new_ext(i, a, T, TRUE, TRUE)
    BY <1>1, <1>2, <2>1, <2>3, NewAt
  <2>4. Again(i) \/ inst_new_ext(i, a, T, TRUE, TRUE)
    BY DEF Reenter
  <2> QED BY <2>2, <2>3, <2>4
<1> QED BY <1>2, <1>3, <1>4, <1>5 DEF Owns, AbortsOnlyOnStale, Single

\* An instance of an object that C++ owns was relinquished, or is in use.
LEMMA UsedOrGiven ==
  ASSUME Sound, frames = <<>>, NEW a \in Addrs, own[a] = "raw", NEW i \in Insts, inst[i].ptr = a
  PROVE  InUse(i) => UsedAt(a) # {}
<1>1. i \notin Doomed
  BY NoneDoomed
<1>2. ~inst[i].destruct
  BY <1>1 DEF Sound, Solid, Sole, SoleAt, Has
<1>3. ~inst[i].cpp_delete
  BY <1>2 DEF Sound, Solid, Fields, FieldsOf
<1>4. inst[i].state # "uninitialized"
  BY DEF Sound, Solid, Fields, FieldsOf, Memory
<1>5. inst[i].state # "none"
  BY There DEF Sound
<1>6. inst[i].state = "ready" => i \in ReadyAt(a)
  BY DEF ReadyAt, Dying
<1>7. inst[i].state \in {"none", "uninitialized", "ready", "relinquished"}
  BY DEF Sound, Shape, Record
<1> QED BY <1>2, <1>3, <1>4, <1>5, <1>6, <1>7 DEF InUse, UsedAt

LEMMA PutUniqueKeeps ==
  ASSUME Owns, NEW i \in Insts, NEW a \in Addrs, PutUnique(i, a)
  PROVE  Owns'
<1>1. /\ stopped = "no" /\ frames = <<>> /\ own[a] = "raw"
      /\ UNCHANGED <<borrowed, inflight, keep, mem, obj, shares, frames>>
  BY DEF PutUnique, Running, Converting
<1>2. Sound
  BY <1>1 DEF Owns
<1>3. PICK T \in Types : T = obj[a] /\ mem[a] = "cpp" /\ shares[a] = 0
  BY <1>1, <1>2, RawAt
<1>4. CASE Known(a, T, T) # 0
  <2>1. i = inst_c2p[a][Known(a, T, T)] /\ HeldAgain(i) /\ UNCHANGED inst_c2p
    BY <1>3, <1>4 DEF PutUnique
  <2>2. inst[i].ptr = a
    BY <1>2, <1>4, <2>1, KnownAt
  <2>3. CASE InUse(i)
    <3>1. stopped' = "aborted" /\ UNCHANGED <<inst, own>>
      BY <1>3, <1>4, <2>3 DEF PutUnique
    <3>2. UsedAt(a) # {}
      BY <1>1, <1>2, <2>2, <2>3, UsedOrGiven
    <3>3. UsedAt(a)' = UsedAt(a)
      BY <1>1, <3>1 DEF UsedAt, ReadyAt, Dying
    <3>4. \A b \in Addrs : OneOwner(b)'
      BY <1>1, <1>2, <3>1, OwnersStay
    <3> QED BY <1>1, <3>1, <3>2, <3>3, <3>4 DEF Owns, AbortsOnlyOnStale, Single
  <2>4. CASE ~InUse(i)
    <3>1. /\ stopped' = IF inst[i].type # T \/ UsedAt(a) # {} THEN "shadowed" ELSE "no"
          /\ inst' = [inst EXCEPT ![i].state = "ready", ![i].destruct = TRUE, ![i].cpp_delete = TRUE]
          /\ own' = [own EXCEPT ![a] = "none"]
      BY <1>3, <1>4, <2>4 DEF PutUnique
    <3>2. ASSUME stopped' = "no" PROVE Sound'
      <4>1. inst[i].type = T /\ UsedAt(a) = {} /\ inst[i].state = "relinquished"
        BY <2>4, <3>1, <3>2 DEF InUse
      <4>2. inst[i] # NoInst /\ i \notin Doomed /\ Doomed = {}
        BY <1>1, <1>2, <2>2, There, NoneDoomed DEF Sound
      <4>3. PICK r \in Record : r = [inst[i] EXCEPT !.state = "ready", !.destruct = TRUE, !.cpp_delete = TRUE]
        <5>1. inst \in [Insts -> Record]
          BY <1>2 DEF Sound, Shape
        <5> QED BY <5>1 DEF Record
      <4>4. inst' = [inst EXCEPT ![i] = r]
        BY <1>2, <3>1, <4>3 DEF Sound, Shape, Record
      <4>5. r.state = "ready" /\ r.type = inst[i].type /\ r.ptr = inst[i].ptr
        BY <1>2, <4>3 DEF Sound, Shape, Record
      <4>6. /\ inst' \in [Insts -> Record] /\ \A j \in Insts : j # i => inst'[j] = inst[j]
            /\ inst'[i].type = inst[i].type /\ inst'[i].ptr = inst[i].ptr /\ inst'[i].state # "none"
        BY <1>2, <4>4, <4>5 DEF Sound, Shape
      <4>7. Complete' /\ Table' /\ \A j \in Insts : inst'[j] = NoInst <=> inst[j] = NoInst
        BY <1>2, <2>1, <4>2, <4>6, FieldsChange
      <4>8. own' \in [Addrs -> {"none", "raw", "shared"}] /\ \A b \in Addrs : own'[b] = "shared" <=> own[b] = "shared"
        BY <1>1, <1>2, <3>1 DEF Sound, Shape
      <4>9. held' \in [Insts -> Nat] /\ refs' \in [Insts -> Nat] /\ Numbers' /\ Lives'
        BY <1>1, <1>2, <2>1, <4>2, <4>7, <4>8, CountingAgain
      <4>10. Shape'
        BY <1>1, <1>2, <2>1, <4>6, <4>8, <4>9 DEF Sound, Shape
      <4>11. Solid'
        <5>1. Doomed' = Doomed /\ Keeps' = Keeps
          BY <1>1, SameFrames
        <5>2. TakesBack(i)
          BY <1>1, <1>3, <2>2, <3>1, <4>1, <4>2, <5>1 DEF TakesBack
        <5> QED BY <1>2, <5>2, KeptNow, ReturningKeeps DEF Sound
      <4> QED BY <4>7, <4>9, <4>10, <4>11 DEF Sound
    <3>3. stopped' # "aborted"
      BY <3>1
    <3>4. \A b \in Addrs : OneOwner(b)'
      <4>1. inst \in [Insts -> Record] /\ own \in [Addrs -> {"none", "raw", "shared"}]
        BY <1>2 DEF Sound, Shape
      <4>2. own'[a] # "raw" /\ \A b \in Addrs : b # a => own'[b] = own[b]
        BY <3>1, <4>1
      <4>3. inst'[i].ptr = a /\ \A j \in Insts : j # i => inst'[j] = inst[j]
        BY <2>2, <3>1, <4>1 DEF Record
      <4> QED BY <1>1, <1>2, <4>2, <4>3, RawAlone, OwnerTakes
    <3> QED BY <3>2, <3>3, <3>4 DEF Owns, AbortsOnlyOnStale, Single
  <2> QED BY <2>3, <2>4
<1>5. CASE Known(a, T, T) = 0
  <2>1. inst_new_ext(i, a, T, TRUE, TRUE) /\ Shadowed(a) /\ own' = [own EXCEPT ![a] = "none"]
    BY <1>3, <1>5 DEF PutUnique
  <2>2. ASSUME inst_c2p[a] = <<>> PROVE Sound'
    <3>1. mem' = [mem EXCEPT ![a] = "cpp"] /\ obj' = [obj EXCEPT ![a] = T]
      BY <1>1, <1>2, <1>3 DEF Sound, Shape
    <3> QED BY <1>1, <1>2, <1>3, <2>1, <2>2, <3>1, NewExtOwns
  <2>3. (inst_c2p[a] # <<>> => stopped' = "shadowed") /\ stopped' # "aborted"
    BY <2>1 DEF Shadowed
  <2>4. \A b \in Addrs : OneOwner(b)'
    <3>1. own'[a] # "raw" /\ \A b \in Addrs : b # a => own'[b] = own[b]
      BY <1>2, <2>1 DEF Sound, Shape
    <3> QED BY <1>1, <1>2, <2>1, <3>1, RawAlone, NewAt
  <2> QED BY <2>2, <2>3, <2>4 DEF Owns, AbortsOnlyOnStale, Single
<1> QED BY <1>4, <1>5

LEMMA ConstructKeeps ==
  ASSUME Owns, NEW i \in Insts, NEW T \in Constructible, NEW a \in Addrs, NEW made \in BOOLEAN, Construct(i, T, a, made)
  PROVE  Owns'
<1>1. /\ stopped = "no" /\ frames = <<>> /\ inst_new_int(i, T, a, made)
      /\ UNCHANGED <<borrowed, inflight, keep, own, shares, frames>>
  BY DEF Construct, Running, Converting
<1>2. Sound /\ T \in Types
  BY <1>1, PlacesAssumption DEF Owns
<1> QED BY <1>1, <1>2, NewIntKeeps DEF Owns

LEMMA PutCopyKeeps ==
  ASSUME Owns, NEW i \in Insts, NEW a \in Addrs, NEW b \in Addrs, NEW T \in Types, PutCopy(i, a, b, T)
  PROVE  Owns'
<1>1. /\ stopped = "no" /\ frames = <<>> /\ inst_new_int(i, T, b, TRUE)
      /\ UNCHANGED <<borrowed, inflight, keep, own, shares, frames>>
  BY DEF PutCopy, Running, Converting
<1>2. Sound /\ TRUE \in BOOLEAN
  BY <1>1 DEF Owns
<1> QED BY <1>1, <1>2, NewIntKeeps DEF Owns

\* The counts with a new instance, that Python has, and that keeps something.
LEMMA CountingKept ==
  ASSUME Sound, NEW i \in Insts, Free(i), NEW y \in Items, y # i,
         held' \in [Insts -> Nat], held'[i] = 1, \A j \in Insts : j # i => held'[j] = held[j],
         refs' \in [Insts -> Nat], refs'[i] = 1,
         \A j \in Insts : j # i => refs'[j] = refs[j] + (IF j = y THEN 1 ELSE 0),
         \A b \in Addrs : shares'[b] = shares[b] + (IF b = y THEN 1 ELSE 0),
         \A x \in Items : Counts'[x] = Counts[x] + (IF x = y THEN 1 ELSE 0),
         y \in Insts => refs[y] # 0,
         \A j \in Insts : j # i => keep'[j] = keep[j],
         inst'[i] # NoInst, \A j \in Insts : j # i => inst'[j] = inst[j],
         UNCHANGED <<borrowed, inflight, own, frames>>
  PROVE  Numbers' /\ Lives'
<1>1. /\ inst[i] = NoInst /\ refs[i] = 0 /\ held[i] = 0 /\ borrowed[i] = {} /\ Counts[i] = 0
      /\ i \notin Doomed /\ inflight[i] = "no" /\ keep[i] = <<>>
  BY NothingHasIt
<1>2. Doomed' = Doomed /\ Counts \in [Items -> Nat]
  BY CountsInNat DEF Doomed, Sound
<1>3. ASSUME NEW j \in Insts PROVE refs'[j] = held'[j] + Cardinality(borrowed'[j]) + Counts'[j]
  <2>1. /\ held[j] \in Nat /\ Cardinality(borrowed[j]) \in Nat /\ Counts[j] \in Nat
        /\ refs[j] = held[j] + Cardinality(borrowed[j]) + Counts[j]
    BY RefsCover DEF Sound
  <2>2. j \in Items /\ Counts'[j] = Counts[j] + (IF j = y THEN 1 ELSE 0)
    BY DEF Items
  <2>3. CASE j = i
    <3>1. Cardinality(borrowed'[j]) = 0
      BY <1>1, <2>3, FS_EmptySet
    <3>2. Counts'[j] = 0
      BY <1>1, <2>2, <2>3
    <3> QED BY <2>3, <3>1, <3>2
  <2>4. CASE j # i /\ j = y
    <3>1. refs'[j] = refs[j] + 1 /\ held'[j] = held[j] /\ borrowed'[j] = borrowed[j] /\ Counts'[j] = Counts[j] + 1
      BY <2>2, <2>4
    <3> QED BY <2>1, <3>1
  <2>5. CASE j # i /\ j # y
    <3>1. refs'[j] = refs[j] + 0 /\ held'[j] = held[j] /\ borrowed'[j] = borrowed[j] /\ Counts'[j] = Counts[j] + 0
      BY <2>2, <2>5
    <3> QED BY <2>1, <3>1
  <2> QED BY <2>3, <2>4, <2>5
<1>4. ASSUME NEW b \in Addrs PROVE shares'[b] = Counts'[b] + (IF own'[b] = "shared" THEN 1 ELSE 0)
  <2>1. b \in Items /\ Counts[b] \in Nat /\ shares[b] \in Nat
    BY <1>2 DEF Items, Sound, Shape
  <2>2. shares[b] = Counts[b] + (IF own[b] = "shared" THEN 1 ELSE 0)
    BY DEF Sound, Numbers
  <2>3. Counts'[b] = Counts[b] + (IF b = y THEN 1 ELSE 0) /\ shares'[b] = shares[b] + (IF b = y THEN 1 ELSE 0)
    BY <2>1
  <2> QED BY <2>1, <2>2, <2>3
<1>5. ASSUME NEW j \in Insts
      PROVE  /\ inst'[j] # NoInst <=> refs'[j] > 0 \/ j \in Doomed'
             /\ j \in Doomed' => refs'[j] = 0
             /\ refs'[j] = 0 => keep'[j] = <<>>
             /\ inflight'[j] # "no" => inst'[j] # NoInst /\ frames' = <<>>
  <2>1. refs[j] \in Nat
    BY DEF Sound, Shape
  <2>2. CASE j = i
    <3>1. refs'[j] > 0 /\ refs'[j] # 0 /\ inst'[j] # NoInst /\ inflight'[j] = "no"
      BY <1>1, <2>2
    <3> QED BY <1>1, <1>2, <2>2, <3>1
  <2>3. CASE j # i /\ j # y
    <3>1. refs'[j] = refs[j]
      BY <2>1, <2>3
    <3> QED BY <1>2, <2>3, <3>1 DEF Sound, Lives, Exists
  <2>4. CASE j # i /\ j = y
    <3>1. refs'[j] = refs[j] + 1 /\ refs[j] > 0 /\ refs'[j] > 0
      BY <2>1, <2>4
    <3>2. j \notin Doomed /\ inst[j] # NoInst
      BY <3>1 DEF Sound, Lives, Exists
    <3> QED BY <1>2, <2>1, <2>4, <3>1, <3>2 DEF Sound, Lives
  <2> QED BY <2>2, <2>3, <2>4
<1> QED BY <1>3, <1>4, <1>5 DEF Sound, Numbers, Lives, Exists

\* What an instance of a compound type holds, by itself.
LEMMA WholeHolds ==
  ASSUME Sound, frames = <<>>, NEW i \in Insts, inst[i].state = "ready", inst[i].type = "Whole"
  PROVE  inst[i].ptr \in Addrs /\ obj[inst[i].ptr] = "Whole" /\ Holds(i)
<1>1. AliveOf(i)
  BY NoneDoomed DEF Sound, Solid, Alive, InUseNow
<1>2. inst[i].ptr \in Addrs
  BY <1>1 DEF AliveOf, Sound, Shape, Record
<1>3. obj[inst[i].ptr] = "Whole"
  BY <1>1 DEF AliveOf, Fits, PyType_IsSubtype
<1>4. Holds(i)
  BY <1>1 DEF AliveOf, Rooted
<1> QED BY <1>2, <1>3, <1>4
\* The instance of a member keeps that of the object.
LEMMA PutFieldKeeps ==
  ASSUME Owns, NEW i \in Insts, NEW self \in Insts, PutField(i, self)
  PROVE  Owns'
<1>1. /\ stopped = "no" /\ stopped' = "no" /\ frames = <<>> /\ held[self] > 0
      /\ inst[self].state = "ready" /\ inst[self].type = "Whole"
      /\ UNCHANGED <<borrowed, inflight, mem, obj, own, shares, frames>>
  BY DEF PutField, Running, Converting
<1>2. Sound
  BY <1>1 DEF Owns
<1>3. PICK a \in Addrs : a = inst[self].ptr /\ obj[a] = "Whole" /\ Holds(self)
  BY <1>1, <1>2, WholeHolds
<1>4. CASE Known(a, "Part", "Part") # 0
  <2>1. i = inst_c2p[a][Known(a, "Part", "Part")] /\ Again(i) /\ UNCHANGED keep
    BY <1>3, <1>4 DEF PutField
  <2>2. inst[i].ptr = a
    BY <1>2, <1>4, <2>1, KnownAt
  <2>3. Sound'
    BY <1>1, <1>2, <2>1, <2>2, AgainKeeps
  <2> QED BY <1>1, <2>3 DEF Owns, AbortsOnlyOnStale, Single
<1>5. CASE Known(a, "Part", "Part") = 0
  <2>1. PICK r \in Record :
          r = [type |-> "Part", ptr |-> a, internal |-> FALSE, state |-> "ready", destruct |-> FALSE, cpp_delete |-> FALSE]
    BY DEF Record, Types
  <2>2. r.ptr = a /\ r.type = "Part" /\ r.type # "none" /\ r.state # "none"
    BY <2>1
  <2>3. /\ Free(i) /\ inst' = [inst EXCEPT ![i] = r] /\ inst_c2p' = [inst_c2p EXCEPT ![a] = Append(@, i)]
        /\ keep' = [keep EXCEPT ![i] = <<self>>] /\ held' = [held EXCEPT ![i] = 1]
        /\ refs' = [refs EXCEPT ![i] = 1, ![self] = @ + Len(<<self>>)]
    BY <1>3, <1>5, <2>1 DEF PutField, KeptByField
  <2>4. /\ inst[i] = NoInst /\ refs[i] = 0 /\ held[i] = 0 /\ borrowed[i] = {} /\ Counts[i] = 0
        /\ i \notin Doomed /\ inflight[i] = "no" /\ keep[i] = <<>>
    BY <1>2, <2>3, NothingHasIt
  <2>5. PICK y \in Items : y = self /\ y # i /\ refs[y] # 0
    <3>1. self # i
      BY <1>1, <2>4 DEF NoInst
    <3>2. refs[self] # 0
      BY <1>1, <1>2, RefsCover DEF Sound
    <3> QED BY <3>1, <3>2 DEF Items
  <2>6. \A k \in DOMAIN inst_c2p[a] : ~PyType_IsSubtype(inst[inst_c2p[a][k]].type, r.type)
    BY <1>2, <1>5, <2>2, NoneMatches
  <2>7. /\ Complete' /\ Table'
        /\ inst' \in [Insts -> Record] /\ inst_c2p' \in [Addrs -> Seq(Insts)]
        /\ inst'[i] # NoInst /\ \A j \in Insts : j # i => inst'[j] = inst[j]
    BY <1>2, <2>2, <2>3, <2>6, Listing
  <2>8. /\ keep' \in Keepings /\ Doomed' = Doomed /\ Keeps' = Keeps \cup {<<i, y>>}
        /\ \A x \in Items : Counts'[x] = Counts[x] + (IF x = y THEN 1 ELSE 0)
    <3>1. PICK w : w = Append(keep[i], y)
      OBVIOUS
    <3>2. keep' = [keep EXCEPT ![i] = w] /\ frames' = frames /\ Shape
      BY <1>1, <1>2, <2>3, <2>4, <2>5, <3>1 DEF Sound
    <3> QED BY <3>1, <3>2, KeepGrows
  <2>9. /\ held' \in [Insts -> Nat] /\ held'[i] = 1 /\ \A j \in Insts : j # i => held'[j] = held[j]
    BY <1>2, <2>3 DEF Sound, Shape
  <2>10. /\ refs' \in [Insts -> Nat] /\ refs'[i] = 1
         /\ \A j \in Insts : j # i => refs'[j] = refs[j] + (IF j = y THEN 1 ELSE 0)
    <3>1. Len(<<self>>) = 1
      OBVIOUS
    <3>2. refs' = [refs EXCEPT ![i] = 1, ![self] = @ + 1] /\ refs \in [Insts -> Nat]
      BY <1>2, <2>3, <3>1 DEF Sound, Shape
    <3> QED BY <2>5, <3>2
  <2>11. \A b \in Addrs : shares'[b] = shares[b] + (IF b = y THEN 1 ELSE 0)
    <3>1. \A b \in Addrs : b # y /\ shares[b] \in Nat
      BY <1>2, <2>5, InstsAssumption DEF Sound, Shape
    <3> QED BY <1>1, <3>1
  <2>12. \A j \in Insts : j # i => keep'[j] = keep[j]
    BY <1>2, <2>3 DEF Sound, Shape, Keepings
  <2>13. Numbers' /\ Lives'
    <3>1. Free(i) /\ UNCHANGED <<borrowed, inflight, own, frames>>
      BY <1>1, <2>3
    <3> QED BY <1>2, <2>5, <2>7, <2>8, <2>9, <2>10, <2>11, <2>12, <3>1, CountingKept
  <2>14. Shape'
    BY <1>1, <1>2, <2>7, <2>8, <2>9, <2>10 DEF Sound, Shape
  <2>15. Solid'
    <3>1. New(i, r)
      BY <1>1, <2>3, <2>4, <2>8 DEF New
    <3>2. NewReference(i, a, "Part")
      BY <1>1, <1>3, <2>1, <2>5, <2>8, <3>1 DEF NewReference
    <3>3. "Part" \in Types
      BY DEF Types
    <3> QED BY <1>2, <3>2, <3>3, KeptNow, NewReferenceKeeps DEF Sound
  <2> QED BY <1>1, <2>7, <2>13, <2>14, <2>15 DEF Sound, Owns, AbortsOnlyOnStale, Single
<1> QED BY <1>4, <1>5

\* The new instance keeps a share.
LEMMA PutSharedKeeps ==
  ASSUME Owns, NEW i \in Insts, NEW a \in Addrs, NEW S \in Types, NEW D \in Types, PutShared(i, a, S, D)
  PROVE  Owns'
<1>1. /\ stopped = "no" /\ frames = <<>> /\ own[a] = "shared" /\ Points(a, S, D)
      /\ UNCHANGED <<borrowed, inflight, mem, obj, own, frames>>
  BY DEF PutShared, Running, Converting
<1>2. Sound
  BY <1>1 DEF Owns
<1>3. CASE Known(a, S, D) # 0
  <2>1. i = inst_c2p[a][Known(a, S, D)] /\ Again(i) /\ UNCHANGED <<keep, shares>> /\ stopped' # "aborted"
    BY <1>3 DEF PutShared
  <2>2. inst[i].ptr = a
    BY <1>2, <1>3, <2>1, KnownAt
  <2>3. Sound'
    BY <1>1, <1>2, <2>1, <2>2, AgainKeeps
  <2>4. \A b \in Addrs : OneOwner(b)'
    BY <1>1, <1>2, <2>1, OwnersStay DEF Again
  <2> QED BY <2>1, <2>3, <2>4 DEF Owns, AbortsOnlyOnStale, Single
<1>4. CASE Known(a, S, D) = 0
  <2>1. PICK r \in Record :
          r = [type |-> D, ptr |-> a, internal |-> FALSE, state |-> "ready", destruct |-> FALSE, cpp_delete |-> FALSE]
    BY DEF Record
  <2>2. r.ptr = a /\ r.type = D /\ r.type # "none" /\ r.state # "none"
    BY <2>1 DEF Types
  <2>3. /\ Free(i) /\ inst' = [inst EXCEPT ![i] = r] /\ inst_c2p' = [inst_c2p EXCEPT ![a] = Append(@, i)]
        /\ held' = [held EXCEPT ![i] = 1] /\ refs' = [refs EXCEPT ![i] = 1] /\ stopped' = "no"
        /\ keep' = [keep EXCEPT ![i] = <<a>> \o keep[i]] /\ shares' = [shares EXCEPT ![a] = @ + 1]
    BY <1>1, <1>4, <2>1 DEF PutShared, KeptShare, inst_new_ext, GiveNew
  <2>4. /\ inst[i] = NoInst /\ refs[i] = 0 /\ held[i] = 0 /\ borrowed[i] = {} /\ Counts[i] = 0
        /\ i \notin Doomed /\ inflight[i] = "no" /\ keep[i] = <<>>
    BY <1>2, <2>3, NothingHasIt
  <2>5. PICK y \in Items : y = a /\ y # i /\ y \notin Insts
    BY InstsAssumption DEF Items
  <2>6. \A k \in DOMAIN inst_c2p[a] : ~PyType_IsSubtype(inst[inst_c2p[a][k]].type, r.type)
    BY <1>2, <1>4, <2>2, NoneMatches
  <2>7. /\ Complete' /\ Table'
        /\ inst' \in [Insts -> Record] /\ inst_c2p' \in [Addrs -> Seq(Insts)]
        /\ inst'[i] # NoInst /\ \A j \in Insts : j # i => inst'[j] = inst[j]
    BY <1>2, <2>2, <2>3, <2>6, Listing
  <2>8. /\ keep' \in Keepings /\ Doomed' = Doomed /\ Keeps' = Keeps \cup {<<i, y>>}
        /\ \A x \in Items : Counts'[x] = Counts[x] + (IF x = y THEN 1 ELSE 0)
    <3>1. PICK w : w = Append(keep[i], y)
      OBVIOUS
    <3>2. w = <<a>> \o keep[i]
      BY <2>4, <2>5, <3>1
    <3>3. keep' = [keep EXCEPT ![i] = w] /\ frames' = frames /\ Shape
      BY <1>1, <1>2, <2>3, <3>2 DEF Sound
    <3> QED BY <3>1, <3>3, KeepGrows
  <2>9. /\ held' \in [Insts -> Nat] /\ held'[i] = 1 /\ \A j \in Insts : j # i => held'[j] = held[j]
    BY <1>2, <2>3 DEF Sound, Shape
  <2>10. /\ refs' \in [Insts -> Nat] /\ refs'[i] = 1
         /\ \A j \in Insts : j # i => refs'[j] = refs[j] + (IF j = y THEN 1 ELSE 0)
    BY <1>2, <2>3, <2>5 DEF Sound, Shape
  <2>11. /\ shares' \in [Addrs -> Nat]
         /\ \A b \in Addrs : shares'[b] = shares[b] + (IF b = y THEN 1 ELSE 0)
    BY <1>2, <2>3, <2>5 DEF Sound, Shape
  <2>12. \A j \in Insts : j # i => keep'[j] = keep[j]
    BY <1>2, <2>3 DEF Sound, Shape, Keepings
  <2>13. Numbers' /\ Lives'
    <3>1. Free(i) /\ UNCHANGED <<borrowed, inflight, own, frames>>
      BY <1>1, <2>3
    <3>2. \A b \in Addrs : shares'[b] = shares[b] + (IF b = y THEN 1 ELSE 0)
      BY <2>11
    <3>3. y # i /\ (y \in Insts => refs[y] # 0)
      BY <2>5
    <3> QED BY <1>2, <2>7, <2>8, <2>9, <2>10, <2>12, <3>1, <3>2, <3>3, CountingKept
  <2>14. Shape'
    BY <1>1, <1>2, <2>7, <2>8, <2>9, <2>10, <2>11 DEF Sound, Shape
  <2>15. Solid'
    <3>1. New(i, r)
      BY <1>1, <2>3, <2>4, <2>8 DEF New
    <3>2. shares[a] > 0
      BY <1>1, <1>2 DEF Sound, Solid, Memory
    <3>3. PyType_IsSubtype(obj[a], D) \/ (obj[a] = "Whole" /\ D = "Part")
      BY <1>1 DEF Points, PyType_IsSubtype
    <3>4. NewReference(i, a, D)
      BY <1>1, <2>1, <2>3, <2>5, <2>8, <3>1, <3>2, <3>3 DEF NewReference
    <3> QED BY <1>2, <3>4, KeptNow, NewReferenceKeeps DEF Sound
  <2> QED BY <2>3, <2>7, <2>13, <2>14, <2>15 DEF Sound, Owns, AbortsOnlyOnStale, Single
<1> QED BY <1>3, <1>4

\* An instance is the first of its list that is of its type, or derived from it.
LEMMA FindsItself ==
  ASSUME Sound, NEW i \in Insts, NEW a \in Addrs, inst[i].ptr = a, NEW T, T = inst[i].type
  PROVE  Known(a, T, T) # 0 /\ inst_c2p[a][Known(a, T, T)] = i
<1>1. PICK s \in Seq(Insts) : s = inst_c2p[a]
  BY DEF Sound, Shape
<1>2. DOMAIN s = 1..Len(s) /\ Len(s) \in Nat
  OBVIOUS
<1>3. PICK k \in DOMAIN s : s[k] = i
  BY <1>1 DEF Sound, Table, TableAt
<1>4. Matches(i, T, T)
  BY DEF Matches, PyType_IsSubtype
<1>5. PICK n : n = Known(a, T, T)
  OBVIOUS
<1>6. n # 0
  BY <1>1, <1>3, <1>4, <1>5, KnownIs DEF Sound
<1>7. n \in DOMAIN s /\ Matches(s[n], T, T) /\ ~(k < n)
  BY <1>1, <1>3, <1>4, <1>5, <1>6, KnownIs DEF Sound
<1>8. ~(n < k)
  <2>1. PyType_IsSubtype(inst[s[n]].type, inst[s[k]].type)
    BY <1>3, <1>7 DEF Matches
  <2> QED BY <1>1, <1>3, <1>7, <2>1 DEF Sound, Table, TableAt
<1>9. n = k
  BY <1>2, <1>3, <1>7, <1>8
<1> QED BY <1>1, <1>3, <1>5, <1>6, <1>9

\* The object returns to the instance, and the deleter gives up its reference.
LEMMA PutDeleterKeeps ==
  ASSUME Owns, NEW i \in Insts, NEW j \in Insts, PutDeleter(i, j)
  PROVE  Owns'
<1>1. /\ stopped = "no" /\ frames = <<>> /\ "deleter" \in borrowed[i] /\ \A k \in Insts : inflight[k] = "no"
      /\ borrowed' = [borrowed EXCEPT ![i] = @ \ {"deleter"}]
      /\ UNCHANGED <<inflight, inst_c2p, own, shares>>
  BY DEF PutDeleter, Running, Converting
<1>2. Sound
  BY <1>1 DEF Owns
<1>3. inst[i].state = "relinquished"
  BY <1>1, <1>2 DEF Sound, Solid, Fields, FieldsOf
<1>4. PICK a \in Addrs : a = inst[i].ptr /\ inst[i] # NoInst /\ i \notin Doomed /\ Doomed = {}
  <2>1. inst[i] # NoInst
    BY <1>3 DEF NoInst
  <2> QED BY <1>1, <1>2, <2>1, There, NoneDoomed DEF Sound
<1>5. j = i
  <2>1. PICK T : T = inst[i].type
    OBVIOUS
  <2>2. j = inst_c2p[a][Known(a, T, T)]
    BY <1>4, <2>1 DEF PutDeleter
  <2> QED BY <1>2, <1>4, <2>1, <2>2, FindsItself
<1>6. stopped' = "no" /\ inst' = [inst EXCEPT ![i].state = "ready"]
  BY <1>3, <1>5 DEF PutDeleter
<1>7. PICK more \in {0, 1} :
        /\ held' = [held EXCEPT ![i] = @ + more]
        /\ refs' = [refs EXCEPT ![i] = @ + more, ![i] = @ - 1]
  BY <1>5 DEF PutDeleter
<1>8. IF refs'[i] = 0 THEN Dealloc(i, <<>>) ELSE UNCHANGED <<frames, keep, obj, mem>>
  BY DEF PutDeleter
<1>9. /\ inst' \in [Insts -> Record] /\ \A k \in Insts : k # i => inst'[k] = inst[k]
      /\ inst'[i].type = inst[i].type /\ inst'[i].ptr = a /\ inst'[i].state = "ready"
      /\ inst'[i].internal = inst[i].internal /\ inst'[i].destruct = inst[i].destruct
      /\ inst'[i].cpp_delete = inst[i].cpp_delete
  <2>1. inst \in [Insts -> Record]
    BY <1>2 DEF Sound, Shape
  <2>2. PICK r \in Record : r = [inst[i] EXCEPT !.state = "ready"]
    BY <2>1 DEF Record
  <2>3. inst' = [inst EXCEPT ![i] = r]
    BY <1>6, <2>1, <2>2 DEF Record
  <2>4. /\ r.type = inst[i].type /\ r.ptr = a /\ r.state = "ready" /\ r.internal = inst[i].internal
        /\ r.destruct = inst[i].destruct /\ r.cpp_delete = inst[i].cpp_delete
    BY <1>4, <2>1, <2>2 DEF Record
  <2> QED BY <2>1, <2>3, <2>4
<1>10. Complete' /\ Table' /\ \A k \in Insts : inst'[k] = NoInst <=> inst[k] = NoInst
  BY <1>1, <1>2, <1>4, <1>9, FieldsChange
<1>11. /\ borrowed' \in [Insts -> SUBSET {"deleter", "shared"}]
       /\ borrowed'[i] = borrowed[i] \ {"deleter"} /\ \A k \in Insts : k # i => borrowed'[k] = borrowed[k]
       /\ Cardinality(borrowed'[i]) = Cardinality(borrowed[i]) - 1
  <2>1. /\ borrowed' \in [Insts -> SUBSET {"deleter", "shared"}]
        /\ borrowed'[i] = borrowed[i] \ {"deleter"} /\ \A k \in Insts : k # i => borrowed'[k] = borrowed[k]
    BY <1>1, <1>2 DEF Sound, Shape
  <2>2. PICK B \in SUBSET {"deleter", "shared"} : B = borrowed[i]
    BY <1>2 DEF Sound, Shape
  <2>3. Cardinality(B \ {"deleter"}) = Cardinality(B) - 1
    BY <1>1, <2>2, BorrowedNumbers
  <2> QED BY <2>1, <2>2, <2>3
<1>12. /\ held[i] \in Nat /\ Cardinality(borrowed[i]) \in Nat /\ Counts[i] \in Nat /\ refs[i] \in Nat
       /\ refs[i] = held[i] + Cardinality(borrowed[i]) + Counts[i] /\ refs[i] # 0
  BY <1>1, <1>2, RefsCover DEF Sound
<1>13. /\ held' \in [Insts -> Nat] /\ held'[i] = held[i] + more /\ \A k \in Insts : k # i => held'[k] = held[k]
       /\ refs' \in [Insts -> Nat] /\ refs'[i] = (refs[i] + more) - 1 /\ \A k \in Insts : k # i => refs'[k] = refs[k]
  BY <1>2, <1>7, <1>12 DEF Sound, Shape
<1>14. ASSUME Counts' = Counts PROVE Numbers'
  <2>1. PICK x \in Nat, y \in Nat, z \in Nat : x = held[i] /\ y = Cardinality(borrowed[i]) /\ z = Counts[i]
    BY <1>12
  <2>2. refs'[i] = ((x + y + z) + more) - 1 /\ held'[i] = x + more /\ Cardinality(borrowed'[i]) = y - 1 /\ Counts'[i] = z
    BY <1>11, <1>12, <1>13, <1>14, <2>1
  <2>3. ((x + y + z) + more) - 1 = (x + more) + (y - 1) + z
    OBVIOUS
  <2>4. refs'[i] = held'[i] + Cardinality(borrowed'[i]) + Counts'[i]
    BY <2>2, <2>3
  <2> QED BY <1>1, <1>2, <1>11, <1>13, <1>14, <2>4 DEF Sound, Numbers
<1>15. CASE refs'[i] # 0
  <2>1. UNCHANGED <<frames, keep, obj, mem>>
    BY <1>8, <1>15
  <2>2. Counts' = Counts /\ Doomed' = Doomed /\ Keeps' = Keeps
    BY <2>1, SameFrames
  <2>3. Shape'
    BY <1>1, <1>2, <1>9, <1>11, <1>13, <2>1 DEF Sound, Shape
  <2>4. Lives'
    <3>1. ASSUME NEW k \in Insts
          PROVE  /\ inst'[k] # NoInst <=> refs'[k] > 0 \/ k \in Doomed'
                 /\ k \in Doomed' => refs'[k] = 0
                 /\ refs'[k] = 0 => keep'[k] = <<>>
                 /\ inflight'[k] # "no" => inst'[k] # NoInst /\ frames' = <<>>
      <4>1. CASE k = i
        <5>1. refs'[k] \in Nat /\ refs'[k] # 0
          BY <1>13, <1>15, <4>1
        <5>2. refs'[k] > 0
          BY <5>1
        <5> QED BY <1>1, <1>4, <1>10, <1>15, <2>2, <4>1, <5>2
      <4>2. CASE k # i
        BY <1>1, <1>2, <1>9, <1>13, <2>1, <2>2, <4>2 DEF Sound, Lives, Exists
      <4> QED BY <4>1, <4>2
    <3> QED BY <1>2, <2>1, <3>1 DEF Sound, Lives, Exists
  <2>5. Solid'
    <3>1. FieldsOf(i)
      BY <1>2 DEF Sound, Solid, Fields
    <3>2. FieldsOf(i)'
      BY <1>1, <1>3, <1>4, <1>9, <1>11, <2>1, <2>2, <3>1 DEF FieldsOf
    <3>3. InUseNow(i)
      BY <1>1, <1>4 DEF InUseNow
    <3>4. Marks(i)
      BY <1>1, <1>4, <1>9, <1>11, <2>1, <2>2, <3>2, <3>3 DEF Marks
    <3> QED BY <1>2, <3>4, KeptNow, MarkingKeeps DEF Sound
  <2> QED BY <1>6, <1>10, <1>14, <2>2, <2>3, <2>4, <2>5 DEF Sound, Owns, AbortsOnlyOnStale, Single
<1>16. CASE refs'[i] = 0
  <2>1. PICK none \in Seq(Frame) : none = <<>> /\ DoomedIn(none) = {} /\ Apart(none)
    BY NoFrames
  <2>2. /\ keep' = [keep EXCEPT ![i] = <<>>] /\ frames' = Append(none, [self |-> i, todo |-> keep[i]])
        /\ Destroyed(inst[i].ptr, inst[i].destruct, inst[i].cpp_delete)
    BY <1>8, <1>16, <2>1 DEF Dealloc
  <2>3. /\ keep' \in Keepings /\ frames' \in Seq(Frame)
        /\ CountsIn(keep', frames') = CountsIn(keep, none)
        /\ DoomedIn(frames') = DoomedIn(none) \cup {i}
        /\ KeepsIn(keep') = {p \in KeepsIn(keep) : p[1] # i}
        /\ Apart(frames')
    <3>1. PICK kp \in Keepings : kp = keep /\ i \notin DoomedIn(none)
      BY <1>2, <2>1 DEF Sound, Shape
    <3>2. keep' = [kp EXCEPT ![i] = <<>>] /\ frames' = Append(none, [self |-> i, todo |-> kp[i]])
      BY <2>2, <3>1
    <3>3. keep' \in Keepings /\ frames' \in Seq(Frame)
      BY <3>2, DeallocCounts
    <3>4. CountsIn(keep', frames') = CountsIn(kp, none) /\ DoomedIn(frames') = DoomedIn(none) \cup {i}
      BY <3>2, DeallocCounts
    <3>5. KeepsIn(keep') = {p \in KeepsIn(kp) : p[1] # i}
      BY <3>2, DeallocCounts
    <3>6. Apart(frames')
      BY <2>1, <3>1, <3>2, DeallocCounts
    <3> QED BY <3>1, <3>3, <3>4, <3>5, <3>6
  <2>4. /\ Counts' = Counts /\ Doomed' = Doomed \cup {i} /\ Doomed' = {i} /\ Keeps' = {p \in Keeps : p[1] # i}
    BY <1>1, <1>4, <2>1, <2>3 DEF Counts, Doomed, Keeps
  <2>5. Numbers'
    BY <1>14, <2>4
  <2>6. Shape'
    <3>1. mem' \in [Addrs -> {"free", "python", "cpp"}] /\ obj' \in [Addrs -> Types \cup {"none"}]
      BY <1>2, <2>2 DEF Destroyed, Sound, Shape
    <3> QED BY <1>1, <1>2, <1>9, <1>11, <1>13, <2>3, <3>1 DEF Sound, Shape
  <2>7. Lives'
    <3>1. ASSUME NEW k \in Insts
          PROVE  /\ inst'[k] # NoInst <=> refs'[k] > 0 \/ k \in Doomed'
                 /\ k \in Doomed' => refs'[k] = 0
                 /\ refs'[k] = 0 => keep'[k] = <<>>
      <4>1. CASE k = i
        <5>1. keep'[k] = <<>>
          BY <1>2, <2>2, <4>1 DEF Sound, Shape, Keepings
        <5> QED BY <1>4, <1>10, <1>16, <2>4, <4>1, <5>1
      <4>2. CASE k # i
        <5>1. keep'[k] = keep[k]
          BY <1>2, <2>2, <4>2 DEF Sound, Shape, Keepings
        <5> QED BY <1>2, <1>9, <1>13, <2>4, <4>2, <5>1 DEF Sound, Lives, Exists
      <4> QED BY <4>1, <4>2
    <3> QED BY <1>1, <2>3, <3>1 DEF Lives, Exists
  <2>8. borrowed'[i] = {} /\ Counts[i] = 0
    <3>1. held'[i] \in Nat /\ borrowed'[i] \in SUBSET {"deleter", "shared"}
      BY <1>11, <1>13
    <3>2. Cardinality(borrowed'[i]) \in Nat /\ (Cardinality(borrowed'[i]) = 0 => borrowed'[i] = {})
      BY <3>1, BorrowedNumbers
    <3>3. PICK x \in Nat, y \in Nat, z \in Nat : x = held'[i] /\ y = Cardinality(borrowed'[i]) /\ z = Counts[i]
      BY <1>12, <3>1, <3>2
    <3>4. x + y + z = 0
      BY <1>16, <2>4, <2>5, <3>3 DEF Numbers
    <3>5. y = 0 /\ z = 0
      BY <3>4
    <3> QED BY <3>2, <3>3, <3>5
  <2>9. Solid'
    <3>1. \A p \in Keeps : p[2] # i
      BY <1>2, <2>8, CountsInNat DEF Sound
    <3>2. \A k \in Insts : k # i => borrowed'[k] \subseteq borrowed[k]
      BY <1>11
    <3>3. inst[i].state # "uninitialized"
      BY <1>3
    <3>4. Dies(i)
      BY <1>1, <1>4, <1>6, <1>9, <2>2, <2>4, <2>8, <3>1, <3>2, <3>3 DEF Dies
    <3> QED BY <1>2, <3>4, KeptNow, DyingKeeps DEF Sound
  <2> QED BY <1>6, <1>10, <2>5, <2>6, <2>7, <2>9 DEF Sound, Owns, AbortsOnlyOnStale, Single
<1> QED BY <1>15, <1>16

-----------------------------------------------------------------------------
(* The invariant holds *)

LEMMA NothingCounted ==
  ASSUME NEW kp, kp = [i \in Insts |-> <<>>], NEW fr, fr = <<>>
  PROVE  \A x : CountIn(kp, fr, x) = 0
<1>1. \A x : Places(<<>>, x) = {}
  BY DEF Places
<1>2. \A x : Entries(kp, x) = {}
  <2>1. DOMAIN kp = Insts /\ \A i \in Insts : kp[i] = <<>>
    OBVIOUS
  <2> QED BY <1>1, <2>1 DEF Entries
<1>3. \A x : Entries(TodoIn(fr), x) = {}
  <2>1. DOMAIN TodoIn(fr) = {}
    BY DEF TodoIn
  <2> QED BY <2>1 DEF Entries
<1>4. Cardinality({}) = 0
  BY FS_EmptySet
<1>5. ASSUME NEW x PROVE CountIn(kp, fr, x) = 0
  <2>1. Entries(kp, x) = {} /\ Entries(TodoIn(fr), x) = {}
    BY <1>2, <1>3
  <2>2. CountIn(kp, fr, x) = Cardinality({}) + Cardinality({})
    BY <2>1 DEF CountIn
  <2> QED BY <1>4, <2>2
<1> QED BY <1>5

LEMMA SoundAtFirst ==
  ASSUME InstInit
  PROVE  Owns
<1>1. /\ inst = [i \in Insts |-> NoInst] /\ refs = [i \in Insts |-> 0] /\ held = [i \in Insts |-> 0]
      /\ borrowed = [i \in Insts |-> {}] /\ inflight = [i \in Insts |-> "no"]
      /\ inst_c2p = [a \in Addrs |-> <<>>] /\ keep = [i \in Insts |-> <<>>]
      /\ mem = [a \in Addrs |-> "free"] /\ obj = [a \in Addrs |-> "none"]
      /\ own = [a \in Addrs |-> "none"] /\ shares = [a \in Addrs |-> 0]
      /\ frames = <<>> /\ stopped = "no"
  BY DEF InstInit
<1>2. \A i \in Insts : /\ inst[i] = NoInst /\ refs[i] = 0 /\ held[i] = 0 /\ borrowed[i] = {} /\ inflight[i] = "no"
                       /\ keep[i] = <<>>
  BY <1>1
<1>3. \A a \in Addrs : /\ inst_c2p[a] = <<>> /\ mem[a] = "free" /\ obj[a] = "none" /\ own[a] = "none" /\ shares[a] = 0
  BY <1>1
<1>4. /\ NoInst \in Record /\ NoInst.ptr = "none" /\ NoInst.state = "none" /\ ~NoInst.internal
      /\ ~NoInst.destruct /\ ~NoInst.cpp_delete /\ "none" \notin Addrs
  BY PlacesAssumption DEF NoInst, Record
<1>5. Shape
  <2>1. <<>> \in Seq(Items) /\ <<>> \in Seq(Insts) /\ frames \in Seq(Frame)
    BY <1>1, EmptySeq
  <2>2. keep \in Keepings
    BY <1>1, <2>1 DEF Keepings
  <2> QED BY <1>1, <1>4, <2>1, <2>2 DEF Shape
<1>6. Complete
  BY <1>2, <1>4 DEF Complete
<1>7. Table
  <2>1. \A a \in Addrs : DOMAIN inst_c2p[a] = {}
    BY <1>3
  <2>2. \A i \in Insts : inst[i].ptr \notin Addrs
    BY <1>2, <1>4
  <2> QED BY <2>1, <2>2 DEF Table, TableAt
<1>8. Doomed = {} /\ Apart(frames)
  BY <1>1, NoneDoomed
<1>9. \A x \in Items : Counts[x] = 0
  BY <1>1, NothingCounted DEF Counts, CountsIn
<1>10. Numbers
  <2>1. ASSUME NEW i \in Insts PROVE refs[i] = held[i] + Cardinality(borrowed[i]) + Counts[i]
    <3>1. Cardinality(borrowed[i]) = 0
      BY <1>2, FS_EmptySet
    <3>2. Counts[i] = 0
      BY <1>9 DEF Items
    <3> QED BY <1>2, <3>1, <3>2
  <2>2. \A a \in Addrs : shares[a] = Counts[a] + (IF own[a] = "shared" THEN 1 ELSE 0)
    BY <1>3, <1>9 DEF Items
  <2> QED BY <2>1, <2>2 DEF Numbers
<1>11. Lives
  BY <1>2, <1>8 DEF Lives, Exists
<1>12. Memory /\ OneInternal
  BY <1>2, <1>3, <1>4 DEF Memory, OneInternal
<1>13. Fields
  BY <1>2, <1>4, <1>8 DEF Fields, FieldsOf
<1>14. Sole
  BY <1>2, <1>3, <1>4 DEF Sole, SoleAt, Has
<1>15. Alive
  BY <1>2, <1>4 DEF Alive, InUseNow
<1> QED BY <1>1, <1>5, <1>6, <1>7, <1>10, <1>11, <1>12, <1>13, <1>14, <1>15
        DEF Owns, Sound, Solid, AbortsOnlyOnStale, Single

LEMMA SoundAfterStep ==
  ASSUME Owns, [InstNext]_instVars
  PROVE  Owns'
<1>1. CASE Release
  <2>1. Sound /\ stopped' = "no"
    BY <1>1 DEF Release, Owns
  <2> QED BY <1>1, <2>1, ReleaseKeeps DEF Owns, AbortsOnlyOnStale, Single
<1>2. CASE Unregister
  <2>1. Sound /\ stopped' \in {"no", "aborted"}
    BY <1>2 DEF Unregister, Owns
  <2> QED BY <1>2, <2>1, UnregisterKeeps DEF Owns, AbortsOnlyOnStale, Single
<1>3. ASSUME NEW i \in Insts,
             \/ Drop(i) \/ InitInst(i) \/ Restore(i) \/ TakeOver(i) \/ SharedFromPython(i)
             \/ \E how \in {"deleter", "shared"} : DropBorrowed(i, how)
             \/ \E kind \in {"default", "deleter"} : Relinquish(i, kind)
             \/ \E j \in Insts : KeepAlive(i, j)
      PROVE  Owns'
  <2>1. Sound /\ stopped' = "no"
    BY <1>3 DEF Owns, Drop, InitInst, Restore, TakeOver, SharedFromPython, DropBorrowed, Relinquish, KeepAlive,
                Running, Converting
  <2>2. Sound'
    BY <1>3, <2>1, DropKeeps, InitInstKeeps, RestoreKeeps, TakeOverKeeps, SharedFromPythonKeeps, DropBorrowedKeeps,
       RelinquishKeeps, KeepAliveKeeps
  <2> QED BY <2>1, <2>2 DEF Owns, AbortsOnlyOnStale, Single
<1>4. ASSUME NEW i \in Insts, NEW j \in Insts, PutField(i, j) \/ PutDeleter(i, j)
      PROVE  Owns'
  BY <1>4, PutFieldKeeps, PutDeleterKeeps
<1>5. ASSUME NEW i \in Insts, NEW a \in Addrs, \E T \in Constructible, made \in BOOLEAN : Construct(i, T, a, made)
      PROVE  Owns'
  BY <1>5, ConstructKeeps
<1>6. ASSUME NEW i \in Insts, NEW a \in Addrs, \E T \in Made : Reenter(i, a, T)
      PROVE  Owns'
  BY <1>6, ReenterKeeps
<1>7. ASSUME NEW i \in Insts, NEW a \in Owned("raw"),
             \/ PutOwnership(i, a) \/ PutUnique(i, a)
             \/ \E b \in Addrs, T \in Types : PutCopy(i, a, b, T)
             \/ \E S, D \in Types, rvp \in {"reference", "none"} : PutReference(i, a, S, D, rvp)
      PROVE  Owns'
  <2>1. a \in Addrs
    BY DEF Owned
  <2> QED BY <1>7, <2>1, PutOwnershipKeeps, PutUniqueKeeps, PutCopyKeeps, PutReferenceKeeps
<1>8. ASSUME NEW i \in Insts, NEW a \in Owned("shared"), \E S, D \in Types : PutShared(i, a, S, D)
      PROVE  Owns'
  <2>1. a \in Addrs
    BY DEF Owned
  <2> QED BY <1>8, <2>1, PutSharedKeeps
<1>9. ASSUME NEW a \in Addrs,
             CppDelete(a) \/ CppDropShared(a) \/ \E T \in Made, how \in {"raw", "shared"} : CppNew(a, T, how)
      PROVE  Owns'
  <2>1. Sound /\ stopped' = "no"
    BY <1>9 DEF Owns, CppDelete, CppDropShared, CppNew, Running, Converting
  <2>2. Sound'
    BY <1>9, <2>1, CppDeleteKeeps, CppDropSharedKeeps, CppNewKeeps
  <2> QED BY <2>1, <2>2 DEF Owns, AbortsOnlyOnStale, Single
<1>10. CASE UNCHANGED instVars
  <2>1. /\ inst' = inst /\ refs' = refs /\ held' = held /\ borrowed' = borrowed /\ inflight' = inflight
        /\ inst_c2p' = inst_c2p /\ keep' = keep /\ mem' = mem /\ obj' = obj /\ own' = own /\ shares' = shares
        /\ frames' = frames /\ stopped' = stopped
    BY <1>10 DEF instVars
  <2>2. AbortsOnlyOnStale' /\ Single'
    BY <2>1 DEF Owns, AbortsOnlyOnStale, UsedAt, ReadyAt, Single, OneOwner, OwnersOf, Dying
  <2>3. ASSUME Sound PROVE Sound'
    <3>1. Counts' = Counts /\ Doomed' = Doomed /\ Keeps' = Keeps
      BY <2>1, SameFrames
    <3>2. Shape'
      BY <2>1, <2>3 DEF Sound, Shape
    <3>3. Complete' /\ Table'
      BY <2>1, <2>3, CompleteStays, TableStays DEF Sound
    <3>4. Numbers' /\ Lives'
      BY <2>1, <2>3, NumbersStay, LivesStay DEF Sound, Lives, Exists
    <3>5. Solid'
      BY <2>1, <2>3, <3>1, Quiet DEF Sound
    <3> QED BY <3>2, <3>3, <3>4, <3>5 DEF Sound
  <2> QED BY <2>1, <2>2, <2>3 DEF Owns
<1> QED BY <1>1, <1>2, <1>3, <1>4, <1>5, <1>6, <1>7, <1>8, <1>9, <1>10 DEF InstNext
-----------------------------------------------------------------------------
(* What it says of the table, the owners and the counts *)

LEMMA SoundTable ==
  ASSUME Sound, NEW a \in Addrs
  PROVE  ToSet(inst_c2p[a]) = {i \in Insts : inst[i].ptr = a} /\ IsInjective(inst_c2p[a])
<1>1. \A k \in DOMAIN inst_c2p[a] : inst_c2p[a][k] \in Insts
  BY ElementOfSeq DEF Sound, Shape
<1>2. ToSet(inst_c2p[a]) = {i \in Insts : inst[i].ptr = a}
  BY <1>1 DEF ToSet, Sound, Table, TableAt
<1>3. IsInjective(inst_c2p[a])
  BY ListedOnce DEF Sound, IsInjective
<1> QED BY <1>2, <1>3

LEMMA SoundReady ==
  ASSUME Sound, NEW a \in Addrs, NEW i \in ReadyAt(a)
  PROVE  PyType_IsSubtype(obj[a], inst[i].type) \/ (obj[a] = "Whole" /\ inst[i].type = "Part")
<1>1. i \in Insts /\ inst[i].ptr = a /\ inst[i].state = "ready" /\ ~Dying(i)
  BY DEF ReadyAt
<1>2. InUseNow(i)
  BY <1>1 DEF InUseNow, Dying, Doomed, DoomedIn
<1> QED BY <1>1, <1>2 DEF Sound, Solid, Alive, AliveOf, Fits

LEMMA SoundCounts ==
  ASSUME Sound, NEW i \in Insts
  PROVE  /\ refs[i] = held[i] + Cardinality(borrowed[i])
                       + Cardinality(Entries(keep, i)) + Cardinality(Entries(Todo, i))
         /\ (refs[i] > 0 \/ Dying(i)) <=> Exists(i)
         /\ Dying(i) => refs[i] = 0
<1>1. Dying(i) <=> i \in Doomed
  BY DEF Dying, Doomed, DoomedIn
<1>2. Todo = TodoIn(frames)
  BY DEF Todo, TodoIn
<1>3. Counts[i] = Cardinality(Entries(keep, i)) + Cardinality(Entries(Todo, i))
  BY <1>2 DEF Counts, CountsIn, CountIn, Items
<1>4. Cardinality(Entries(keep, i)) \in Nat /\ Cardinality(Entries(Todo, i)) \in Nat
  BY <1>2, EntryNumbers DEF Sound, Shape
<1>5. /\ held[i] \in Nat /\ Cardinality(borrowed[i]) \in Nat
      /\ refs[i] = held[i] + Cardinality(borrowed[i]) + Counts[i]
  BY RefsCover DEF Sound
<1>6. refs[i] = held[i] + Cardinality(borrowed[i]) + Cardinality(Entries(keep, i)) + Cardinality(Entries(Todo, i))
  BY <1>3, <1>4, <1>5
<1>7. ((refs[i] > 0 \/ Dying(i)) <=> Exists(i)) /\ (Dying(i) => refs[i] = 0)
  BY <1>1 DEF Sound, Lives
<1> QED BY <1>6, <1>7

LEMMA OwnsSuffices ==
  ASSUME Owns
  PROVE  InstancesOwned
<1>1. TableExact
  BY SoundTable DEF Owns, TableExact
<1>2. OwnedOnce
  BY SoundOwners, FS_Singleton DEF Owns, OwnedOnce
<1>3. ReadyIsLive
  BY SoundReady DEF Owns, ReadyIsLive
<1>4. RefsExact
  BY SoundCounts DEF Owns, RefsExact
<1>5. TwiceByNoneOnly
  <2>1. ASSUME NEW a \in Addrs, stopped # "doubled" PROVE ~(Cardinality(OwnersOf(a)) > 1)
    <3>1. PICK x : OwnersOf(a) \subseteq {x}
      BY <2>1, SoundOneOwner DEF Owns, Single, OneOwner
    <3>2. OwnersOf(a) = {} \/ OwnersOf(a) = {x}
      BY <3>1
    <3>3. Cardinality(OwnersOf(a)) \in {0, 1}
      BY <3>2, FS_EmptySet, FS_Singleton
    <3> QED BY <3>3
  <2> QED BY <2>1 DEF TwiceByNoneOnly
<1> QED BY <1>1, <1>2, <1>3, <1>4, <1>5 DEF Owns, InstancesOwned

\* However many instances and addresses there are, and whatever C++ and Python make, keep,
\* give away and take back in whatever order: the table lists every instance once, an object
\* has exactly one owner until it is gone, an instance in use refers to a live object of its
\* type, every reference is counted, and a check of the code fails only on an instance that
\* no longer stands for an object (nb_type.cpp, inst_c2p).  That holds until the process
\* comes to one of the ends that stopped names; there too no object has two owners, but for
\* the one that rv_policy::none casts while an instance of another type has its address.
THEOREM OwnershipIsExact == InstSpec => []InstancesOwned
<1>1. InstInit => Owns
  BY SoundAtFirst
<1>2. Owns /\ [InstNext]_instVars => Owns'
  BY SoundAfterStep
<1>3. Owns => InstancesOwned
  BY OwnsSuffices
<1> QED BY <1>1, <1>2, <1>3, PTL DEF InstSpec

-----------------------------------------------------------------------------
(* The intrusive counters: how many threads use an object, and drop it *)

nUse  == Cardinality(Using)
nDrop == Cardinality(Dropping)
States == {"idle", "inc", "dec", "self"}

\* What holds of the words alone, raced or not.
Words ==
  /\ pyowned > 0 => ~Cpp(m_state)
  /\ ended = "no" /\ ~Cpp(m_state) => py_refs > 0
  /\ \A t \in Threads : ~Cpp(v[t]) => ~Cpp(m_state)
  /\ In("self") # {} => Cpp(m_state)
  /\ \A t, u \in In("self") : t = u

\* The raw pointer is all there is; who copies or hands over a reference has one; who
\* gives one up has seen it counted; and the hand-over has the present count.
Claims ==
  /\ raw => owned = 0 /\ nDrop = 0 /\ Cpp(m_state)
  /\ ended = "no" => Holders >= nUse
  /\ \A t \in Dropping : v[t] # 1
  /\ ended = "no" => \A t \in In("self") : v[t] = m_state

IInv == TypeOK /\ Words /\ (~raced => Claims /\ Exact /\ DeletedInTime)

-----------------------------------------------------------------------------
LEMMA Finite ==
  /\ IsFiniteSet(Using) /\ IsFiniteSet(Dropping)
  /\ nUse \in Nat /\ nDrop \in Nat
  /\ (nUse = 0) <=> (Using = {})
  /\ (nDrop = 0) <=> (Dropping = {})
<1>1. Using \in SUBSET Threads /\ Dropping \in SUBSET Threads
  BY DEF Using, Dropping, In
<1>2. IsFiniteSet(Using) /\ IsFiniteSet(Dropping)
  BY <1>1, ThreadsAssumption, FS_Subset
<1> QED BY <1>2, FS_CardinalityType, FS_EmptySet DEF nUse, nDrop

\* A thread that begins or ends a call is counted by what it goes into or out of.
LEMMA Moving ==
  ASSUME TypeOK, NEW t \in Threads, NEW f \in States, pc' = [pc EXCEPT ![t] = f],
         pc[t] = "idle" \/ f = "idle"
  PROVE  /\ nUse' = IF f \in {"inc", "self"} THEN nUse + 1
                    ELSE IF pc[t] \in {"inc", "self"} THEN nUse - 1 ELSE nUse
         /\ nDrop' = IF f = "dec" THEN nDrop + 1 ELSE IF pc[t] = "dec" THEN nDrop - 1 ELSE nDrop
         /\ Dropping' = IF f = "dec" THEN Dropping \cup {t} ELSE Dropping \ {t}
         /\ In("self")' = IF f = "self" THEN In("self") \cup {t} ELSE In("self") \ {t}
<1>1. pc \in [Threads -> States]
  BY DEF TypeOK, States
<1>2. /\ nUse' = Cardinality(Using') /\ nDrop' = Cardinality(Dropping')
  BY DEF nUse, nDrop
<1>3. /\ Using' = IF f \in {"inc", "self"} THEN Using \cup {t} ELSE Using \ {t}
      /\ t \in Using <=> pc[t] \in {"inc", "self"}
  BY <1>1 DEF Using, In
<1>4. /\ Dropping' = IF f = "dec" THEN Dropping \cup {t} ELSE Dropping \ {t}
      /\ t \in Dropping <=> pc[t] = "dec"
  BY <1>1 DEF Dropping, In
<1>5. /\ Cardinality(Using \cup {t}) = IF t \in Using THEN nUse ELSE nUse + 1
      /\ Cardinality(Using \ {t}) = IF t \in Using THEN nUse - 1 ELSE nUse
  BY Finite, FS_AddElement, FS_RemoveElement DEF nUse
<1>6. /\ Cardinality(Dropping \cup {t}) = IF t \in Dropping THEN nDrop ELSE nDrop + 1
      /\ Cardinality(Dropping \ {t}) = IF t \in Dropping THEN nDrop - 1 ELSE nDrop
  BY Finite, FS_AddElement, FS_RemoveElement DEF nDrop
<1>7. nUse' = IF f \in {"inc", "self"} THEN nUse + 1
              ELSE IF pc[t] \in {"inc", "self"} THEN nUse - 1 ELSE nUse
  BY <1>2, <1>3, <1>5
<1>8. nDrop' = IF f = "dec" THEN nDrop + 1 ELSE IF pc[t] = "dec" THEN nDrop - 1 ELSE nDrop
  BY <1>2, <1>4, <1>6
<1>9. In("self")' = IF f = "self" THEN In("self") \cup {t} ELSE In("self") \ {t}
  BY <1>1 DEF In
<1> QED BY <1>4, <1>7, <1>8, <1>9

LEMMA CountsStay == ASSUME UNCHANGED pc PROVE nUse' = nUse /\ nDrop' = nDrop
BY DEF nUse, nDrop, Using, Dropping, In

LEMMA HoldersAre == TypeOK => Holders \in Nat
<1> SUFFICES ASSUME TypeOK PROVE Holders \in Nat
  OBVIOUS
<1>1. owned \in Nat
  BY DEF TypeOK
<1>2. CASE raw
  BY <1>1, <1>2 DEF Holders
<1>3. CASE ~raw
  BY <1>1, <1>3 DEF Holders
<1> QED BY <1>2, <1>3

LEMMA Sums ==
  \A a, b \in Nat : /\ a + b = 0 => a = 0 /\ b = 0
                    /\ a + b # 0 => a > 0 \/ b > 0
OBVIOUS

LEMMA Parity ==
  /\ \A n \in Nat : Cpp(n + 2) <=> Cpp(n)
  /\ \A n \in Nat : n > 1 => (Cpp(n - 2) <=> Cpp(n))
  /\ ~Cpp(Pointer) /\ Cpp(1)
BY DEF Cpp, Pointer

-----------------------------------------------------------------------------
(* A thread begins a call *)

\* Whatever it begins, it has loaded the word, and only the counts of calls change.
LEMMA Begins ==
  ASSUME IInv, NEW t \in Threads, NEW f \in {"inc", "dec", "self"}, Load(t, f),
         owned' \in Nat, f = "self" => Cpp(m_state) /\ In("self") = {}
  PROVE  TypeOK' /\ Words'
<1>1. TypeOK'
  BY DEF IInv, TypeOK, Load
<1>2. In("self")' = IF f = "self" THEN In("self") \cup {t} ELSE In("self")
  BY DEF IInv, TypeOK, Load, In
<1>3. Words'
  BY <1>2 DEF IInv, TypeOK, Words, Load, Cpp
<1> QED BY <1>1, <1>3

LEMMA IncRefStep ==
  ASSUME IInv, NEW t \in Threads, IncRef(t)
  PROVE  IInv'
<1>1. TypeOK' /\ Words'
  BY Begins DEF IncRef, IInv, TypeOK
<1>2. TypeOK /\ pc[t] = "idle" /\ pc' = [pc EXCEPT ![t] = "inc"]
  BY DEF IInv, IncRef, Load
<1>3. /\ nUse' = nUse + 1 /\ nDrop' = nDrop
      /\ Dropping' = Dropping /\ In("self")' = In("self")
  <2>1. t \notin Dropping /\ t \notin In("self")
    BY <1>2 DEF Dropping, In
  <2>2. Dropping \ {t} = Dropping /\ In("self") \ {t} = In("self")
    BY <2>1
  <2> QED BY <1>2, <2>2, Moving DEF States
<1>4. ASSUME ~raced'
      PROVE  Claims' /\ Exact' /\ DeletedInTime'
  <2>1. ~raced /\ Claims /\ Exact /\ DeletedInTime
    BY <1>4 DEF IInv, IncRef, Load
  <2>2. Claims'
    <3>1. v' = [v EXCEPT ![t] = m_state] /\ m_state' = m_state /\ owned' = owned /\ raw' = raw
      BY DEF IncRef, Load
    <3>2. Holders' >= nUse'
      <4>1. Holders' = Holders /\ Holders > nUse
        BY <3>1 DEF Holders, IncRef, nUse
      <4>2. Holders \in Nat /\ nUse \in Nat
        BY <1>2, Finite, HoldersAre
      <4> QED BY <1>3, <4>1, <4>2
    <3>3. \A u \in Dropping' : v'[u] # 1
      BY <1>2, <1>3, <2>1, <3>1 DEF Claims, TypeOK, Dropping, In
    <3>4. \A u \in In("self")' : v'[u] = m_state'
      BY <1>2, <1>3, <2>1, <3>1 DEF Claims, TypeOK, In, IncRef, Load
    <3>5. raw' => owned' = 0 /\ nDrop' = 0 /\ Cpp(m_state')
      BY <1>3, <2>1, <3>1 DEF Claims
    <3> QED BY <3>2, <3>3, <3>4, <3>5 DEF Claims
  <2>3. Exact'
    BY <1>3, <2>1 DEF Exact, IncRef, Load, nDrop
  <2>4. DeletedInTime'
    BY <1>3, <2>1 DEF DeletedInTime, IncRef, Load
  <2> QED BY <2>2, <2>3, <2>4
<1> QED BY <1>1, <1>4 DEF IInv

LEMMA DecRefStep ==
  ASSUME IInv, NEW t \in Threads, DecRef(t)
  PROVE  IInv'
<1>0. owned \in Nat /\ nUse \in Nat /\ nDrop \in Nat /\ owned > nUse /\ owned' = owned - 1
  BY Finite DEF DecRef, IInv, TypeOK, nUse
<1>1. TypeOK' /\ Words'
  BY <1>0, Begins DEF DecRef
<1>2. TypeOK /\ pc[t] = "idle" /\ pc' = [pc EXCEPT ![t] = "dec"]
  BY DEF IInv, DecRef, Load
<1>3. /\ nUse' = nUse /\ nDrop' = nDrop + 1
      /\ Dropping' = Dropping \cup {t} /\ In("self")' = In("self")
  <2>1. t \notin In("self")
    BY <1>2 DEF In
  <2>2. In("self") \ {t} = In("self")
    BY <2>1
  <2> QED BY <1>2, <2>2, Moving DEF States
<1>4. ASSUME ~raced'
      PROVE  Claims' /\ Exact' /\ DeletedInTime'
  <2>1. ~raced /\ Claims /\ Exact /\ DeletedInTime /\ ended = "no" /\ ended' = "no"
    BY <1>4 DEF IInv, DecRef, Load
  <2>2. ~raw /\ ~raw'
    BY <1>0, <2>1 DEF Claims, DecRef, Load
  <2>3. m_state # 1
    <3>1. Cpp(m_state) => m_state = 2 * (owned + nDrop) + 1
      BY <2>1 DEF Exact, nDrop
    <3>2. 2 * (owned + nDrop) + 1 # 1
      BY <1>0
    <3> QED BY <3>1, <3>2, Parity
  <2>4. Claims'
    <3>1. v' = [v EXCEPT ![t] = m_state] /\ m_state' = m_state
      BY DEF DecRef, Load
    <3>2. Holders' >= nUse'
      <4>1. Holders' = owned' + 0
        BY <2>2 DEF Holders
      <4> QED BY <1>0, <1>3, <4>1
    <3>3. \A u \in Dropping' : v'[u] # 1
      BY <1>2, <1>3, <2>1, <2>3, <3>1 DEF Claims, TypeOK, Dropping, In
    <3>4. \A u \in In("self")' : v'[u] = m_state'
      BY <1>2, <1>3, <2>1, <3>1 DEF Claims, TypeOK, In
    <3> QED BY <2>2, <3>2, <3>3, <3>4 DEF Claims
  <2>5. Exact'
    BY <1>0, <1>3, <2>1 DEF Exact, DecRef, Load, nDrop
  <2>6. DeletedInTime'
    BY <1>3, <2>1 DEF DeletedInTime
  <2> QED BY <2>4, <2>5, <2>6
<1> QED BY <1>1, <1>4 DEF IInv

LEMMA SetSelfPyStep ==
  ASSUME IInv, NEW t \in Threads, SetSelfPy(t)
  PROVE  IInv'
<1>1. TypeOK' /\ Words'
  BY Begins DEF SetSelfPy, IInv, TypeOK
<1>2. TypeOK /\ pc[t] = "idle" /\ pc' = [pc EXCEPT ![t] = "self"]
  BY DEF IInv, SetSelfPy, Load
<1>3. /\ nUse' = nUse + 1 /\ nDrop' = nDrop
      /\ Dropping' = Dropping /\ In("self")' = {t}
  <2>1. t \notin Dropping /\ In("self") = {}
    BY <1>2 DEF Dropping, In, SetSelfPy
  <2>2. Dropping \ {t} = Dropping /\ In("self") \cup {t} = {t}
    BY <2>1
  <2> QED BY <1>2, <2>2, Moving DEF States
<1>4. ASSUME ~raced'
      PROVE  Claims' /\ Exact' /\ DeletedInTime'
  <2>1. ~raced /\ Claims /\ Exact /\ DeletedInTime
    BY <1>4 DEF IInv, SetSelfPy, Load
  <2>2. Claims'
    <3>1. v' = [v EXCEPT ![t] = m_state] /\ m_state' = m_state /\ owned' = owned /\ raw' = raw
      BY DEF SetSelfPy, Load
    <3>2. Holders' >= nUse'
      <4>1. Holders' = Holders /\ Holders > nUse
        BY <3>1 DEF Holders, SetSelfPy, nUse
      <4>2. Holders \in Nat /\ nUse \in Nat
        BY <1>2, Finite, HoldersAre
      <4> QED BY <1>3, <4>1, <4>2
    <3>3. \A u \in Dropping' : v'[u] # 1
      BY <1>2, <1>3, <2>1, <3>1 DEF Claims, TypeOK, Dropping, In
    <3>4. \A u \in In("self")' : v'[u] = m_state'
      BY <1>2, <1>3, <2>1, <3>1 DEF Claims, TypeOK, In, SetSelfPy, Load
    <3>5. raw' => owned' = 0 /\ nDrop' = 0 /\ Cpp(m_state')
      BY <1>3, <2>1, <3>1 DEF Claims
    <3> QED BY <3>2, <3>3, <3>4, <3>5 DEF Claims
  <2>3. Exact'
    BY <1>3, <2>1 DEF Exact, SetSelfPy, Load, nDrop
  <2>4. DeletedInTime'
    BY <1>3, <2>1 DEF DeletedInTime, SetSelfPy, Load
  <2> QED BY <2>2, <2>3, <2>4
<1> QED BY <1>1, <1>4 DEF IInv

-----------------------------------------------------------------------------
(* A thread goes on with its call *)

\* While somebody is giving up a reference, the word does not count zero.
LEMMA CountedYet ==
  ASSUME IInv, ~raced, ended = "no", Dropping # {}
  PROVE  m_state # 1
<1>1. owned \in Nat /\ nDrop \in Nat /\ nDrop # 0
  BY Finite DEF IInv, TypeOK
<1>2. Cpp(m_state) => m_state = 2 * (owned + nDrop) + 1
  BY DEF IInv, Exact, nDrop
<1>3. 2 * (owned + nDrop) + 1 # 1
  BY <1>1
<1> QED BY <1>2, <1>3, Parity

LEMMA FailsStep ==
  ASSUME IInv, NEW t \in Threads, ended = "no", pc[t] \in {"inc", "dec"}, Fails(t)
  PROVE  IInv'
<1>1. TypeOK' /\ Words'
  <2>1. TypeOK'
    BY DEF IInv, TypeOK, Fails
  <2>2. Words'
    BY DEF IInv, TypeOK, Words, Fails, In, Cpp
  <2> QED BY <2>1, <2>2
<1>2. nUse' = nUse /\ nDrop' = nDrop /\ Dropping' = Dropping /\ In("self")' = In("self")
  BY CountsStay DEF Fails, Dropping, In
<1>3. ASSUME ~raced'
      PROVE  Claims' /\ Exact' /\ DeletedInTime'
  <2>1. ~raced /\ Claims /\ Exact /\ DeletedInTime
    BY <1>3 DEF IInv, Fails
  <2>2. t \in Dropping => m_state # 1
    BY <2>1, CountedYet
  <2>3. Claims'
    <3>1. v' = [v EXCEPT ![t] = m_state] /\ UNCHANGED <<m_state, owned, raw, ended>>
      BY DEF Fails
    <3>2. \A u \in Dropping' : v'[u] # 1
      BY <1>2, <2>1, <2>2, <3>1 DEF Claims, IInv, TypeOK, Dropping, In
    <3>3. \A u \in In("self")' : v'[u] = m_state'
      BY <1>2, <2>1, <3>1 DEF Claims, IInv, TypeOK, In
    <3>4. Holders' = Holders
      BY <3>1 DEF Holders
    <3> QED BY <1>2, <2>1, <3>1, <3>2, <3>3, <3>4 DEF Claims
  <2>4. Exact'
    BY <1>2, <2>1 DEF Exact, Fails, nDrop
  <2>5. DeletedInTime'
    BY <1>2, <2>1 DEF DeletedInTime, Fails
  <2> QED BY <2>3, <2>4, <2>5
<1> QED BY <1>1, <1>3 DEF IInv

\* What a returning thread leaves behind.
LEMMA Returns ==
  ASSUME TypeOK, NEW t \in Threads, pc[t] \in {"inc", "dec"}, Return(t)
  PROVE  /\ pc' = [pc EXCEPT ![t] = "idle"] /\ v' = v
         /\ nUse' = IF pc[t] = "inc" THEN nUse - 1 ELSE nUse
         /\ nDrop' = IF pc[t] = "dec" THEN nDrop - 1 ELSE nDrop
         /\ Dropping' = Dropping \ {t} /\ In("self")' = In("self")
<1>1. pc' = [pc EXCEPT ![t] = "idle"] /\ v' = v
  BY DEF Return
<1>2. t \notin In("self")
  BY DEF In
<1>3. In("self") \ {t} = In("self")
  BY <1>2
<1> QED BY <1>1, <1>3, Moving DEF States

LEMMA IncCppStep ==
  ASSUME IInv, NEW t \in Threads, IncCpp(t)
  PROVE  IInv'
<1>1. CASE Fails(t)
  BY <1>1, FailsStep DEF IncCpp
<1>2. CASE Exchange(t, v[t] + 2) /\ owned' = owned + 1 /\ raw' = FALSE
           /\ UNCHANGED <<py_refs, ended, pyowned>>
  <2>1. /\ TypeOK /\ pc[t] = "inc" /\ ended = "no" /\ Return(t) /\ Cpp(m_state)
        /\ m_state' = m_state + 2 /\ m_state \in Nat /\ owned \in Nat
    BY <1>2 DEF IInv, TypeOK, IncCpp, Exchange
  <2>2. /\ pc' = [pc EXCEPT ![t] = "idle"] /\ v' = v /\ nUse' = nUse - 1 /\ nDrop' = nDrop
        /\ Dropping' = Dropping \ {t} /\ In("self")' = In("self")
    BY <2>1, Returns
  <2>3. Cpp(m_state')
    BY <2>1, Parity
  <2>4. TypeOK'
    <3>1. raced' \in BOOLEAN /\ raw' \in BOOLEAN
      BY <1>2, Zenon DEF Exchange
    <3>2. {raw', raced'} \subseteq BOOLEAN
      BY <3>1, Zenon
    <3>3. pc' \in [Threads -> {"idle", "inc", "dec", "self"}] /\ v' \in [Threads -> Nat]
      BY <2>1, <2>2 DEF TypeOK
    <3>4. m_state' \in Nat /\ owned' \in Nat /\ py_refs' \in Nat /\ pyowned' \in Nat
      BY <1>2, <2>1 DEF TypeOK
    <3>5. ended' \in {"no", "deleted", "aborted"}
      BY <1>2, <2>1
    <3> QED BY <3>2, <3>3, <3>4, <3>5 DEF TypeOK
  <2>5. Words'
    <3>1. pyowned = 0 /\ pyowned' = pyowned
      BY <1>2, <2>1 DEF IInv, Words, TypeOK
    <3> QED BY <2>1, <2>2, <2>3, <3>1 DEF IInv, Words
  <2>6. ASSUME ~raced'
        PROVE  Claims' /\ Exact' /\ DeletedInTime'
    <3>1. ~raced /\ In("self") = {} /\ Claims /\ Exact /\ DeletedInTime
      BY <1>2, <2>6 DEF IInv, Exchange
    <3>2. nUse \in Nat /\ nDrop \in Nat /\ Holders >= nUse /\ Holders \in Nat
      BY <2>1, <3>1, Finite, HoldersAre DEF Claims
    <3>3. Holders' = owned + 1 + 0 /\ Holders <= owned + 1
      <4>1. Holders' = owned + 1 + 0
        BY <1>2 DEF Holders
      <4>2. Holders <= owned + 1
        BY <2>1 DEF Holders
      <4> QED BY <4>1, <4>2
    <3>4. Claims'
      BY <1>2, <2>1, <2>2, <3>1, <3>2, <3>3 DEF Claims
    <3>5. Exact'
      <4>1. m_state = 2 * (owned + nDrop) + 1 /\ pyowned = 0
        BY <2>1, <3>1 DEF Exact, nDrop
      <4>2. m_state' = 2 * (owned' + nDrop') + 1
        BY <1>2, <2>1, <2>2, <3>2, <4>1
      <4> QED BY <1>2, <2>3, <4>1, <4>2 DEF Exact, nDrop
    <3>6. DeletedInTime'
      BY <1>2, <2>1 DEF DeletedInTime
    <3> QED BY <3>4, <3>5, <3>6
  <2> QED BY <2>4, <2>5, <2>6 DEF IInv
<1> QED BY <1>1, <1>2 DEF IncCpp

LEMMA IncPyStep ==
  ASSUME IInv, NEW t \in Threads, IncPy(t)
  PROVE  IInv'
<1>1. /\ TypeOK /\ pc[t] = "inc" /\ ended = "no" /\ Return(t) /\ ~Cpp(m_state)
      /\ py_refs' = py_refs + 1 /\ owned' = owned + 1
      /\ UNCHANGED <<m_state, ended, raw, pyowned, raced>>
      /\ owned \in Nat /\ py_refs \in Nat /\ pyowned \in Nat
  BY DEF IInv, TypeOK, IncPy, Words
<1>2. /\ pc' = [pc EXCEPT ![t] = "idle"] /\ v' = v /\ nUse' = nUse - 1 /\ nDrop' = nDrop
      /\ Dropping' = Dropping \ {t} /\ In("self")' = In("self")
  BY <1>1, Returns
<1>3. TypeOK'
  BY <1>1, <1>2 DEF TypeOK
<1>4. Words'
  BY <1>1, <1>2 DEF IInv, Words
<1>5. ASSUME ~raced'
      PROVE  Claims' /\ Exact' /\ DeletedInTime'
  <2>1. ~raced /\ Claims /\ Exact /\ DeletedInTime
    BY <1>1, <1>5 DEF IInv
  <2>2. nUse \in Nat /\ nDrop \in Nat /\ ~raw
    BY <1>1, <2>1, Finite DEF Claims
  <2>3. Holders' >= nUse'
    <3>1. Holders' = owned' + 0 /\ Holders = owned + 0
      BY <1>1, <2>2 DEF Holders
    <3> QED BY <1>1, <1>2, <2>1, <2>2, <3>1 DEF Claims
  <2>4. Claims'
    BY <1>1, <1>2, <2>1, <2>2, <2>3 DEF Claims
  <2>5. Exact'
    <3>1. py_refs = owned + nDrop + pyowned
      BY <1>1, <2>1 DEF Exact, nDrop
    <3>2. py_refs' = owned' + nDrop' + pyowned'
      BY <1>1, <1>2, <2>2, <3>1
    <3> QED BY <1>1, <3>2 DEF Exact, nDrop
  <2>6. DeletedInTime'
    BY <1>1 DEF DeletedInTime
  <2> QED BY <2>4, <2>5, <2>6
<1> QED BY <1>3, <1>4, <1>5 DEF IInv

-----------------------------------------------------------------------------
(* A reference goes *)

\* When C++ holds no reference, nobody copies or hands over one.
LEMMA NobodyLeft ==
  ASSUME TypeOK, Claims, ended = "no", ~raw, owned = 0
  PROVE  \A u \in Threads : u \notin Dropping => pc[u] = "idle"
<1>1. Holders = 0
  BY DEF Holders
<1>2. nUse \in Nat /\ 0 >= nUse
  BY <1>1, Finite DEF Claims
<1>3. Using = {}
  BY <1>2, Finite
<1> QED BY <1>3 DEF TypeOK, Using, Dropping, In

\* The count of those that give up references, without t.
LEMMA OneLess ==
  ASSUME NEW t \in Threads, t \in Dropping
  PROVE  /\ nDrop \in Nat /\ nDrop >= 1
         /\ nDrop = 1 => Dropping = {t}
         /\ nDrop > 1 => Dropping \ {t} # {}
<1>1. nDrop \in Nat /\ nDrop # 0 /\ IsFiniteSet(Dropping)
  BY Finite
<1>2. IsFiniteSet(Dropping \ {t}) /\ Cardinality(Dropping \ {t}) = nDrop - 1
  BY <1>1, FS_RemoveElement DEF nDrop
<1>3. nDrop = 1 => Dropping \ {t} = {}
  BY <1>2, FS_EmptySet
<1>4. nDrop > 1 => Dropping \ {t} # {}
  BY <1>1, <1>2, FS_EmptySet
<1> QED BY <1>1, <1>3, <1>4

\* What is left when t returns from giving one up: the last, or not.
LEMMA DroppedIs ==
  ASSUME TypeOK, Claims, ended = "no", NEW t \in Threads, pc[t] = "dec", ~raw, Return(t),
         NEW last \in BOOLEAN, last => owned + nDrop = 1 /\ pyowned = 0,
         ~last => owned + nDrop + pyowned > 1, ended' = IF last THEN "deleted" ELSE "no",
         UNCHANGED <<owned, pyowned, raw>>
  PROVE  /\ ended' = "deleted" => owned' = 0 /\ pyowned' = 0 /\ ~raw' /\ \A u \in Threads : pc'[u] = "idle"
         /\ ended' # "aborted"
         /\ ended' = "no" => raw' \/ owned' > 0 \/ pyowned' > 0 \/ Dropping' # {}
<1>1. t \in Dropping
  BY DEF Dropping, In
<1>2. owned \in Nat /\ pyowned \in Nat /\ nDrop \in Nat /\ nDrop >= 1
  BY <1>1, OneLess DEF TypeOK
<1>3. pc' = [pc EXCEPT ![t] = "idle"] /\ Dropping' = Dropping \ {t}
  BY Returns
<1>4. CASE last
  <2>1. owned = 0 /\ nDrop = 1
    BY <1>2, <1>4
  <2>2. \A u \in Threads : pc'[u] = "idle"
    BY <1>1, <1>3, <2>1, NobodyLeft, OneLess DEF TypeOK
  <2> QED BY <1>4, <2>1, <2>2
<1>5. CASE ~last
  <2>1. owned > 0 \/ pyowned > 0 \/ nDrop > 1
    BY <1>2, <1>5
  <2> QED BY <1>1, <1>3, <1>5, <2>1, OneLess
<1> QED BY <1>4, <1>5

LEMMA DecCppStep ==
  ASSUME IInv, NEW t \in Threads, DecCpp(t)
  PROVE  IInv'
<1>0. TypeOK /\ pc[t] = "dec" /\ t \in Dropping /\ ended = "no" /\ Cpp(v[t])
  BY DEF IInv, TypeOK, DecCpp, Dropping, In
<1>1. CASE v[t] = 1
  <2>1. ended' = "aborted" /\ UNCHANGED <<m_state, py_refs, pc, v, raw, owned, pyowned, raced>>
    BY <1>1 DEF DecCpp
  <2>2. raced
    BY <1>0, <1>1 DEF IInv, Claims
  <2>3. TypeOK' /\ Words'
    BY <2>1 DEF IInv, TypeOK, Words, In
  <2> QED BY <2>1, <2>2, <2>3 DEF IInv
<1>2. CASE Fails(t)
  BY <1>0, <1>2, FailsStep
<1>3. CASE /\ v[t] # 1 /\ Exchange(t, v[t] - 2)
           /\ ended' = IF v[t] = 3 THEN "deleted" ELSE "no"
           /\ UNCHANGED <<py_refs, raw, owned, pyowned>>
  <2>1. /\ Return(t) /\ m_state = v[t] /\ m_state \in Nat /\ m_state > 1
        /\ m_state' = m_state - 2 /\ m_state' \in Nat
    <3>1. Return(t) /\ m_state = v[t] /\ m_state \in Nat /\ m_state' = v[t] - 2
      BY <1>0, <1>3 DEF Exchange, TypeOK
    <3>2. m_state # 0 /\ m_state # 1
      BY <1>0, <1>3, <3>1, Parity DEF Pointer
    <3> QED BY <3>1, <3>2
  <2>2. /\ pc' = [pc EXCEPT ![t] = "idle"] /\ v' = v /\ nUse' = nUse /\ nDrop' = nDrop - 1
        /\ Dropping' = Dropping \ {t} /\ In("self")' = In("self")
    BY <1>0, <2>1, Returns
  <2>3. Cpp(m_state')
    BY <1>0, <2>1, Parity
  <2>4. TypeOK'
    <3>1. raced' \in BOOLEAN
      BY <1>3, Zenon DEF Exchange
    <3>2. raw \in BOOLEAN /\ raw' = raw
      BY <1>0, <1>3 DEF TypeOK
    <3>3. {raw', raced'} \subseteq BOOLEAN
      BY <3>1, <3>2
    <3>4. pc' \in [Threads -> {"idle", "inc", "dec", "self"}] /\ v' \in [Threads -> Nat]
      BY <1>0, <2>2 DEF TypeOK
    <3>5. owned' \in Nat /\ py_refs' \in Nat /\ pyowned' \in Nat
      BY <1>0, <1>3 DEF TypeOK
    <3>6. ended' \in {"no", "deleted", "aborted"}
      BY <1>3
    <3> QED BY <2>1, <3>3, <3>4, <3>5, <3>6 DEF TypeOK
  <2>5. Words'
    <3>1. ~(pyowned > 0) /\ pyowned' = pyowned
      BY <1>0, <1>3, <2>1 DEF IInv, Words
    <3>2. Cpp(m_state)
      BY <1>0, <2>1
    <3> QED BY <2>2, <2>3, <3>1, <3>2 DEF IInv, Words
  <2>6. ASSUME ~raced'
        PROVE  Claims' /\ Exact' /\ DeletedInTime'
    <3>1. ~raced /\ In("self") = {} /\ Claims /\ Exact /\ DeletedInTime
      BY <1>3, <2>6 DEF IInv, Exchange
    <3>2. nDrop \in Nat /\ nDrop >= 1 /\ owned \in Nat /\ nUse \in Nat
      BY <1>0, OneLess, Finite DEF TypeOK
    <3>3. m_state = 2 * (owned + nDrop) + 1 /\ pyowned = 0
      BY <1>0, <2>1, <3>1 DEF Exact, nDrop
    <3>4. ~raw
      BY <3>1, <3>2 DEF Claims
    <3>5. Claims'
      <4>1. Holders' = Holders
        BY <1>3 DEF Holders
      <4>2. \A u \in Dropping' : v'[u] # 1
        BY <2>2, <3>1 DEF Claims
      <4> QED BY <1>0, <1>3, <2>2, <3>1, <3>4, <4>1, <4>2 DEF Claims
    <3>6. Exact'
      <4>1. m_state' = 2 * (owned' + nDrop') + 1
        BY <1>3, <2>1, <2>2, <3>2, <3>3
      <4> QED BY <1>3, <2>3, <3>3, <4>1 DEF Exact, nDrop
    <3>7. DeletedInTime'
      <4> DEFINE last == v[t] = 3
      <4>1. /\ last => owned + nDrop = 1 /\ pyowned = 0
            /\ ~last => owned + nDrop + pyowned > 1
        <5>1. PICK n \in Nat : n = owned + nDrop
          BY <3>2
        <5>2. v[t] = 2 * n + 1
          BY <2>1, <3>3, <5>1
        <5>3. n >= 1
          BY <3>2, <5>1
        <5> QED BY <3>2, <3>3, <5>1, <5>2, <5>3
      <4>2. last \in BOOLEAN /\ ended' = (IF last THEN "deleted" ELSE "no") /\ UNCHANGED <<owned, pyowned, raw>>
        BY <1>3
      <4> HIDE DEF last
      <4> QED BY <1>0, <2>1, <3>1, <3>4, <4>1, <4>2, DroppedIs DEF DeletedInTime
    <3> QED BY <3>5, <3>6, <3>7
  <2> QED BY <2>4, <2>5, <2>6 DEF IInv
<1> QED BY <1>1, <1>2, <1>3 DEF DecCpp

LEMMA DecPyStep ==
  ASSUME IInv, NEW t \in Threads, DecPy(t)
  PROVE  IInv'
<1>1. /\ TypeOK /\ pc[t] = "dec" /\ t \in Dropping /\ ended = "no" /\ Return(t) /\ ~Cpp(m_state)
      /\ py_refs' = py_refs - 1 /\ ended' = (IF py_refs = 1 THEN "deleted" ELSE "no")
      /\ UNCHANGED <<m_state, raw, owned, pyowned, raced>>
      /\ owned \in Nat /\ py_refs \in Nat /\ pyowned \in Nat /\ py_refs > 0
  BY DEF IInv, TypeOK, DecPy, Decref, Words, Dropping, In
<1>2. /\ pc' = [pc EXCEPT ![t] = "idle"] /\ v' = v /\ nUse' = nUse /\ nDrop' = nDrop - 1
      /\ Dropping' = Dropping \ {t} /\ In("self")' = In("self")
  BY <1>1, Returns
<1>3. TypeOK'
  BY <1>1, <1>2 DEF TypeOK
<1>4. Words'
  BY <1>1, <1>2 DEF IInv, Words
<1>5. ASSUME ~raced'
      PROVE  Claims' /\ Exact' /\ DeletedInTime'
  <2>1. ~raced /\ Claims /\ Exact /\ DeletedInTime
    BY <1>1, <1>5 DEF IInv
  <2>2. nUse \in Nat /\ nDrop \in Nat /\ nDrop >= 1 /\ ~raw
    BY <1>1, <2>1, Finite, OneLess DEF Claims
  <2>3. py_refs = owned + nDrop + pyowned
    BY <1>1, <2>1 DEF Exact, nDrop
  <2>4. Claims'
    <3>1. Holders' = Holders
      BY <1>1 DEF Holders
    <3> QED BY <1>1, <1>2, <2>1, <2>2, <3>1 DEF Claims, Dropping, In
  <2>5. Exact'
    <3>1. py_refs' = owned' + nDrop' + pyowned'
      BY <1>1, <1>2, <2>2, <2>3
    <3> QED BY <1>1, <3>1 DEF Exact, nDrop
  <2>6. DeletedInTime'
    <3> DEFINE last == py_refs = 1
    <3>1. /\ last => owned + nDrop = 1 /\ pyowned = 0
          /\ ~last => owned + nDrop + pyowned > 1
      BY <1>1, <2>2, <2>3
    <3>2. last \in BOOLEAN /\ ended' = (IF last THEN "deleted" ELSE "no") /\ UNCHANGED <<owned, pyowned, raw>>
      BY <1>1
    <3> HIDE DEF last
    <3> QED BY <1>1, <2>1, <2>2, <3>1, <3>2, DroppedIs DEF DeletedInTime
  <2> QED BY <2>4, <2>5, <2>6
<1> QED BY <1>3, <1>4, <1>5 DEF IInv

\* Python's counts change, and no call of C++ goes on.
LEMMA PythonStep ==
  IInv /\ (PythonIncref \/ PythonDecref) => IInv'
<1>0. SUFFICES ASSUME IInv, PythonIncref \/ PythonDecref
               PROVE  IInv'
  OBVIOUS
<1>1. /\ TypeOK /\ ended = "no" /\ pyowned > 0 /\ ~Cpp(m_state) /\ UNCHANGED <<m_state, pc, v, raw, owned, raced>>
      /\ owned \in Nat /\ py_refs \in Nat /\ pyowned \in Nat /\ py_refs > 0
  BY <1>0 DEF IInv, TypeOK, PythonIncref, PythonDecref, Words
<1>2. /\ pyowned' \in Nat /\ py_refs' \in Nat /\ py_refs' + pyowned = py_refs + pyowned'
      /\ ended' = (IF py_refs' = 0 THEN "deleted" ELSE "no")
      /\ pyowned' = pyowned + 1 \/ pyowned' = pyowned - 1
  <2>1. CASE PythonIncref
    BY <1>1, <2>1 DEF PythonIncref
  <2>2. CASE PythonDecref
    BY <1>1, <2>2 DEF PythonDecref, Decref
  <2> QED BY <1>0, <2>1, <2>2
<1>3. nUse' = nUse /\ nDrop' = nDrop /\ Dropping' = Dropping /\ In("self")' = In("self")
  BY <1>1, CountsStay DEF Dropping, In
<1>4. TypeOK'
  BY <1>1, <1>2 DEF TypeOK
<1>5. Words'
  BY <1>0, <1>1, <1>2, <1>3 DEF IInv, Words
<1>6. ASSUME ~raced'
      PROVE  Claims' /\ Exact' /\ DeletedInTime'
  <2>1. ~raced /\ Claims /\ Exact /\ DeletedInTime
    BY <1>0, <1>1, <1>6 DEF IInv
  <2>2. nUse \in Nat /\ nDrop \in Nat /\ ~raw
    BY <1>1, <2>1, Finite DEF Claims
  <2>3. Claims'
    <3>1. Holders' = Holders
      BY <1>1 DEF Holders
    <3> QED BY <1>1, <1>3, <2>1, <2>2, <3>1 DEF Claims
  <2>4. py_refs = owned + nDrop + pyowned
    BY <1>1, <2>1 DEF Exact, nDrop
  <2>5. py_refs' = owned' + nDrop' + pyowned'
    <3>1. owned' = owned /\ nDrop' = nDrop /\ owned \in Nat /\ nDrop \in Nat
      BY <1>1, <1>3, <2>2
    <3>2. /\ py_refs \in Nat /\ pyowned \in Nat /\ py_refs' \in Nat /\ pyowned' \in Nat
          /\ py_refs' + pyowned = py_refs + pyowned'
      BY <1>1, <1>2
    <3>3. PICK n \in Nat : n = owned + nDrop
      BY <3>1
    <3>4. py_refs' = n + pyowned'
      BY <2>4, <3>2, <3>3
    <3> QED BY <3>1, <3>3, <3>4
  <2>6. Exact'
    BY <1>1, <2>5 DEF Exact, nDrop
  <2>7. DeletedInTime'
    <3>1. CASE py_refs' = 0
      <4>1. owned = 0 /\ nDrop = 0 /\ pyowned' = 0
        <5>1. /\ owned' = owned /\ nDrop' = nDrop /\ owned \in Nat /\ nDrop \in Nat
              /\ pyowned' \in Nat
          BY <1>1, <1>2, <1>3, <2>2
        <5>2. PICK n \in Nat : n = owned + nDrop
          BY <5>1
        <5>3. py_refs' = n + pyowned'
          BY <2>5, <5>1, <5>2
        <5>4. n = 0 /\ pyowned' = 0
          BY <3>1, <5>1, <5>3, Sums
        <5> QED BY <5>1, <5>2, <5>4
      <4>2. Dropping = {}
        BY <4>1, Finite
      <4>3. \A u \in Threads : pc'[u] = "idle"
        BY <1>1, <2>1, <2>2, <4>1, <4>2, NobodyLeft
      <4> QED BY <1>1, <1>2, <2>2, <3>1, <4>1, <4>3 DEF DeletedInTime
    <3>2. CASE py_refs' # 0
      <4>1. owned' > 0 \/ nDrop' > 0 \/ pyowned' > 0
        <5>1. /\ owned' = owned /\ nDrop' = nDrop /\ owned \in Nat /\ nDrop \in Nat
              /\ pyowned' \in Nat
          BY <1>1, <1>2, <1>3, <2>2
        <5>2. PICK n \in Nat : n = owned + nDrop
          BY <5>1
        <5>3. py_refs' = n + pyowned'
          BY <2>5, <5>1, <5>2
        <5>4. n > 0 \/ pyowned' > 0
          BY <3>2, <5>1, <5>3, Sums
        <5> QED BY <5>1, <5>2, <5>4
      <4>2. nDrop' > 0 => Dropping' # {}
        BY <1>3, <2>2, Finite
      <4> QED BY <1>2, <3>2, <4>1, <4>2 DEF DeletedInTime
    <3> QED BY <3>1, <3>2
  <2> QED BY <2>3, <2>6, <2>7
<1> QED BY <1>4, <1>5, <1>6 DEF IInv

-----------------------------------------------------------------------------
(* Python takes the object over *)

LEMMA HandOverStep ==
  ASSUME IInv, NEW t \in Threads, HandOver(t)
  PROVE  IInv'
<1>1. /\ TypeOK /\ pc[t] = "self" /\ ended = "no" /\ ended' = "no" /\ Return(t)
      /\ py_refs' = 1 + v[t] \div 2 /\ m_state' = Pointer /\ raw' = FALSE /\ pyowned' = 1
      /\ UNCHANGED <<owned, raced>> /\ t \in In("self") /\ Cpp(m_state)
      /\ v[t] \in Nat /\ m_state \in Nat /\ owned \in Nat
  BY DEF IInv, TypeOK, HandOver, In, Words
<1>2. /\ pc' = [pc EXCEPT ![t] = "idle"] /\ v' = v /\ nUse' = nUse - 1 /\ nDrop' = nDrop
      /\ Dropping' = Dropping /\ In("self")' = {}
  <2>1. t \notin Dropping /\ pc' = [pc EXCEPT ![t] = "idle"]
    BY <1>1 DEF Dropping, In, Return
  <2>2. Dropping \ {t} = Dropping /\ In("self") \ {t} = {}
    BY <1>1, <2>1 DEF IInv, Words
  <2> QED BY <1>1, <2>1, <2>2, Moving DEF States, Return
<1>3. py_refs' \in Nat /\ py_refs' > 0 /\ ~Cpp(m_state') /\ m_state' \in Nat
  BY <1>1, Parity DEF Pointer
<1>4. TypeOK'
  <2>1. {raw', raced'} \subseteq BOOLEAN
    BY <1>1 DEF TypeOK
  <2> QED BY <1>1, <1>2, <1>3, <2>1 DEF TypeOK
<1>5. Words'
  <2>1. \A u, w \in In("self")' : u = w
    BY <1>2
  <2>2. ~raw' /\ ended' = "no"
    BY <1>1
  <2> QED BY <1>1, <1>2, <1>3, <2>1, <2>2 DEF Words
<1>6. ASSUME ~raced'
      PROVE  Claims' /\ Exact' /\ DeletedInTime'
  <2>1. ~raced /\ Claims /\ Exact
    BY <1>1, <1>6 DEF IInv
  <2>2. nUse \in Nat /\ nDrop \in Nat /\ v[t] = m_state
    BY <1>1, <2>1, Finite DEF Claims
  <2>3. Holders' >= nUse'
    <3>1. Holders' = owned + 0 /\ Holders <= owned + 1
      BY <1>1 DEF Holders
    <3>2. Holders >= nUse /\ Holders \in Nat
      BY <1>1, <2>1, HoldersAre DEF Claims
    <3> QED BY <1>1, <1>2, <2>2, <3>1, <3>2
  <2>4. Claims'
    BY <1>1, <1>2, <2>1, <2>3 DEF Claims
  <2>5. Exact'
    <3>1. m_state = 2 * (owned + nDrop) + 1
      BY <1>1, <2>1 DEF Exact, nDrop
    <3>2. PICK n \in Nat : n = owned + nDrop
      BY <1>1, <2>2
    <3>3. v[t] \div 2 = n
      BY <2>2, <3>1, <3>2
    <3>4. py_refs' = owned' + nDrop' + pyowned'
      BY <1>1, <1>2, <2>2, <3>2, <3>3
    <3> QED BY <1>3, <3>4 DEF Exact, nDrop
  <2>6. DeletedInTime'
    BY <1>1 DEF DeletedInTime
  <2> QED BY <2>4, <2>5, <2>6
<1> QED BY <1>4, <1>5, <1>6 DEF IInv

-----------------------------------------------------------------------------
LEMMA InitHolds == Init => IInv
<1> SUFFICES ASSUME Init PROVE IInv
  OBVIOUS
<1>1. Using = {} /\ Dropping = {} /\ In("self") = {}
  BY DEF Init, Using, Dropping, In
<1>2. nUse = 0 /\ nDrop = 0
  BY <1>1, FS_EmptySet DEF nUse, nDrop
<1>3. TypeOK
  BY DEF Init, TypeOK
<1>4. Words
  BY <1>1, Parity DEF Init, Words
<1>5. Claims
  BY <1>1, <1>2, Parity DEF Init, Claims, Holders
<1>6. Exact
  BY <1>2, Parity DEF Init, Exact, nDrop
<1>7. DeletedInTime
  BY DEF Init, DeletedInTime
<1> QED BY <1>3, <1>4, <1>5, <1>6, <1>7 DEF IInv

LEMMA StepHolds == IInv /\ [Next]_vars => IInv'
<1> SUFFICES ASSUME IInv, [Next]_vars PROVE IInv'
  OBVIOUS
<1>1. ASSUME NEW t \in Threads, IncRef(t) \/ DecRef(t) \/ SetSelfPy(t)
      PROVE  IInv'
  BY <1>1, IncRefStep, DecRefStep, SetSelfPyStep
<1>2. ASSUME NEW t \in Threads, IncCpp(t) \/ IncPy(t) \/ DecCpp(t) \/ DecPy(t) \/ HandOver(t)
      PROVE  IInv'
  BY <1>2, IncCppStep, IncPyStep, DecCppStep, DecPyStep, HandOverStep
<1>3. CASE PythonIncref \/ PythonDecref
  BY <1>3, PythonStep
<1>4. CASE UNCHANGED vars
  <2>1. UNCHANGED <<Using, Dropping, nUse, nDrop, Holders>> /\ \A f : In(f)' = In(f)
    BY <1>4 DEF vars, Using, Dropping, nUse, nDrop, Holders, In
  <2> QED BY <1>4, <2>1 DEF vars, IInv, TypeOK, Words, Claims, Exact, DeletedInTime
<1> QED BY <1>1, <1>2, <1>3, <1>4 DEF Next

\* The word, or after the hand-over Python's count, is the number of references held, for
\* any number of threads that increment, decrement and hand over in any order, with
\* exchanges that fail for any reason, until a count changes within a hand-over.
THEOREM CountsExactly == Spec => []Exact
<1>1. IInv => Exact
  BY DEF IInv, Exact
<1> QED BY <1>1, InitHolds, StepHolds, PTL DEF Spec

\* And the object is deleted by the release of the last reference, never earlier, and never
\* decremented below zero.
THEOREM DeletesInTime == Spec => []DeletedInTime
<1>1. IInv => DeletedInTime
  BY DEF IInv, DeletedInTime
<1> QED BY <1>1, InitHolds, StepHolds, PTL DEF Spec

\* Both at once: a reference is never lost, and an object never outlives or precedes its last.
THEOREM CountedThroughout == Spec => []Counted
<1>1. []Exact /\ []DeletedInTime => []Counted
  <2>1. Exact /\ DeletedInTime => Counted
    BY DEF Counted
  <2> QED BY <2>1, PTL
<1> QED BY <1>1, CountsExactly, DeletesInTime, PTL

-----------------------------------------------------------------------------
(* Arrays: the structures on the heap *)

HandleRecord ==
  [tensor : Tensors \cup {"none"}, refcount : Nat, owner : Objects \cup {"none"},
   self : Objects \cup {"none"}, free_strides : BOOLEAN, call_deleter : BOOLEAN]
TensorRecord ==
  [made : {"no", "producer", "nanobind"}, holds : Objects \cup {"none"},
   handle : Handles \cup {"none"}, strides : BOOLEAN]
Store ==
  [refs : [Objects -> Int], tensor : [Tensors -> TensorRecord], handle : [Handles -> HandleRecord]]

LEMMA StoreParts ==
  ASSUME NEW m \in Store
  PROVE  /\ m.refs \in [Objects -> Int] /\ m.tensor \in [Tensors -> TensorRecord]
         /\ m.handle \in [Handles -> HandleRecord]
BY DEF Store

SetHandle(m, h, r) == [m EXCEPT !.handle[h] = r]
SetTensor(m, t, r) == [m EXCEPT !.tensor[t] = r]

LEMMA HandleSet ==
  ASSUME NEW m \in Store, NEW h \in Handles, NEW r \in HandleRecord
  PROVE  LET m2 == SetHandle(m, h, r)
         IN  /\ m2 \in Store /\ m2.refs = m.refs /\ m2.tensor = m.tensor /\ m2.handle[h] = r
             /\ \A k \in Handles : k # h => m2.handle[k] = m.handle[k]
BY DEF Store, SetHandle

LEMMA TensorSet ==
  ASSUME NEW m \in Store, NEW t \in Tensors, NEW r \in TensorRecord
  PROVE  LET m2 == SetTensor(m, t, r)
         IN  /\ m2 \in Store /\ m2.refs = m.refs /\ m2.handle = m.handle /\ m2.tensor[t] = r
             /\ \A s \in Tensors : s # t => m2.tensor[s] = m.tensor[s]
BY DEF Store, SetTensor

LEMMA IncRefIs ==
  ASSUME NEW m \in Store, NEW h \in Handles
  PROVE  LET m2 == ndarray_inc_ref(m, h)
         IN  /\ m2 \in Store /\ m2.refs = m.refs /\ m2.tensor = m.tensor
             /\ m2.handle[h] = [m.handle[h] EXCEPT !.refcount = @ + 1]
             /\ \A k \in Handles : k # h => m2.handle[k] = m.handle[k]
<1>1. PICK r \in HandleRecord : r = m.handle[h]
  BY StoreParts
<1>2. PICK q : q = [r EXCEPT !.refcount = @ + 1]
  OBVIOUS
<1>3. q \in HandleRecord
  BY <1>2 DEF HandleRecord
<1>4. ndarray_inc_ref(m, h) = SetHandle(m, h, q)
  BY <1>1, <1>2 DEF ndarray_inc_ref, Store, SetHandle
<1>5. PICK m2 : m2 = SetHandle(m, h, q)
  OBVIOUS
<1>6. /\ m2 \in Store /\ m2.refs = m.refs /\ m2.tensor = m.tensor /\ m2.handle[h] = q
      /\ \A k \in Handles : k # h => m2.handle[k] = m.handle[k]
  BY <1>3, <1>5, HandleSet
<1> QED BY <1>1, <1>2, <1>4, <1>5, <1>6

LEMMA ReferredIs ==
  ASSUME NEW m \in Store, NEW o \in Objects \cup {"none"}
  PROVE  LET m2 == Referred(m, o)
         IN  /\ m2 \in Store /\ m2.tensor = m.tensor /\ m2.handle = m.handle
             /\ \A p \in Objects : m2.refs[p] = m.refs[p] + (IF p = o THEN 1 ELSE 0)
<1>1. PICK m2 : m2 = Referred(m, o)
  OBVIOUS
<1>2. CASE o = "none"
  BY <1>1, <1>2, ArraysAssumption DEF Referred, Store
<1>3. CASE o # "none"
  <2>1. m2 = [m EXCEPT !.refs[o] = @ + 1] /\ o \in Objects
    BY <1>1, <1>3 DEF Referred
  <2>2. /\ m2 \in Store /\ m2.tensor = m.tensor /\ m2.handle = m.handle
        /\ \A p \in Objects : m2.refs[p] = IF p = o THEN m.refs[p] + 1 ELSE m.refs[p]
    BY <2>1 DEF Store
  <2>3. \A p \in Objects : m.refs[p] \in Int
    BY DEF Store
  <2> QED BY <1>1, <2>2, <2>3
<1> QED BY <1>2, <1>3

LEMMA UnreferredIs ==
  ASSUME NEW m \in Store, NEW o \in Objects \cup {"none"}
  PROVE  LET m2 == Unreferred(m, o)
         IN  /\ m2 \in Store /\ m2.tensor = m.tensor /\ m2.handle = m.handle
             /\ \A p \in Objects : m2.refs[p] = m.refs[p] - (IF p = o THEN 1 ELSE 0)
<1>1. PICK m2 : m2 = Unreferred(m, o)
  OBVIOUS
<1>2. CASE o = "none"
  BY <1>1, <1>2, ArraysAssumption DEF Unreferred, Store
<1>3. CASE o # "none"
  <2>1. m2 = [m EXCEPT !.refs[o] = @ - 1] /\ o \in Objects
    BY <1>1, <1>3 DEF Unreferred
  <2>2. /\ m2 \in Store /\ m2.tensor = m.tensor /\ m2.handle = m.handle
        /\ \A p \in Objects : m2.refs[p] = IF p = o THEN m.refs[p] - 1 ELSE m.refs[p]
    BY <2>1 DEF Store
  <2>3. \A p \in Objects : m.refs[p] \in Int
    BY DEF Store
  <2> QED BY <1>1, <2>2, <2>3
<1> QED BY <1>2, <1>3

LEMMA NoneTyped == NoHandle \in HandleRecord /\ NoTensor \in TensorRecord
BY DEF NoHandle, HandleRecord, NoTensor, TensorRecord

-----------------------------------------------------------------------------
(* Arrays: who uses what *)

Takers(m, t)  == {h \in Handles : m.handle[h].tensor = t}
OwnedBy(m, o) == {h \in Handles : m.handle[h].owner = o}
SelfOf(m, o)  == {h \in Handles : m.handle[h].self = o}
HeldBy(m, o)  == {t \in Tensors : m.tensor[t].holds = o}

LEMMA TakersChange ==
  ASSUME NEW m \in Store, NEW m2 \in Store, NEW h \in Handles, NEW t \in Tensors,
         \A k \in Handles : k # h => m2.handle[k] = m.handle[k],
         m.handle[h].tensor \in {t, "none"}, m2.handle[h].tensor \in {t, "none"}
  PROVE  /\ Cardinality(Takers(m, t)) \in Nat /\ Cardinality(Takers(m2, t)) \in Nat
         /\ Cardinality(Takers(m2, t)) + (IF m.handle[h].tensor = t THEN 1 ELSE 0)
              = Cardinality(Takers(m, t)) + (IF m2.handle[h].tensor = t THEN 1 ELSE 0)
         /\ \A s \in Tensors : s # t => Takers(m2, s) = Takers(m, s)
<1>1. h \in Takers(m, t) <=> m.handle[h].tensor = t
  BY DEF Takers
<1>2. h \in Takers(m2, t) <=> m2.handle[h].tensor = t
  BY DEF Takers
<1>3. Takers(m, t) \in SUBSET Handles /\ Takers(m2, t) \in SUBSET Handles
  BY DEF Takers
<1>4. \A k \in Handles : k # h => (k \in Takers(m, t) <=> k \in Takers(m2, t))
  BY DEF Takers
<1>5. /\ Cardinality(Takers(m, t)) \in Nat /\ Cardinality(Takers(m2, t)) \in Nat
      /\ Cardinality(Takers(m2, t)) + (IF h \in Takers(m, t) THEN 1 ELSE 0)
           = Cardinality(Takers(m, t)) + (IF h \in Takers(m2, t) THEN 1 ELSE 0)
  BY <1>3, <1>4, ArraysAssumption, PointChange
<1>6. ASSUME NEW s \in Tensors, s # t PROVE Takers(m2, s) = Takers(m, s)
  BY <1>6, ArraysAssumption DEF Takers
<1> QED BY <1>1, <1>2, <1>5, <1>6

\* What is true of a handle, of a tensor, of an object.  u and w are the direct users of
\* handles and tensors.
HandleGood(m, u, w, h) ==
  LET t == m.handle[h].tensor
  IN  IF t = "none" THEN m.handle[h] = NoHandle /\ u[h] = 0
      ELSE /\ m.tensor[t].made # "no"
           /\ m.handle[h].refcount > 0
           /\ m.handle[h].call_deleter <=> ~IsMaker(m, h)
           /\ m.handle[h].refcount =
                u[h] + (IF IsMaker(m, h) THEN w[t] + Cardinality(Takers(m, t)) - 1 ELSE 0)

TensorGood(m, w, t) ==
  LET r == m.tensor[t]
  IN  /\ r.made = "no" => r = NoTensor /\ w[t] = 0
      /\ r.made = "producer" => r.handle = "none" /\ w[t] + Cardinality(Takers(m, t)) = 1
      /\ r.made = "nanobind" => r.holds = "none" /\ r.handle \in Handles /\ m.handle[r.handle].tensor = t

RefsGood(m, n, o) ==
  m.refs[o] = (IF o \in n THEN 1 ELSE 0)
                + Cardinality(OwnedBy(m, o)) + Cardinality(SelfOf(m, o)) + Cardinality(HeldBy(m, o))

Good(m, n, u, w) ==
  /\ m \in Store /\ n \in SUBSET Objects /\ u \in [Handles -> Nat] /\ w \in [Tensors -> Nat]
  /\ \A h \in Handles : HandleGood(m, u, w, h)
  /\ \A t \in Tensors : TensorGood(m, w, t)
  /\ \A o \in Objects : RefsGood(m, n, o)

\* Two stores that differ at one handle and at one tensor.
Differ(m, m2, h, t) ==
  /\ \A k \in Handles : k # h => m2.handle[k] = m.handle[k]
  /\ \A s \in Tensors : s # t => m2.tensor[s] = m.tensor[s]

\* The count of o changes as what refers to it at h, at t and among the names.
Balanced(m, n, m2, n2, h, t, o) ==
  m2.refs[o] + (IF o \in n THEN 1 ELSE 0) + (IF m.handle[h].owner = o THEN 1 ELSE 0)
    + (IF m.handle[h].self = o THEN 1 ELSE 0) + (IF m.tensor[t].holds = o THEN 1 ELSE 0)
  = m.refs[o] + (IF o \in n2 THEN 1 ELSE 0) + (IF m2.handle[h].owner = o THEN 1 ELSE 0)
    + (IF m2.handle[h].self = o THEN 1 ELSE 0) + (IF m2.tensor[t].holds = o THEN 1 ELSE 0)

LEMMA RefsChange ==
  ASSUME NEW m \in Store, NEW m2 \in Store, NEW h \in Handles, NEW t \in Tensors, Differ(m, m2, h, t),
         NEW n, NEW n2, NEW o \in Objects, RefsGood(m, n, o),
         Balanced(m, n, m2, n2, h, t, o)
  PROVE  RefsGood(m2, n2, o)
<1>1. /\ Cardinality(OwnedBy(m, o)) \in Nat /\ Cardinality(OwnedBy(m2, o)) \in Nat
      /\ Cardinality(OwnedBy(m2, o)) + (IF m.handle[h].owner = o THEN 1 ELSE 0)
           = Cardinality(OwnedBy(m, o)) + (IF m2.handle[h].owner = o THEN 1 ELSE 0)
  <2>1. /\ OwnedBy(m, o) \in SUBSET Handles /\ OwnedBy(m2, o) \in SUBSET Handles
        /\ \A k \in Handles : k # h => (k \in OwnedBy(m, o) <=> k \in OwnedBy(m2, o))
    BY DEF OwnedBy, Differ
  <2>2. (h \in OwnedBy(m, o) <=> m.handle[h].owner = o) /\ (h \in OwnedBy(m2, o) <=> m2.handle[h].owner = o)
    BY DEF OwnedBy
  <2>3. /\ Cardinality(OwnedBy(m, o)) \in Nat /\ Cardinality(OwnedBy(m2, o)) \in Nat
        /\ Cardinality(OwnedBy(m2, o)) + (IF h \in OwnedBy(m, o) THEN 1 ELSE 0)
             = Cardinality(OwnedBy(m, o)) + (IF h \in OwnedBy(m2, o) THEN 1 ELSE 0)
    BY <2>1, ArraysAssumption, PointChange
  <2> QED BY <2>2, <2>3
<1>2. /\ Cardinality(SelfOf(m, o)) \in Nat /\ Cardinality(SelfOf(m2, o)) \in Nat
      /\ Cardinality(SelfOf(m2, o)) + (IF m.handle[h].self = o THEN 1 ELSE 0)
           = Cardinality(SelfOf(m, o)) + (IF m2.handle[h].self = o THEN 1 ELSE 0)
  <2>1. /\ SelfOf(m, o) \in SUBSET Handles /\ SelfOf(m2, o) \in SUBSET Handles
        /\ \A k \in Handles : k # h => (k \in SelfOf(m, o) <=> k \in SelfOf(m2, o))
    BY DEF SelfOf, Differ
  <2>2. (h \in SelfOf(m, o) <=> m.handle[h].self = o) /\ (h \in SelfOf(m2, o) <=> m2.handle[h].self = o)
    BY DEF SelfOf
  <2>3. /\ Cardinality(SelfOf(m, o)) \in Nat /\ Cardinality(SelfOf(m2, o)) \in Nat
        /\ Cardinality(SelfOf(m2, o)) + (IF h \in SelfOf(m, o) THEN 1 ELSE 0)
             = Cardinality(SelfOf(m, o)) + (IF h \in SelfOf(m2, o) THEN 1 ELSE 0)
    BY <2>1, ArraysAssumption, PointChange
  <2> QED BY <2>2, <2>3
<1>3. /\ Cardinality(HeldBy(m, o)) \in Nat /\ Cardinality(HeldBy(m2, o)) \in Nat
      /\ Cardinality(HeldBy(m2, o)) + (IF m.tensor[t].holds = o THEN 1 ELSE 0)
           = Cardinality(HeldBy(m, o)) + (IF m2.tensor[t].holds = o THEN 1 ELSE 0)
  <2>1. /\ HeldBy(m, o) \in SUBSET Tensors /\ HeldBy(m2, o) \in SUBSET Tensors
        /\ \A s \in Tensors : s # t => (s \in HeldBy(m, o) <=> s \in HeldBy(m2, o))
    BY DEF HeldBy, Differ
  <2>2. (t \in HeldBy(m, o) <=> m.tensor[t].holds = o) /\ (t \in HeldBy(m2, o) <=> m2.tensor[t].holds = o)
    BY DEF HeldBy
  <2>3. /\ Cardinality(HeldBy(m, o)) \in Nat /\ Cardinality(HeldBy(m2, o)) \in Nat
        /\ Cardinality(HeldBy(m2, o)) + (IF t \in HeldBy(m, o) THEN 1 ELSE 0)
             = Cardinality(HeldBy(m, o)) + (IF t \in HeldBy(m2, o) THEN 1 ELSE 0)
    BY <2>1, ArraysAssumption, PointChange
  <2> QED BY <2>2, <2>3
<1>4. m.refs[o] \in Int /\ m2.refs[o] \in Int
  BY DEF Store
<1> QED BY <1>1, <1>2, <1>3, <1>4 DEF RefsGood, Balanced

\* The direct users that change are those of one handle and of one tensor.
UsersChange(u, w, u2, w2, h, t) ==
  /\ u2 \in [Handles -> Nat] /\ w2 \in [Tensors -> Nat]
  /\ \A k \in Handles : k # h => u2[k] = u[k]
  /\ \A s \in Tensors : s # t => w2[s] = w[s]

\* The other handles of a tensor, and the one that made it, do not notice a change at h.
Unnoticed(m, w, m2, w2, h, t) ==
  \A k \in Handles : k # h /\ m.handle[k].tensor = t =>
    /\ m2.tensor[t].made # "no" /\ m2.tensor[t].handle = m.tensor[t].handle
    /\ m.tensor[t].handle = k =>
         w2[t] + Cardinality(Takers(m2, t)) = w[t] + Cardinality(Takers(m, t))

TensorAt(m, h, t) == m.handle[h].tensor \in {t, "none"}

\* A change at one handle and its tensor, which the other users of the tensor do not notice.
Local(m, n, u, w, m2, n2, u2, w2, h, t) ==
  /\ Good(m, n, u, w) /\ m2 \in Store /\ n2 \in SUBSET Objects
  /\ h \in Handles /\ t \in Tensors /\ Differ(m, m2, h, t) /\ UsersChange(u, w, u2, w2, h, t)
  /\ TensorAt(m, h, t) /\ TensorAt(m2, h, t)
  /\ HandleGood(m2, u2, w2, h) /\ TensorGood(m2, w2, t) /\ Unnoticed(m, w, m2, w2, h, t)
  /\ \A o \in Objects : RefsGood(m2, n2, o)

LEMMA LocalChange ==
  ASSUME NEW m, NEW n, NEW u, NEW w, NEW m2, NEW n2, NEW u2, NEW w2, NEW h, NEW t,
         Local(m, n, u, w, m2, n2, u2, w2, h, t)
  PROVE  Good(m2, n2, u2, w2)
<1> USE DEF Local, UsersChange, Unnoticed, TensorAt
<1>1. /\ m \in Store /\ \A k \in Handles : HandleGood(m, u, w, k)
      /\ \A s \in Tensors : TensorGood(m, w, s)
  BY DEF Good
<1>2. /\ \A k \in Handles : m.handle[k] \in HandleRecord /\ m2.handle[k] \in HandleRecord
      /\ \A s \in Tensors : m.tensor[s] \in TensorRecord /\ m2.tensor[s] \in TensorRecord
  BY <1>1, StoreParts
<1>3. \A s \in Tensors : s # t => Takers(m2, s) = Takers(m, s)
  BY <1>1, TakersChange DEF Differ
<1>4. ASSUME NEW k \in Handles, k # h PROVE HandleGood(m2, u2, w2, k)
  <2>1. HandleGood(m, u, w, k) /\ m2.handle[k] = m.handle[k] /\ u2[k] = u[k]
    BY <1>1, <1>4 DEF Differ
  <2>2. CASE m.handle[k].tensor = "none"
    BY <2>1, <2>2 DEF HandleGood
  <2>3. CASE m.handle[k].tensor = t
    <3>1. t # "none"
      BY ArraysAssumption
    <3>2. IsMaker(m2, k) <=> IsMaker(m, k)
      BY <1>4, <2>1, <2>3 DEF IsMaker
    <3>3. IsMaker(m, k) => m.tensor[t].handle = k
      BY <2>3 DEF IsMaker
    <3>4. m2.tensor[t].made # "no"
      BY <1>4, <2>3
    <3>5. CASE IsMaker(m, k)
      <4>1. w2[t] + Cardinality(Takers(m2, t)) = w[t] + Cardinality(Takers(m, t))
        BY <1>4, <2>3, <3>3, <3>5
      <4>2. /\ Cardinality(Takers(m2, t)) \in Nat /\ Cardinality(Takers(m, t)) \in Nat
        BY <1>1, TakersChange DEF Differ
      <4>3. w[t] \in Nat /\ w2[t] \in Nat
        BY DEF Good
      <4>4. w2[t] + Cardinality(Takers(m2, t)) - 1 = w[t] + Cardinality(Takers(m, t)) - 1
        BY <4>1, <4>2, <4>3
      <4> QED BY <2>1, <2>3, <3>1, <3>2, <3>4, <3>5, <4>4 DEF HandleGood
    <3>6. CASE ~IsMaker(m, k)
      BY <2>1, <2>3, <3>1, <3>2, <3>4, <3>6 DEF HandleGood
    <3> QED BY <3>5, <3>6
  <2>4. CASE m.handle[k].tensor \notin {t, "none"}
    <3>1. PICK s \in Tensors : s = m.handle[k].tensor /\ s # t
      BY <1>2, <2>4 DEF HandleRecord
    <3>2. m2.tensor[s] = m.tensor[s] /\ w2[s] = w[s] /\ Takers(m2, s) = Takers(m, s)
      BY <1>3, <3>1 DEF Differ
    <3> QED BY <2>1, <2>4, <3>1, <3>2 DEF HandleGood, IsMaker
  <2> QED BY <2>2, <2>3, <2>4
<1>5. ASSUME NEW s \in Tensors, s # t PROVE TensorGood(m2, w2, s)
  <2>1. /\ TensorGood(m, w, s) /\ m2.tensor[s] = m.tensor[s] /\ w2[s] = w[s] /\ Takers(m2, s) = Takers(m, s)
    BY <1>1, <1>3, <1>5 DEF Differ
  <2>2. ASSUME m.tensor[s].made = "nanobind" PROVE m2.handle[m.tensor[s].handle].tensor = s
    <3>1. PICK k \in Handles : k = m.tensor[s].handle /\ m.handle[k].tensor = s
      BY <2>1, <2>2 DEF TensorGood
    <3>2. k # h
      BY <1>5, <3>1, ArraysAssumption
    <3> QED BY <3>1, <3>2 DEF Differ
  <2> QED BY <2>1, <2>2 DEF TensorGood
<1> QED BY <1>4, <1>5 DEF Good

-----------------------------------------------------------------------------
(* Arrays: what each kind of step does *)

LEMMA ReleasedIs ==
  ASSUME NEW m \in Store, NEW h \in Handles
  PROVE  LET m2 == Released(m, h)
         IN  /\ m2 \in Store /\ m2.tensor = m.tensor /\ m2.handle[h] = NoHandle
             /\ \A k \in Handles : k # h => m2.handle[k] = m.handle[k]
             /\ \A p \in Objects : m2.refs[p] = m.refs[p] - (IF p = m.handle[h].owner THEN 1 ELSE 0)
                                                          - (IF p = m.handle[h].self THEN 1 ELSE 0)
<1>1. PICK a \in Objects \cup {"none"}, b \in Objects \cup {"none"} : a = m.handle[h].owner /\ b = m.handle[h].self
  BY StoreParts DEF HandleRecord
<1>2. PICK m3 : m3 = Unreferred(m, a)
  OBVIOUS
<1>3. /\ m3 \in Store /\ m3.tensor = m.tensor /\ m3.handle = m.handle
      /\ \A p \in Objects : m3.refs[p] = m.refs[p] - (IF p = a THEN 1 ELSE 0)
  BY <1>2, UnreferredIs
<1>4. PICK m4 : m4 = Unreferred(m3, b)
  OBVIOUS
<1>5. /\ m4 \in Store /\ m4.tensor = m3.tensor /\ m4.handle = m3.handle
      /\ \A p \in Objects : m4.refs[p] = m3.refs[p] - (IF p = b THEN 1 ELSE 0)
  <2>1. m3 \in Store
    BY <1>3
  <2> QED BY <1>4, <2>1, UnreferredIs
<1>6. PICK m2 : m2 = Released(m, h)
  OBVIOUS
<1>7. /\ m2 \in Store /\ m2.refs = m4.refs /\ m2.tensor = m4.tensor /\ m2.handle[h] = NoHandle
      /\ \A k \in Handles : k # h => m2.handle[k] = m4.handle[k]
  <2>1. m2 = SetHandle(m4, h, NoHandle)
    BY <1>1, <1>2, <1>4, <1>6 DEF Released, SetHandle
  <2>2. m4 \in Store /\ NoHandle \in HandleRecord
    BY <1>5, NoneTyped
  <2> QED BY <2>1, <2>2, HandleSet
<1>8. m2.tensor = m.tensor /\ \A k \in Handles : k # h => m2.handle[k] = m.handle[k]
  BY <1>3, <1>5, <1>7
<1>9. ASSUME NEW p \in Objects
      PROVE  m2.refs[p] = m.refs[p] - (IF p = a THEN 1 ELSE 0) - (IF p = b THEN 1 ELSE 0)
  <2>1. m3.refs[p] = m.refs[p] - (IF p = a THEN 1 ELSE 0)
    BY <1>3
  <2>2. m4.refs[p] = m3.refs[p] - (IF p = b THEN 1 ELSE 0)
    BY <1>5
  <2> QED BY <1>7, <2>1, <2>2
<1> QED BY <1>1, <1>6, <1>7, <1>8, <1>9

\* What Good says of a handle h in use and of its tensor t.
Used(m, u, w, h, t) ==
  /\ m.handle[h].tensor = t /\ t # "none" /\ m.tensor[t].made # "no"
  /\ m.handle[h].call_deleter <=> ~IsMaker(m, h)
  /\ IsMaker(m, h) <=> m.tensor[t].handle = h
  /\ m.tensor[t].made = "producer" => ~IsMaker(m, h)
  /\ u[h] \in Nat /\ w[t] \in Nat /\ Cardinality(Takers(m, t)) \in Nat \ {0}
  /\ m.handle[h].refcount \in Nat \ {0}
  /\ IsMaker(m, h) => m.handle[h].refcount = u[h] + (w[t] + Cardinality(Takers(m, t)) - 1)
  /\ ~IsMaker(m, h) => m.handle[h].refcount = u[h]

LEMMA UsedHandle ==
  ASSUME NEW m, NEW n, NEW u, NEW w, Good(m, n, u, w), NEW h \in Handles, m.handle[h].tensor # "none"
  PROVE  \E t \in Tensors : Used(m, u, w, h, t)
<1>1. m \in Store /\ HandleGood(m, u, w, h) /\ \A s \in Tensors : TensorGood(m, w, s)
  BY DEF Good
<1>2. m.handle[h] \in HandleRecord
  BY <1>1, StoreParts
<1>3. PICK t \in Tensors : t = m.handle[h].tensor
  BY <1>2 DEF HandleRecord
<1>4. /\ Takers(m, t) \in SUBSET Handles /\ h \in Takers(m, t)
  BY <1>3 DEF Takers
<1>5. IsFiniteSet(Takers(m, t)) /\ Cardinality(Takers(m, t)) \in Nat
  BY <1>4, ArraysAssumption, FS_Subset, FS_CardinalityType
<1>6. Cardinality(Takers(m, t)) # 0
  BY <1>4, <1>5, FS_EmptySet
<1>7. u[h] \in Nat /\ w[t] \in Nat
  BY DEF Good
<1>8. /\ m.tensor[t].made # "no"
      /\ m.handle[h].refcount > 0
      /\ m.handle[h].call_deleter <=> ~IsMaker(m, h)
      /\ m.handle[h].refcount =
           u[h] + (IF IsMaker(m, h) THEN w[t] + Cardinality(Takers(m, t)) - 1 ELSE 0)
  BY <1>1, <1>3, ArraysAssumption DEF HandleGood
<1>9. m.handle[h].refcount \in Nat \ {0}
  BY <1>2, <1>8 DEF HandleRecord
<1>10. IsMaker(m, h) <=> m.tensor[t].handle = h
  BY <1>3 DEF IsMaker
<1>11. m.tensor[t].made = "producer" => ~IsMaker(m, h)
  BY <1>1, <1>10, ArraysAssumption DEF TensorGood
<1>12. IsMaker(m, h) => m.handle[h].refcount = u[h] + (w[t] + Cardinality(Takers(m, t)) - 1)
  BY <1>8
<1>13. ASSUME ~IsMaker(m, h) PROVE m.handle[h].refcount = u[h]
  <2>1. m.handle[h].refcount = u[h] + 0
    BY <1>8, <1>13
  <2> QED BY <1>7, <2>1
<1>14. t # "none"
  BY ArraysAssumption
<1>15. Used(m, u, w, h, t)
  BY <1>3, <1>5, <1>6, <1>7, <1>8, <1>9, <1>10, <1>11, <1>12, <1>13, <1>14 DEF Used
<1> QED BY <1>15

\* d more users of h, or of the tensor that it made.
Shift(m, h, u, w, u2, w2, d) ==
  LET t == m.handle[h].tensor
  IN  /\ UsersChange(u, w, u2, w2, h, t)
      /\ IF IsMaker(m, h) THEN u2[h] + w2[t] = u[h] + w[t] + d ELSE w2[t] = w[t] /\ u2[h] = u[h] + d

\* The same with d more in the count of h.
Recount(m, m2, h, d) ==
  /\ m2 \in Store /\ m2.refs = m.refs /\ m2.tensor = m.tensor
  /\ m2.handle[h] = [m.handle[h] EXCEPT !.refcount = @ + d]
  /\ \A k \in Handles : k # h => m2.handle[k] = m.handle[k]

LEMMA CountChange ==
  ASSUME NEW m, NEW n, NEW u, NEW w, Good(m, n, u, w), NEW h \in Handles, m.handle[h].tensor # "none",
         NEW d \in Int, m.handle[h].refcount + d > 0, NEW u2, NEW w2, Shift(m, h, u, w, u2, w2, d),
         NEW m2, Recount(m, m2, h, d)
  PROVE  Good(m2, n, u2, w2)
<1>1. /\ m \in Store /\ n \in SUBSET Objects /\ \A s \in Tensors : TensorGood(m, w, s)
      /\ \A o \in Objects : RefsGood(m, n, o)
  BY DEF Good
<1>2. PICK t \in Tensors : Used(m, u, w, h, t)
  BY UsedHandle
<1>0. PICK r \in HandleRecord : r = m.handle[h] /\ r.tensor = t
  <2>1. PICK r \in HandleRecord : r = m.handle[h]
    BY <1>1, StoreParts
  <2> QED BY <1>2, <2>1 DEF Used
<1>3. PICK c \in Nat \ {0} : c = r.refcount + d
  BY <1>0 DEF HandleRecord
<1>4. UsersChange(u, w, u2, w2, h, t)
  BY <1>0 DEF Shift
<1>5. m2 \in Store /\ m2.refs = m.refs /\ m2.tensor = m.tensor /\ \A k \in Handles : k # h => m2.handle[k] = m.handle[k]
  BY DEF Recount
<1>6. PICK q \in HandleRecord : /\ q = m2.handle[h] /\ q.tensor = t /\ q.refcount = c /\ q.owner = r.owner
                                /\ q.self = r.self /\ q.call_deleter = r.call_deleter
  <2>1. PICK q : q = [r EXCEPT !.refcount = c]
    OBVIOUS
  <2>3. m2.handle[h] = q
    BY <1>0, <1>3, <2>1 DEF Recount, HandleRecord
  <2>2. /\ q \in HandleRecord /\ q.tensor = r.tensor /\ q.refcount = c /\ q.owner = r.owner
        /\ q.self = r.self /\ q.call_deleter = r.call_deleter
    BY <2>1 DEF HandleRecord
  <2> QED BY <1>0, <2>2, <2>3
<1>7. Differ(m, m2, h, t)
  BY <1>5 DEF Differ
<1>8. Takers(m2, t) = Takers(m, t)
  BY <1>0, <1>6, <1>5 DEF Takers
<1>9. IsMaker(m2, h) <=> IsMaker(m, h)
  BY <1>0, <1>6, <1>5 DEF IsMaker
<1>10. t # "none"
  BY ArraysAssumption
<1>11. r.refcount \in Nat /\ Cardinality(Takers(m, t)) \in Nat /\ u[h] \in Nat /\ w[t] \in Nat
  BY <1>0, <1>2 DEF Used
<1>12. u2[h] \in Nat /\ w2[t] \in Nat
  BY <1>4 DEF UsersChange
<1>13. m.tensor[t].made # "no" /\ (r.call_deleter <=> ~IsMaker(m, h))
  BY <1>0, <1>2 DEF Used
<1>14. m.tensor[t].made = "producer" => ~IsMaker(m, h)
  BY <1>2 DEF Used
<1>15. IsMaker(m, h) <=> m.tensor[t].handle = h
  BY <1>2 DEF Used
<1>16. HandleGood(m2, u2, w2, h)
  <2>1. m2.tensor[t].made # "no" /\ q.refcount > 0 /\ (q.call_deleter <=> ~IsMaker(m2, h))
    BY <1>6, <1>9, <1>13, <1>5
  <2>2. CASE IsMaker(m, h)
    <3>1. r.refcount = u[h] + (w[t] + Cardinality(Takers(m, t)) - 1)
      BY <1>0, <1>2, <2>2 DEF Used
    <3>2. u2[h] + w2[t] = u[h] + w[t] + d
      BY <1>0, <2>2 DEF Shift
    <3>3. c = u2[h] + (w2[t] + Cardinality(Takers(m, t)) - 1)
      BY <1>3, <1>11, <1>12, <3>1, <3>2
    <3> QED BY <1>6, <1>8, <1>9, <1>10, <2>1, <2>2, <3>3 DEF HandleGood
  <2>3. CASE ~IsMaker(m, h)
    <3>1. r.refcount = u[h]
      BY <1>0, <1>2, <2>3 DEF Used
    <3>2. u2[h] = u[h] + d
      BY <1>0, <2>3 DEF Shift
    <3>3. c = u2[h] /\ u2[h] + 0 = u2[h]
      BY <1>12, <1>3, <3>1, <3>2
    <3> QED BY <1>6, <1>9, <1>10, <2>1, <2>3, <3>3 DEF HandleGood
  <2> QED BY <2>2, <2>3
<1>17. \A k \in Handles : m2.handle[k].tensor = m.handle[k].tensor
  BY <1>0, <1>6, <1>5
<1>18. TensorGood(m2, w2, t)
  <2>1. TensorGood(m, w, t)
    BY <1>1
  <2>2. m.tensor[t].made = "producer" => w2[t] = w[t]
    BY <1>0, <1>14 DEF Shift
  <2> QED BY <1>8, <1>17, <1>13, <1>5, <2>1, <2>2 DEF TensorGood
<1>19. ASSUME NEW k \in Handles, k # h, m.handle[k].tensor = t
       PROVE  /\ m2.tensor[t].made # "no" /\ m2.tensor[t].handle = m.tensor[t].handle
              /\ m.tensor[t].handle = k =>
                   w2[t] + Cardinality(Takers(m2, t)) = w[t] + Cardinality(Takers(m, t))
  <2>1. m2.tensor[t].made # "no" /\ m2.tensor[t].handle = m.tensor[t].handle
    BY <1>13, <1>5
  <2>2. ASSUME m.tensor[t].handle = k
        PROVE  w2[t] + Cardinality(Takers(m2, t)) = w[t] + Cardinality(Takers(m, t))
    <3>1. ~IsMaker(m, h)
      BY <1>19, <1>15, <2>2
    <3>2. w2[t] = w[t]
      BY <1>0, <3>1 DEF Shift
    <3> QED BY <1>8, <3>2
  <2> QED BY <2>1, <2>2
<1>20. ASSUME NEW o \in Objects PROVE RefsGood(m2, n, o)
  <2>1. \A k \in Handles : m2.handle[k].owner = m.handle[k].owner /\ m2.handle[k].self = m.handle[k].self
    BY <1>0, <1>6, <1>5
  <2>2. OwnedBy(m2, o) = OwnedBy(m, o) /\ SelfOf(m2, o) = SelfOf(m, o)
    BY <2>1 DEF OwnedBy, SelfOf
  <2>3. HeldBy(m2, o) = HeldBy(m, o)
    BY <1>5 DEF HeldBy
  <2> QED BY <1>1, <1>5, <2>2, <2>3 DEF RefsGood
<1>21. TensorAt(m, h, t) /\ TensorAt(m2, h, t)
  BY <1>0, <1>6 DEF TensorAt
<1>22. m2 \in Store /\ n \in SUBSET Objects
  BY <1>1, <1>5
<1>23. Unnoticed(m, w, m2, w2, h, t)
  BY <1>19 DEF Unnoticed
<1>24. Local(m, n, u, w, m2, n, u2, w2, h, t)
  BY <1>7, <1>16, <1>18, <1>23, <1>20, <1>21, <1>22, <1>4 DEF Local
<1> QED BY <1>24, LocalChange

LEMMA IncRefCounts ==
  ASSUME NEW m \in Store, NEW h \in Handles
  PROVE  Recount(m, ndarray_inc_ref(m, h), h, 1)
BY IncRefIs DEF Recount

LEMMA DecRefCounts ==
  ASSUME NEW m \in Store, NEW h \in Handles, m.handle[h].refcount > 1
  PROVE  Recount(m, [m EXCEPT !.handle[h].refcount = @ - 1], h, -1)
<1>1. PICK r \in HandleRecord : r = m.handle[h]
  BY StoreParts
<1>2. PICK c \in Nat : c = r.refcount - 1 /\ c = r.refcount + (-1)
  BY <1>1 DEF HandleRecord
<1>3. PICK q : q = [r EXCEPT !.refcount = c]
  OBVIOUS
<1>4. q \in HandleRecord
  BY <1>2, <1>3 DEF HandleRecord
<1>5. PICK m2 : m2 = [m EXCEPT !.handle[h].refcount = @ - 1]
  OBVIOUS
<1>6. m2 = SetHandle(m, h, q)
  BY <1>1, <1>2, <1>3, <1>5 DEF Store, SetHandle
<1>7. /\ m2 \in Store /\ m2.refs = m.refs /\ m2.tensor = m.tensor /\ m2.handle[h] = q
      /\ \A k \in Handles : k # h => m2.handle[k] = m.handle[k]
  BY <1>4, <1>6, HandleSet
<1>8. q = [m.handle[h] EXCEPT !.refcount = @ + (-1)]
  BY <1>1, <1>2, <1>3
<1> QED BY <1>5, <1>7, <1>8 DEF Recount

\* One more user of a handle.
LEMMA UseKeeps ==
  ASSUME NEW m, NEW n, NEW u, NEW w, Good(m, n, u, w), NEW h \in Handles, m.handle[h].tensor # "none",
         NEW u2, NEW w2, Shift(m, h, u, w, u2, w2, 1)
  PROVE  Good(ndarray_inc_ref(m, h), n, u2, w2)
<1>1. PICK t \in Tensors : Used(m, u, w, h, t)
  BY UsedHandle
<1>2. m.handle[h].refcount + 1 > 0
  BY <1>1 DEF Used
<1>3. m \in Store
  BY DEF Good
<1>4. PICK m2 : m2 = ndarray_inc_ref(m, h)
  OBVIOUS
<1>5. Recount(m, m2, h, 1) /\ 1 \in Int
  BY <1>3, <1>4, IncRefCounts
<1>6. Good(m2, n, u2, w2)
  BY <1>2, <1>5, CountChange
<1> QED BY <1>4, <1>6

LEMMA CountDownKeeps ==
  ASSUME NEW m, NEW n, NEW u, NEW w, Good(m, n, u, w), NEW h \in Handles, m.handle[h].tensor # "none",
         m.handle[h].refcount > 1, NEW u2, NEW w2, Shift(m, h, u, w, u2, w2, -1)
  PROVE  Good([m EXCEPT !.handle[h].refcount = @ - 1], n, u2, w2)
<1>1. PICK t \in Tensors : Used(m, u, w, h, t)
  BY UsedHandle
<1>2. m.handle[h].refcount + (-1) > 0
  BY <1>1 DEF Used
<1>3. m \in Store
  BY DEF Good
<1>4. PICK m2 : m2 = [m EXCEPT !.handle[h].refcount = @ - 1]
  OBVIOUS
<1>5. Recount(m, m2, h, -1) /\ -1 \in Int
  BY <1>3, <1>4, DecRefCounts
<1>6. Good(m2, n, u2, w2)
  BY <1>2, <1>5, CountChange
<1> QED BY <1>4, <1>6

LEMMA TensorFreed ==
  ASSUME NEW m \in Store, NEW t \in Tensors
  PROVE  LET m2 == [m EXCEPT !.tensor[t] = NoTensor]
         IN  /\ m2 \in Store /\ m2.refs = m.refs /\ m2.handle = m.handle /\ m2.tensor[t] = NoTensor
             /\ \A s \in Tensors : s # t => m2.tensor[s] = m.tensor[s]
<1>1. PICK r \in TensorRecord : r = NoTensor
  BY NoneTyped
<1>2. PICK m2 : m2 = [m EXCEPT !.tensor[t] = NoTensor]
  OBVIOUS
<1>3. m2 = SetTensor(m, t, r)
  BY <1>1, <1>2 DEF SetTensor
<1>4. /\ m2 \in Store /\ m2.refs = m.refs /\ m2.handle = m.handle /\ m2.tensor[t] = r
      /\ \A s \in Tensors : s # t => m2.tensor[s] = m.tensor[s]
  BY <1>3, TensorSet
<1> QED BY <1>1, <1>2, <1>4

\* A handle that ndarray_create made and its tensor, with one user less.
LEMMA DecOwnKeeps ==
  ASSUME NEW m, NEW n, NEW u, NEW w, Good(m, n, u, w), NEW h \in Handles, m.handle[h].tensor # "none",
         IsMaker(m, h), NEW u2, NEW w2, Shift(m, h, u, w, u2, w2, -1)
  PROVE  Good(DecOwn(m, h), n, u2, w2)
<1>1. PICK t \in Tensors : Used(m, u, w, h, t)
  BY UsedHandle
<1>2. m.handle[h].tensor = t /\ t # "none" /\ m.tensor[t].handle = h
  BY <1>1 DEF Used
<1>3. /\ m \in Store /\ n \in SUBSET Objects /\ \A o \in Objects : RefsGood(m, n, o)
      /\ \A s \in Tensors : TensorGood(m, w, s)
  BY DEF Good
<1>4. CASE m.handle[h].refcount > 1
  BY <1>4, CountDownKeeps DEF DecOwn
<1>5. CASE ~(m.handle[h].refcount > 1)
  <2>1. m.handle[h].refcount \in Nat \ {0} /\ u[h] \in Nat /\ w[t] \in Nat /\ Cardinality(Takers(m, t)) \in Nat \ {0}
    BY <1>1 DEF Used
  <2>2. m.handle[h].refcount = u[h] + (w[t] + Cardinality(Takers(m, t)) - 1)
    BY <1>1 DEF Used
  <2>3. UsersChange(u, w, u2, w2, h, t) /\ u2[h] + w2[t] = u[h] + w[t] + (-1)
    BY <1>2 DEF Shift
  <2>4. u2[h] \in Nat /\ w2[t] \in Nat
    BY <2>3 DEF UsersChange
  <2>5. u2[h] = 0 /\ w2[t] = 0 /\ Cardinality(Takers(m, t)) = 1
    <3>1. PICK c \in Nat \ {0}, r \in Nat \ {0} : c = Cardinality(Takers(m, t)) /\ r = m.handle[h].refcount
      BY <2>1
    <3>2. PICK a \in Nat, b \in Nat : a = u2[h] /\ b = w2[t]
      BY <2>4
    <3>3. PICK a1 \in Nat, b1 \in Nat : a1 = u[h] /\ b1 = w[t]
      BY <2>1
    <3>4. r = a1 + (b1 + c - 1) /\ a + b = a1 + b1 + (-1) /\ ~(r > 1)
      BY <1>5, <2>2, <2>3, <3>1, <3>2, <3>3
    <3>5. a = 0 /\ b = 0 /\ c = 1
      BY <3>4
    <3> QED BY <3>1, <3>2, <3>5
  <2>6. Takers(m, t) = {h}
    <3>1. h \in Takers(m, t) /\ Takers(m, t) \in SUBSET Handles
      BY <1>2 DEF Takers
    <3>2. IsFiniteSet(Takers(m, t))
      BY <3>1, ArraysAssumption, FS_Subset
    <3>3. PICK x : Takers(m, t) = {x}
      BY <2>5, <3>2, FS_Singleton
    <3> QED BY <3>1, <3>3
  <2>7. m.tensor[t].holds = "none"
    <3>1. TensorGood(m, w, t) /\ m.tensor[t] \in TensorRecord
      BY <1>3, StoreParts
    <3>2. m.tensor[t].made = "nanobind"
      BY <1>1, <3>1 DEF Used, TensorRecord
    <3> QED BY <3>1, <3>2 DEF TensorGood
  <2>8. PICK m1 : m1 = Released(m, h)
    OBVIOUS
  <2>9. /\ m1 \in Store /\ m1.tensor = m.tensor /\ m1.handle[h] = NoHandle
        /\ \A k \in Handles : k # h => m1.handle[k] = m.handle[k]
        /\ \A p \in Objects : m1.refs[p] = m.refs[p] - (IF p = m.handle[h].owner THEN 1 ELSE 0)
                                                    - (IF p = m.handle[h].self THEN 1 ELSE 0)
    BY <1>3, <2>8, ReleasedIs
  <2>10. PICK m2 : m2 = [m1 EXCEPT !.tensor[t] = NoTensor]
    OBVIOUS
  <2>11. /\ m2 \in Store /\ m2.refs = m1.refs /\ m2.handle = m1.handle /\ m2.tensor[t] = NoTensor
         /\ \A s \in Tensors : s # t => m2.tensor[s] = m1.tensor[s]
    <3>1. m1 \in Store
      BY <2>9
    <3> QED BY <2>10, <3>1, TensorFreed
  <2>12. DecOwn(m, h) = m2
    BY <1>2, <1>5, <2>8, <2>10 DEF DecOwn
  <2>13. Differ(m, m2, h, t)
    BY <2>9, <2>11 DEF Differ
  <2>14. m2.handle[h] = NoHandle
    BY <2>9, <2>11
  <2>15. TensorAt(m, h, t) /\ TensorAt(m2, h, t)
    BY <1>2, <2>14 DEF TensorAt, NoHandle
  <2>16. HandleGood(m2, u2, w2, h)
    BY <2>5, <2>14 DEF HandleGood, NoHandle
  <2>17. TensorGood(m2, w2, t)
    BY <2>5, <2>11 DEF TensorGood, NoTensor
  <2>18. Unnoticed(m, w, m2, w2, h, t)
    BY <2>6 DEF Unnoticed, Takers
  <2>19. ASSUME NEW o \in Objects PROVE RefsGood(m2, n, o)
    <3>1. m2.refs[o] = m.refs[o] - (IF o = m.handle[h].owner THEN 1 ELSE 0) - (IF o = m.handle[h].self THEN 1 ELSE 0)
      BY <2>9, <2>11
    <3>2. m2.handle[h].owner # o /\ m2.handle[h].self # o /\ m.tensor[t].holds # o /\ m2.tensor[t].holds # o
      BY <2>7, <2>11, <2>14, ArraysAssumption DEF NoHandle, NoTensor
    <3>3. m.refs[o] \in Int
      BY <1>3 DEF Store
    <3>4. Balanced(m, n, m2, n, h, t, o)
      BY <3>1, <3>2, <3>3 DEF Balanced
    <3>5. RefsGood(m, n, o) /\ m2 \in Store
      BY <1>3, <2>11
    <3> QED BY <1>3, <2>13, <3>4, <3>5, RefsChange
  <2>20. m2 \in Store
    BY <2>11
  <2>21. Local(m, n, u, w, m2, n, u2, w2, h, t)
    BY <1>3, <2>3, <2>13, <2>15, <2>16, <2>17, <2>18, <2>19, <2>20 DEF Local
  <2>22. Good(m2, n, u2, w2)
    BY <2>21, LocalChange
  <2> QED BY <2>12, <2>22
<1> QED BY <1>4, <1>5

\* A tensor that no handle has: the handles stay as they are.
Alone(m, w, m2, w2, t) ==
  /\ m2 \in Store /\ t \in Tensors /\ m2.handle = m.handle
  /\ \A s \in Tensors : s # t => m2.tensor[s] = m.tensor[s] /\ w2[s] = w[s]
  /\ w2 \in [Tensors -> Nat] /\ Takers(m, t) = {} /\ TensorGood(m2, w2, t)
  /\ \A o \in Objects : m2.refs[o] + (IF m.tensor[t].holds = o THEN 1 ELSE 0)
                          = m.refs[o] + (IF m2.tensor[t].holds = o THEN 1 ELSE 0)

LEMMA TensorChange ==
  ASSUME NEW m, NEW n, NEW u, NEW w, Good(m, n, u, w), NEW m2, NEW w2, NEW t, Alone(m, w, m2, w2, t)
  PROVE  Good(m2, n, u, w2)
<1> USE DEF Alone
<1>1. /\ m \in Store /\ \A k \in Handles : HandleGood(m, u, w, k)
      /\ \A s \in Tensors : TensorGood(m, w, s)
      /\ n \in SUBSET Objects /\ u \in [Handles -> Nat]
  BY DEF Good
<1>2. \A s \in Tensors : Takers(m2, s) = Takers(m, s)
  BY DEF Takers
<1>3. ASSUME NEW k \in Handles PROVE HandleGood(m2, u, w2, k)
  <2>1. HandleGood(m, u, w, k) /\ m2.handle[k] = m.handle[k] /\ m.handle[k] \in HandleRecord
    BY <1>1, StoreParts
  <2>2. CASE m.handle[k].tensor = "none"
    BY <2>1, <2>2 DEF HandleGood
  <2>3. CASE m.handle[k].tensor # "none"
    <3>1. PICK s \in Tensors : s = m.handle[k].tensor
      BY <2>1, <2>3 DEF HandleRecord
    <3>2. s # t
      BY <3>1 DEF Takers
    <3>3. m2.tensor[s] = m.tensor[s] /\ w2[s] = w[s] /\ Takers(m2, s) = Takers(m, s)
      BY <1>2, <3>2
    <3> QED BY <2>1, <2>3, <3>1, <3>3 DEF HandleGood, IsMaker
  <2> QED BY <2>2, <2>3
<1>4. ASSUME NEW s \in Tensors PROVE TensorGood(m2, w2, s)
  <2>1. CASE s = t
    BY <2>1
  <2>2. CASE s # t
    <3>1. TensorGood(m, w, s) /\ m2.tensor[s] = m.tensor[s] /\ w2[s] = w[s] /\ Takers(m2, s) = Takers(m, s)
      BY <1>1, <1>2, <2>2
    <3> QED BY <3>1 DEF TensorGood
  <2> QED BY <2>1, <2>2
<1>5. ASSUME NEW o \in Objects PROVE RefsGood(m2, n, o)
  <2>1. /\ HeldBy(m, o) \in SUBSET Tensors /\ HeldBy(m2, o) \in SUBSET Tensors
        /\ \A s \in Tensors : s # t => (s \in HeldBy(m, o) <=> s \in HeldBy(m2, o))
    BY DEF HeldBy
  <2>2. (t \in HeldBy(m, o) <=> m.tensor[t].holds = o) /\ (t \in HeldBy(m2, o) <=> m2.tensor[t].holds = o)
    BY DEF HeldBy
  <2>3. /\ Cardinality(HeldBy(m, o)) \in Nat /\ Cardinality(HeldBy(m2, o)) \in Nat
        /\ Cardinality(HeldBy(m2, o)) + (IF t \in HeldBy(m, o) THEN 1 ELSE 0)
             = Cardinality(HeldBy(m, o)) + (IF t \in HeldBy(m2, o) THEN 1 ELSE 0)
    BY <2>1, ArraysAssumption, PointChange
  <2>4. /\ Cardinality(HeldBy(m2, o)) + (IF m.tensor[t].holds = o THEN 1 ELSE 0)
             = Cardinality(HeldBy(m, o)) + (IF m2.tensor[t].holds = o THEN 1 ELSE 0)
    BY <2>2, <2>3
  <2>5. OwnedBy(m2, o) = OwnedBy(m, o) /\ SelfOf(m2, o) = SelfOf(m, o)
    BY DEF OwnedBy, SelfOf
  <2>6. /\ Cardinality(OwnedBy(m, o)) \in Nat /\ Cardinality(SelfOf(m, o)) \in Nat
    <3>1. OwnedBy(m, o) \in SUBSET Handles /\ SelfOf(m, o) \in SUBSET Handles
      BY DEF OwnedBy, SelfOf
    <3>2. IsFiniteSet(OwnedBy(m, o)) /\ IsFiniteSet(SelfOf(m, o))
      BY <3>1, ArraysAssumption, FS_Subset
    <3> QED BY <3>2, FS_CardinalityType
  <2>7. /\ m.refs[o] \in Int /\ m2.refs[o] \in Int
    BY <1>1 DEF Store
  <2>8. m2.refs[o] + (IF m.tensor[t].holds = o THEN 1 ELSE 0) = m.refs[o] + (IF m2.tensor[t].holds = o THEN 1 ELSE 0)
    BY DEF Alone
  <2>9. RefsGood(m, n, o)
    BY DEF Good
  <2> QED BY <2>3, <2>4, <2>5, <2>6, <2>7, <2>8, <2>9 DEF RefsGood
<1> QED BY <1>1, <1>3, <1>4, <1>5 DEF Good

\* One user less of a tensor.
Leaves(w, w2, t) ==
  /\ w2 \in [Tensors -> Nat] /\ w[t] > 0 /\ w2[t] = w[t] - 1
  /\ \A s \in Tensors : s # t => w2[s] = w[s]

LEMMA ProducerFreed ==
  ASSUME NEW m, NEW n, NEW u, NEW w, Good(m, n, u, w), NEW t \in Tensors, m.tensor[t].made = "producer",
         NEW w2, Leaves(w, w2, t)
  PROVE  Good(Deleter(m, t), n, u, w2)
<1>1. /\ m \in Store /\ TensorGood(m, w, t) /\ w[t] \in Nat
  BY DEF Good
<1>2. PICK o \in Objects \cup {"none"} : o = m.tensor[t].holds
  BY <1>1, StoreParts DEF TensorRecord
<1>3. PICK m1 : m1 = Unreferred(m, o)
  OBVIOUS
<1>4. /\ m1 \in Store /\ m1.tensor = m.tensor /\ m1.handle = m.handle
      /\ \A p \in Objects : m1.refs[p] = m.refs[p] - (IF p = o THEN 1 ELSE 0)
  BY <1>1, <1>3, UnreferredIs
<1>5. PICK m2 : m2 = [m1 EXCEPT !.tensor[t] = NoTensor]
  OBVIOUS
<1>6. /\ m2 \in Store /\ m2.refs = m1.refs /\ m2.handle = m1.handle /\ m2.tensor[t] = NoTensor
      /\ \A s \in Tensors : s # t => m2.tensor[s] = m1.tensor[s]
  <2>1. m1 \in Store
    BY <1>4
  <2> QED BY <1>5, <2>1, TensorFreed
<1>7. Deleter(m, t) = m2
  BY <1>2, <1>3, <1>5 DEF Deleter
<1>8. IsFiniteSet(Takers(m, t)) /\ Cardinality(Takers(m, t)) \in Nat
  <2>1. Takers(m, t) \in SUBSET Handles
    BY DEF Takers
  <2>2. IsFiniteSet(Takers(m, t))
    BY <2>1, ArraysAssumption, FS_Subset
  <2> QED BY <2>2, FS_CardinalityType
<1>9. w[t] + Cardinality(Takers(m, t)) = 1 /\ w[t] > 0 /\ w2[t] = w[t] - 1
  BY <1>1 DEF TensorGood, Leaves
<1>10. Cardinality(Takers(m, t)) = 0 /\ w2[t] = 0
  BY <1>1, <1>8, <1>9
<1>11. Takers(m, t) = {}
  BY <1>8, <1>10, FS_EmptySet
<1>12. TensorGood(m2, w2, t)
  BY <1>6, <1>10 DEF TensorGood, NoTensor
<1>13. ASSUME NEW p \in Objects
       PROVE  m2.refs[p] + (IF m.tensor[t].holds = p THEN 1 ELSE 0) = m.refs[p] + (IF m2.tensor[t].holds = p THEN 1 ELSE 0)
  <2>1. m2.refs[p] = m.refs[p] - (IF p = o THEN 1 ELSE 0)
    BY <1>4, <1>6
  <2>2. m2.tensor[t].holds # p
    BY <1>6, ArraysAssumption DEF NoTensor
  <2>3. m.refs[p] \in Int
    BY <1>1 DEF Store
  <2> QED BY <1>2, <2>1, <2>2, <2>3
<1>14. m2 \in Store /\ m2.handle = m.handle
  BY <1>4, <1>6
<1>15. \A s \in Tensors : s # t => m2.tensor[s] = m.tensor[s] /\ w2[s] = w[s]
  BY <1>4, <1>6 DEF Leaves
<1>16. w2 \in [Tensors -> Nat]
  BY DEF Leaves
<1>17. Alone(m, w, m2, w2, t)
  BY <1>11, <1>12, <1>13, <1>14, <1>15, <1>16 DEF Alone
<1>18. Good(m2, n, u, w2)
  BY <1>17, TensorChange
<1> QED BY <1>7, <1>18

\* The deleter of a tensor, called by one that used it.
LEMMA DeleterKeeps ==
  ASSUME NEW m, NEW n, NEW u, NEW w, Good(m, n, u, w), NEW t \in Tensors, NEW w2, Leaves(w, w2, t)
  PROVE  Good(Deleter(m, t), n, u, w2)
<1>1. /\ m \in Store /\ TensorGood(m, w, t) /\ w[t] \in Nat /\ w[t] > 0
      /\ u \in [Handles -> Nat]
  BY DEF Good, Leaves
<1>2. m.tensor[t] \in TensorRecord
  BY <1>1, StoreParts
<1>3. CASE m.tensor[t].made = "producer"
  BY <1>3, ProducerFreed
<1>4. CASE m.tensor[t].made = "nanobind"
  <2>1. PICK h \in Handles : h = m.tensor[t].handle /\ m.handle[h].tensor = t
    BY <1>1, <1>4 DEF TensorGood
  <2>2. IsMaker(m, h) /\ m.handle[h].tensor # "none"
    BY <2>1, ArraysAssumption DEF IsMaker
  <2>3. u[h] + w2[t] = u[h] + w[t] + (-1)
    BY <1>1 DEF Leaves
  <2>4. UsersChange(u, w, u, w2, h, t)
    BY <1>1 DEF UsersChange, Leaves
  <2>5. Shift(m, h, u, w, u, w2, -1)
    BY <2>1, <2>2, <2>3, <2>4 DEF Shift
  <2>6. Good(DecOwn(m, h), n, u, w2)
    BY <2>2, <2>5, DecOwnKeeps
  <2>7. Deleter(m, t) = DecOwn(m, h)
    BY <1>4, <2>1 DEF Deleter
  <2> QED BY <2>6, <2>7
<1>5. m.tensor[t].made # "no"
  BY <1>1 DEF TensorGood
<1> QED BY <1>2, <1>3, <1>4, <1>5 DEF TensorRecord

Freed(m, h, t) == IF m.handle[h].free_strides THEN [m EXCEPT !.tensor[t].strides = FALSE] ELSE m

LEMMA FreedIs ==
  ASSUME NEW m \in Store, NEW h \in Handles, NEW t \in Tensors
  PROVE  LET m2 == Freed(m, h, t)
         IN  /\ m2 \in Store /\ m2.refs = m.refs /\ m2.handle = m.handle
             /\ m2.tensor[t].made = m.tensor[t].made /\ m2.tensor[t].holds = m.tensor[t].holds
             /\ m2.tensor[t].handle = m.tensor[t].handle
             /\ \A s \in Tensors : s # t => m2.tensor[s] = m.tensor[s]
<1>1. PICK m2 : m2 = Freed(m, h, t)
  OBVIOUS
<1>2. CASE m.handle[h].free_strides
  <2>1. PICK r \in TensorRecord : r = m.tensor[t]
    BY StoreParts
  <2>2. PICK q : q = [r EXCEPT !.strides = FALSE]
    OBVIOUS
  <2>3. q \in TensorRecord /\ q.made = r.made /\ q.holds = r.holds /\ q.handle = r.handle
    BY <2>2 DEF TensorRecord
  <2>4. m2 = SetTensor(m, t, q)
    BY <1>1, <1>2, <2>1, <2>2 DEF Freed, SetTensor, Store
  <2>5. /\ m2 \in Store /\ m2.refs = m.refs /\ m2.handle = m.handle /\ m2.tensor[t] = q
        /\ \A s \in Tensors : s # t => m2.tensor[s] = m.tensor[s]
    BY <2>3, <2>4, TensorSet
  <2> QED BY <1>1, <2>1, <2>3, <2>5
<1>3. CASE ~m.handle[h].free_strides
  BY <1>1, <1>3 DEF Freed
<1> QED BY <1>2, <1>3

\* The last reference to a handle that imported its tensor: the tensor has one user more.
Untakes(u, w, u2, w2, h, t) ==
  /\ UsersChange(u, w, u2, w2, h, t) /\ u2[h] = 0 /\ w2[t] = w[t] + 1

LEMMA UntakeKeeps ==
  ASSUME NEW m, NEW n, NEW u, NEW w, Good(m, n, u, w), NEW h \in Handles, NEW t \in Tensors,
         m.handle[h].tensor = t, ~IsMaker(m, h), NEW u2, NEW w2, Untakes(u, w, u2, w2, h, t)
  PROVE  Good(Released(Freed(m, h, t), h), n, u2, w2)
<1>0. t # "none"
  BY ArraysAssumption
<1>1. Used(m, u, w, h, t)
  <2>1. PICK s \in Tensors : Used(m, u, w, h, s)
    BY <1>0, UsedHandle
  <2> QED BY <2>1 DEF Used
<1>2. /\ m \in Store /\ n \in SUBSET Objects /\ \A o \in Objects : RefsGood(m, n, o)
      /\ TensorGood(m, w, t)
  BY DEF Good
<1>3. PICK m1 : m1 = Freed(m, h, t)
  OBVIOUS
<1>4. /\ m1 \in Store /\ m1.refs = m.refs /\ m1.handle = m.handle
      /\ m1.tensor[t].made = m.tensor[t].made /\ m1.tensor[t].holds = m.tensor[t].holds
      /\ m1.tensor[t].handle = m.tensor[t].handle
      /\ \A s \in Tensors : s # t => m1.tensor[s] = m.tensor[s]
  BY <1>2, <1>3, FreedIs
<1>5. PICK m2 : m2 = Released(m1, h)
  OBVIOUS
<1>6. /\ m2 \in Store /\ m2.tensor = m1.tensor /\ m2.handle[h] = NoHandle
      /\ \A k \in Handles : k # h => m2.handle[k] = m1.handle[k]
      /\ \A p \in Objects : m2.refs[p] = m1.refs[p] - (IF p = m1.handle[h].owner THEN 1 ELSE 0)
                                                   - (IF p = m1.handle[h].self THEN 1 ELSE 0)
  <2>1. m1 \in Store
    BY <1>4
  <2> QED BY <1>5, <2>1, ReleasedIs
<1>7. /\ m2.tensor[t].made = m.tensor[t].made /\ m2.tensor[t].holds = m.tensor[t].holds
      /\ m2.tensor[t].handle = m.tensor[t].handle
  BY <1>4, <1>6
<1>8. \A k \in Handles : k # h => m2.handle[k] = m.handle[k]
  BY <1>4, <1>6
<1>9. Differ(m, m2, h, t)
  BY <1>4, <1>6, <1>8 DEF Differ
<1>10. m2.handle[h].tensor = "none" /\ m2.handle[h].owner = "none" /\ m2.handle[h].self = "none"
  BY <1>6 DEF NoHandle
<1>11. TensorAt(m, h, t) /\ TensorAt(m2, h, t)
  BY <1>10 DEF TensorAt
<1>12. UsersChange(u, w, u2, w2, h, t) /\ u2[h] = 0 /\ w2[t] = w[t] + 1 /\ w[t] \in Nat
  BY DEF Untakes, Good
<1>13. HandleGood(m2, u2, w2, h)
  BY <1>6, <1>10, <1>12 DEF HandleGood
<1>14. /\ Cardinality(Takers(m, t)) \in Nat /\ Cardinality(Takers(m2, t)) \in Nat
       /\ Cardinality(Takers(m2, t)) + 1 = Cardinality(Takers(m, t)) + 0
  <2>1. m2 \in Store /\ m.handle[h].tensor \in {t, "none"} /\ m2.handle[h].tensor \in {t, "none"}
    BY <1>6, <1>10
  <2>2. /\ Cardinality(Takers(m, t)) \in Nat /\ Cardinality(Takers(m2, t)) \in Nat
        /\ Cardinality(Takers(m2, t)) + (IF m.handle[h].tensor = t THEN 1 ELSE 0)
             = Cardinality(Takers(m, t)) + (IF m2.handle[h].tensor = t THEN 1 ELSE 0)
    BY <1>2, <1>8, <2>1, TakersChange
  <2> QED BY <1>0, <1>10, <2>2
<1>15. w2[t] + Cardinality(Takers(m2, t)) = w[t] + Cardinality(Takers(m, t))
  BY <1>12, <1>14
<1>16. m.tensor[t].made # "no" /\ m.tensor[t].handle # h
  BY <1>1 DEF Used
<1>17. TensorGood(m2, w2, t)
  <2>1. m.tensor[t].made = "producer" => m2.tensor[t].handle = "none" /\ w2[t] + Cardinality(Takers(m2, t)) = 1
    BY <1>2, <1>7, <1>15 DEF TensorGood
  <2>2. m.tensor[t].made = "nanobind" =>
           m2.tensor[t].holds = "none" /\ m2.tensor[t].handle \in Handles /\ m2.handle[m2.tensor[t].handle].tensor = t
    BY <1>2, <1>7, <1>8, <1>16 DEF TensorGood
  <2> QED BY <1>7, <1>16, <2>1, <2>2 DEF TensorGood
<1>18. Unnoticed(m, w, m2, w2, h, t)
  BY <1>7, <1>15, <1>16 DEF Unnoticed
<1>19. ASSUME NEW o \in Objects PROVE RefsGood(m2, n, o)
  <2>1. m2.refs[o] = m.refs[o] - (IF o = m.handle[h].owner THEN 1 ELSE 0) - (IF o = m.handle[h].self THEN 1 ELSE 0)
    BY <1>4, <1>6
  <2>2. m2.handle[h].owner # o /\ m2.handle[h].self # o
    BY <1>10, ArraysAssumption
  <2>3. m.refs[o] \in Int
    BY <1>2 DEF Store
  <2>4. Balanced(m, n, m2, n, h, t, o)
    BY <1>7, <2>1, <2>2, <2>3 DEF Balanced
  <2>5. RefsGood(m, n, o) /\ m2 \in Store
    BY <1>2, <1>6
  <2> QED BY <1>2, <1>9, <2>4, <2>5, RefsChange
<1>20. m2 \in Store
  BY <1>6
<1>21. Local(m, n, u, w, m2, n, u2, w2, h, t)
  BY <1>2, <1>9, <1>11, <1>12, <1>13, <1>17, <1>18, <1>19, <1>20 DEF Local
<1>22. Good(m2, n, u2, w2)
  BY <1>21, LocalChange
<1> QED BY <1>3, <1>5, <1>22

\* One user less of a handle, or of the tensor that it made.
LEMMA DecRefKeeps ==
  ASSUME NEW m, NEW n, NEW u, NEW w, Good(m, n, u, w), NEW h \in Handles, m.handle[h].tensor # "none",
         NEW u2, NEW w2, Shift(m, h, u, w, u2, w2, -1)
  PROVE  Good(ndarray_dec_ref(m, h), n, u2, w2)
<1>1. PICK t \in Tensors : Used(m, u, w, h, t)
  BY UsedHandle
<1>2. /\ m.handle[h].tensor = t /\ m.handle[h].refcount \in Nat \ {0} /\ u[h] \in Nat /\ w[t] \in Nat
  BY <1>1 DEF Used
<1>3. m.handle[h].call_deleter <=> ~IsMaker(m, h)
  BY <1>1 DEF Used
<1>4. CASE m.handle[h].refcount > 1
  <2>1. PICK m2 : m2 = [m EXCEPT !.handle[h].refcount = @ - 1]
    OBVIOUS
  <2>2. Good(m2, n, u2, w2)
    BY <1>4, <2>1, CountDownKeeps
  <2>3. DecOwn(m, h) = m2
    BY <1>4, <2>1 DEF DecOwn
  <2>4. ndarray_dec_ref(m, h) = m2
    BY <1>4, <2>1, <2>3, Zenon DEF ndarray_dec_ref
  <2> QED BY <2>2, <2>4
<1>5. CASE ~(m.handle[h].refcount > 1) /\ IsMaker(m, h)
  <2>1. ndarray_dec_ref(m, h) = DecOwn(m, h)
    BY <1>3, <1>5 DEF ndarray_dec_ref
  <2>2. Good(DecOwn(m, h), n, u2, w2)
    BY <1>5, DecOwnKeeps
  <2> QED BY <2>1, <2>2
<1>6. CASE ~(m.handle[h].refcount > 1) /\ ~IsMaker(m, h)
  <2>1. UsersChange(u, w, u2, w2, h, t) /\ u2[h] = u[h] + (-1) /\ w2[t] = w[t]
    BY <1>2, <1>6 DEF Shift
  <2>2. m.handle[h].refcount = u[h]
    BY <1>1, <1>6 DEF Used
  <2>3. u2[h] = 0
    BY <1>2, <1>6, <2>1, <2>2
  <2>4. PICK w3 : w3 = [s \in Tensors |-> IF s = t THEN w[t] + 1 ELSE w[s]]
    OBVIOUS
  <2>5. w \in [Tensors -> Nat]
    BY DEF Good
  <2>6. w3 \in [Tensors -> Nat] /\ w3[t] = w[t] + 1 /\ \A s \in Tensors : s # t => w3[s] = w[s]
    BY <1>2, <2>4, <2>5
  <2>7. UsersChange(u, w, u2, w3, h, t)
    BY <2>1, <2>6 DEF UsersChange
  <2>8. Untakes(u, w, u2, w3, h, t)
    BY <2>3, <2>6, <2>7 DEF Untakes
  <2>9. PICK m3 : m3 = Released(Freed(m, h, t), h)
    OBVIOUS
  <2>10. Good(m3, n, u2, w3)
    BY <1>2, <1>6, <2>8, <2>9, UntakeKeeps
  <2>11. Leaves(w3, w2, t)
    BY <1>2, <2>1, <2>6 DEF Leaves, UsersChange
  <2>12. Good(Deleter(m3, t), n, u2, w2)
    BY <2>10, <2>11, DeleterKeeps
  <2>13. ndarray_dec_ref(m, h) = Deleter(m3, t)
    <3>1. m.handle[h].call_deleter
      BY <1>3, <1>6
    <3> QED BY <1>2, <1>6, <2>9, <3>1 DEF ndarray_dec_ref, Freed
  <2> QED BY <2>12, <2>13
<1> QED BY <1>4, <1>5, <1>6

LEMMA FreshTensorIs ==
  ASSUME NEW m, NEW n, NEW u, NEW w, Good(m, n, u, w), NEW t \in Tensors, m.tensor[t] = NoTensor
  PROVE  w[t] = 0 /\ Takers(m, t) = {}
<1>1. TensorGood(m, w, t) /\ \A h \in Handles : HandleGood(m, u, w, h)
  BY DEF Good
<1>2. m.tensor[t].made = "no" /\ t # "none"
  BY ArraysAssumption DEF NoTensor
<1>3. w[t] = 0
  BY <1>1, <1>2 DEF TensorGood
<1>4. \A h \in Handles : m.handle[h].tensor # t
  BY <1>1, <1>2 DEF HandleGood
<1> QED BY <1>3, <1>4 DEF Takers

\* One user more of a tensor.
Joins(w, w2, t) ==
  /\ w2 \in [Tensors -> Nat] /\ w2[t] = w[t] + 1
  /\ \A s \in Tensors : s # t => w2[s] = w[s]

\* A new tensor of o, with its first user.
LEMMA ProducedKeeps ==
  ASSUME NEW m, NEW n, NEW u, NEW w, Good(m, n, u, w), NEW t \in Tensors, m.tensor[t] = NoTensor,
         NEW o \in Objects, NEW l, NEW w2, Joins(w, w2, t)
  PROVE  Good(Produced(m, t, o, l), n, u, w2)
<1>1. m \in Store
  BY DEF Good
<1>2. w[t] = 0 /\ Takers(m, t) = {}
  BY FreshTensorIs
<1>3. PICK r : r = [made |-> "producer", holds |-> o, handle |-> "none", strides |-> l.strides # <<>>]
  OBVIOUS
<1>4. r \in TensorRecord /\ r.made = "producer" /\ r.holds = o /\ r.handle = "none"
  BY <1>3 DEF TensorRecord
<1>5. PICK m1 : m1 = Referred(m, o)
  OBVIOUS
<1>6. /\ m1 \in Store /\ m1.tensor = m.tensor /\ m1.handle = m.handle
      /\ \A p \in Objects : m1.refs[p] = m.refs[p] + (IF p = o THEN 1 ELSE 0)
  BY <1>1, <1>5, ReferredIs
<1>7. PICK m2 : m2 = SetTensor(m1, t, r)
  OBVIOUS
<1>8. /\ m2 \in Store /\ m2.refs = m1.refs /\ m2.handle = m1.handle /\ m2.tensor[t] = r
      /\ \A s \in Tensors : s # t => m2.tensor[s] = m1.tensor[s]
  <2>1. m1 \in Store
    BY <1>6
  <2> QED BY <1>4, <1>7, <2>1, TensorSet
<1>9. Produced(m, t, o, l) = m2
  BY <1>3, <1>5, <1>7 DEF Produced, SetTensor
<1>10. m2 \in Store /\ m2.handle = m.handle
  BY <1>6, <1>8
<1>11. Takers(m2, t) = {} /\ w2[t] = 1
  BY <1>2, <1>10 DEF Takers, Joins
<1>12. TensorGood(m2, w2, t)
  <2>1. Cardinality(Takers(m2, t)) = 0
    BY <1>11, FS_EmptySet
  <2> QED BY <1>4, <1>8, <1>11, <2>1 DEF TensorGood
<1>13. \A s \in Tensors : s # t => m2.tensor[s] = m.tensor[s] /\ w2[s] = w[s]
  BY <1>6, <1>8 DEF Joins
<1>14. ASSUME NEW p \in Objects
       PROVE  m2.refs[p] + (IF m.tensor[t].holds = p THEN 1 ELSE 0) = m.refs[p] + (IF m2.tensor[t].holds = p THEN 1 ELSE 0)
  <2>1. m2.refs[p] = m.refs[p] + (IF p = o THEN 1 ELSE 0)
    BY <1>6, <1>8
  <2>2. m.tensor[t].holds # p
    BY ArraysAssumption DEF NoTensor
  <2>3. m.refs[p] \in Int /\ m2.tensor[t].holds = o
    BY <1>1, <1>4, <1>8 DEF Store
  <2> QED BY <2>1, <2>2, <2>3
<1>15. w2 \in [Tensors -> Nat]
  BY DEF Joins
<1>16. Alone(m, w, m2, w2, t)
  BY <1>2, <1>10, <1>12, <1>13, <1>14, <1>15 DEF Alone
<1>17. Good(m2, n, u, w2)
  BY <1>16, TensorChange
<1> QED BY <1>9, <1>17

\* A handle takes a tensor from one of its users.
Takes(u, w, u2, w2, h, t) ==
  /\ UsersChange(u, w, u2, w2, h, t) /\ u2[h] = u[h] + 1 /\ w[t] > 0 /\ w2[t] = w[t] - 1

LEMMA TakenIs ==
  ASSUME NEW m \in Store, NEW h \in Handles, NEW t \in Tensors, NEW o \in Objects \cup {"none"}
  PROVE  LET m2 == Taken(m, h, t, o)
         IN  /\ m2 \in Store /\ Differ(m, m2, h, t)
             /\ m2.tensor[t].made = m.tensor[t].made /\ m2.tensor[t].holds = m.tensor[t].holds
             /\ m2.tensor[t].handle = m.tensor[t].handle
             /\ m2.handle[h].tensor = t /\ m2.handle[h].refcount = 1 /\ m2.handle[h].owner = "none"
             /\ m2.handle[h].self = o /\ m2.handle[h].call_deleter
             /\ \A p \in Objects : m2.refs[p] = m.refs[p] + (IF p = o THEN 1 ELSE 0)
<1>1. PICK r : r = [tensor |-> t, refcount |-> 0, owner |-> "none", self |-> o,
                    free_strides |-> ~m.tensor[t].strides, call_deleter |-> TRUE]
  OBVIOUS
<1>2. /\ r \in HandleRecord /\ r.tensor = t /\ r.refcount = 0 /\ r.owner = "none" /\ r.self = o /\ r.call_deleter
  BY <1>1 DEF HandleRecord
<1>3. PICK q \in TensorRecord : q = m.tensor[t]
  BY StoreParts
<1>4. PICK q2 : q2 = [q EXCEPT !.strides = TRUE]
  OBVIOUS
<1>5. q2 \in TensorRecord /\ q2.made = q.made /\ q2.holds = q.holds /\ q2.handle = q.handle
  BY <1>4 DEF TensorRecord
<1>6. PICK a : a = SetHandle(m, h, r)
  OBVIOUS
<1>7. /\ a \in Store /\ a.refs = m.refs /\ a.tensor = m.tensor /\ a.handle[h] = r
      /\ \A k \in Handles : k # h => a.handle[k] = m.handle[k]
  BY <1>2, <1>6, HandleSet
<1>8. PICK b : b = SetTensor(a, t, q2)
  OBVIOUS
<1>9. /\ b \in Store /\ b.refs = a.refs /\ b.handle = a.handle /\ b.tensor[t] = q2
      /\ \A s \in Tensors : s # t => b.tensor[s] = a.tensor[s]
  <2>1. a \in Store
    BY <1>7
  <2> QED BY <1>5, <1>8, <2>1, TensorSet
<1>10. PICK c : c = Referred(b, o)
  OBVIOUS
<1>11. /\ c \in Store /\ c.tensor = b.tensor /\ c.handle = b.handle
       /\ \A p \in Objects : c.refs[p] = b.refs[p] + (IF p = o THEN 1 ELSE 0)
  <2>1. b \in Store
    BY <1>9
  <2> QED BY <1>10, <2>1, ReferredIs
<1>12. PICK m2 : m2 = ndarray_inc_ref(c, h)
  OBVIOUS
<1>13. /\ m2 \in Store /\ m2.refs = c.refs /\ m2.tensor = c.tensor
       /\ m2.handle[h] = [c.handle[h] EXCEPT !.refcount = @ + 1]
       /\ \A k \in Handles : k # h => m2.handle[k] = c.handle[k]
  <2>1. c \in Store
    BY <1>11
  <2> QED BY <1>12, <2>1, IncRefIs
<1>14. b = [m EXCEPT !.handle[h] = r, !.tensor[t].strides = TRUE]
  BY <1>3, <1>4, <1>6, <1>8 DEF SetHandle, SetTensor, Store
<1>15. Taken(m, h, t, o) = m2
  BY <1>1, <1>10, <1>12, <1>14 DEF Taken
<1>16. Differ(m, m2, h, t)
  BY <1>7, <1>9, <1>11, <1>13 DEF Differ
<1>17. m2.tensor[t] = q2
  BY <1>9, <1>11, <1>13
<1>18. c.handle[h] = r
  BY <1>7, <1>9, <1>11
<1>19. PICK r2 : r2 = [r EXCEPT !.refcount = @ + 1]
  OBVIOUS
<1>20. /\ r2.tensor = t /\ r2.refcount = 1 /\ r2.owner = "none" /\ r2.self = o /\ r2.call_deleter
  BY <1>2, <1>19 DEF HandleRecord
<1>21. m2.handle[h] = r2
  BY <1>13, <1>18, <1>19
<1>22. \A p \in Objects : m2.refs[p] = m.refs[p] + (IF p = o THEN 1 ELSE 0)
  BY <1>7, <1>9, <1>11, <1>13
<1>23. m2 \in Store
  BY <1>13
<1> QED BY <1>3, <1>5, <1>15, <1>16, <1>17, <1>20, <1>21, <1>22, <1>23

LEMMA TakenKeeps ==
  ASSUME NEW m, NEW n, NEW u, NEW w, Good(m, n, u, w), NEW h \in Handles, m.handle[h] = NoHandle,
         NEW t \in Tensors, NEW o \in Objects \cup {"none"}, NEW u2, NEW w2, Takes(u, w, u2, w2, h, t)
  PROVE  Good(Taken(m, h, t, o), n, u2, w2)
<1>1. /\ m \in Store /\ n \in SUBSET Objects /\ \A p \in Objects : RefsGood(m, n, p)
      /\ TensorGood(m, w, t) /\ HandleGood(m, u, w, h)
  BY DEF Good
<1>2. PICK m2 : m2 = Taken(m, h, t, o)
  OBVIOUS
<1>3. /\ m2 \in Store /\ Differ(m, m2, h, t)
      /\ m2.tensor[t].made = m.tensor[t].made /\ m2.tensor[t].holds = m.tensor[t].holds
      /\ m2.tensor[t].handle = m.tensor[t].handle
      /\ m2.handle[h].tensor = t /\ m2.handle[h].refcount = 1 /\ m2.handle[h].owner = "none"
      /\ m2.handle[h].self = o /\ m2.handle[h].call_deleter
      /\ \A p \in Objects : m2.refs[p] = m.refs[p] + (IF p = o THEN 1 ELSE 0)
  BY <1>1, <1>2, TakenIs
<1>4. t # "none"
  BY ArraysAssumption
<1>5. m.handle[h].tensor = "none" /\ m.handle[h].owner = "none" /\ m.handle[h].self = "none"
  BY DEF NoHandle
<1>6. u[h] = 0
  BY <1>1, <1>5 DEF HandleGood
<1>7. UsersChange(u, w, u2, w2, h, t) /\ u2[h] = u[h] + 1 /\ w2[t] = w[t] - 1 /\ w[t] > 0 /\ w[t] \in Nat
  BY DEF Takes, Good
<1>8. /\ Cardinality(Takers(m, t)) \in Nat /\ Cardinality(Takers(m2, t)) \in Nat
      /\ Cardinality(Takers(m2, t)) + 0 = Cardinality(Takers(m, t)) + 1
  <2>1. m.handle[h].tensor \in {t, "none"} /\ m2.handle[h].tensor \in {t, "none"}
    BY <1>3, <1>5
  <2>2. \A k \in Handles : k # h => m2.handle[k] = m.handle[k]
    BY <1>3 DEF Differ
  <2>3. /\ Cardinality(Takers(m, t)) \in Nat /\ Cardinality(Takers(m2, t)) \in Nat
        /\ Cardinality(Takers(m2, t)) + (IF m.handle[h].tensor = t THEN 1 ELSE 0)
             = Cardinality(Takers(m, t)) + (IF m2.handle[h].tensor = t THEN 1 ELSE 0)
    BY <1>1, <1>3, <2>1, <2>2, TakersChange
  <2> QED BY <1>3, <1>4, <1>5, <2>3
<1>9. w2[t] + Cardinality(Takers(m2, t)) = w[t] + Cardinality(Takers(m, t))
  BY <1>7, <1>8
<1>10. m.tensor[t].made # "no"
  BY <1>1, <1>7 DEF TensorGood
<1>11. m.tensor[t] \in TensorRecord
  BY <1>1, StoreParts
<1>12. m.tensor[t].handle # h
  <2>1. CASE m.tensor[t].made = "producer"
    BY <1>1, <2>1, ArraysAssumption DEF TensorGood
  <2>2. CASE m.tensor[t].made = "nanobind"
    BY <1>1, <1>4, <1>5, <2>2 DEF TensorGood
  <2> QED BY <1>10, <1>11, <2>1, <2>2 DEF TensorRecord
<1>13. ~IsMaker(m2, h)
  BY <1>3, <1>12 DEF IsMaker
<1>14. HandleGood(m2, u2, w2, h)
  <2>1. m2.handle[h].refcount > 0 /\ m2.handle[h].refcount = u2[h] + 0
    BY <1>3, <1>6, <1>7
  <2>2. m2.tensor[t].made # "no"
    BY <1>3, <1>10
  <2>3. m2.handle[h].call_deleter <=> ~IsMaker(m2, h)
    BY <1>3, <1>13
  <2> QED BY <1>3, <1>4, <1>13, <2>1, <2>2, <2>3 DEF HandleGood
<1>15. TensorGood(m2, w2, t)
  <2>1. m.tensor[t].made = "producer" => m2.tensor[t].handle = "none" /\ w2[t] + Cardinality(Takers(m2, t)) = 1
    BY <1>1, <1>3, <1>9 DEF TensorGood
  <2>2. m.tensor[t].made = "nanobind" =>
           m2.tensor[t].holds = "none" /\ m2.tensor[t].handle \in Handles /\ m2.handle[m2.tensor[t].handle].tensor = t
    BY <1>1, <1>3, <1>12 DEF TensorGood, Differ
  <2> QED BY <1>3, <1>10, <2>1, <2>2 DEF TensorGood
<1>16. Unnoticed(m, w, m2, w2, h, t)
  BY <1>3, <1>9, <1>10 DEF Unnoticed
<1>17. ASSUME NEW p \in Objects PROVE RefsGood(m2, n, p)
  <2>1. m2.refs[p] = m.refs[p] + (IF p = o THEN 1 ELSE 0)
    BY <1>3
  <2>2. m.handle[h].owner # p /\ m.handle[h].self # p /\ m2.handle[h].owner # p
    BY <1>3, <1>5, ArraysAssumption
  <2>3. m.refs[p] \in Int
    BY <1>1 DEF Store
  <2>4. Balanced(m, n, m2, n, h, t, p)
    BY <1>3, <2>1, <2>2, <2>3 DEF Balanced
  <2> QED BY <1>1, <1>3, <2>4, RefsChange
<1>18. TensorAt(m, h, t) /\ TensorAt(m2, h, t)
  BY <1>3, <1>5 DEF TensorAt
<1>19. Local(m, n, u, w, m2, n, u2, w2, h, t)
  BY <1>1, <1>3, <1>7, <1>14, <1>15, <1>16, <1>17, <1>18 DEF Local
<1>20. Good(m2, n, u2, w2)
  BY <1>19, LocalChange
<1> QED BY <1>2, <1>20

\* An array of C++: a tensor with the handle that made it, whose owner is o.
ArrayMade(m, h, t, o) ==
  ndarray_inc_ref([Referred(m, o) EXCEPT
    !.tensor[t] = [made |-> "nanobind", holds |-> "none", handle |-> h, strides |-> TRUE],
    !.handle[h] = [tensor |-> t, refcount |-> 0, owner |-> o, self |-> "none",
                   free_strides |-> TRUE, call_deleter |-> FALSE]], h)

LEMMA MadeIs ==
  ASSUME NEW m \in Store, NEW h \in Handles, NEW t \in Tensors, NEW o \in Objects \cup {"none"}
  PROVE  LET m2 == ArrayMade(m, h, t, o)
         IN  /\ m2 \in Store /\ Differ(m, m2, h, t)
             /\ m2.tensor[t].made = "nanobind" /\ m2.tensor[t].holds = "none" /\ m2.tensor[t].handle = h
             /\ m2.handle[h].tensor = t /\ m2.handle[h].refcount = 1 /\ m2.handle[h].owner = o
             /\ m2.handle[h].self = "none" /\ ~m2.handle[h].call_deleter
             /\ \A p \in Objects : m2.refs[p] = m.refs[p] + (IF p = o THEN 1 ELSE 0)
<1>1. PICK r : r = [tensor |-> t, refcount |-> 0, owner |-> o, self |-> "none",
                    free_strides |-> TRUE, call_deleter |-> FALSE]
  OBVIOUS
<1>2. /\ r \in HandleRecord /\ r.tensor = t /\ r.refcount = 0 /\ r.owner = o /\ r.self = "none" /\ ~r.call_deleter
  BY <1>1 DEF HandleRecord
<1>3. PICK q : q = [made |-> "nanobind", holds |-> "none", handle |-> h, strides |-> TRUE]
  OBVIOUS
<1>4. q \in TensorRecord /\ q.made = "nanobind" /\ q.holds = "none" /\ q.handle = h
  BY <1>3 DEF TensorRecord
<1>5. PICK a : a = Referred(m, o)
  OBVIOUS
<1>6. /\ a \in Store /\ a.tensor = m.tensor /\ a.handle = m.handle
      /\ \A p \in Objects : a.refs[p] = m.refs[p] + (IF p = o THEN 1 ELSE 0)
  BY <1>5, ReferredIs
<1>7. PICK b : b = SetTensor(a, t, q)
  OBVIOUS
<1>8. /\ b \in Store /\ b.refs = a.refs /\ b.handle = a.handle /\ b.tensor[t] = q
      /\ \A s \in Tensors : s # t => b.tensor[s] = a.tensor[s]
  <2>1. a \in Store
    BY <1>6
  <2> QED BY <1>4, <1>7, <2>1, TensorSet
<1>9. PICK c : c = SetHandle(b, h, r)
  OBVIOUS
<1>10. /\ c \in Store /\ c.refs = b.refs /\ c.tensor = b.tensor /\ c.handle[h] = r
       /\ \A k \in Handles : k # h => c.handle[k] = b.handle[k]
  <2>1. b \in Store
    BY <1>8
  <2> QED BY <1>2, <1>9, <2>1, HandleSet
<1>11. PICK m2 : m2 = ndarray_inc_ref(c, h)
  OBVIOUS
<1>12. /\ m2 \in Store /\ m2.refs = c.refs /\ m2.tensor = c.tensor
       /\ m2.handle[h] = [c.handle[h] EXCEPT !.refcount = @ + 1]
       /\ \A k \in Handles : k # h => m2.handle[k] = c.handle[k]
  <2>1. c \in Store
    BY <1>10
  <2> QED BY <1>11, <2>1, IncRefIs
<1>13. c = [a EXCEPT !.tensor[t] = q, !.handle[h] = r]
  BY <1>6, <1>7, <1>9 DEF SetHandle, SetTensor, Store
<1>14. ArrayMade(m, h, t, o) = m2
  BY <1>1, <1>3, <1>5, <1>11, <1>13 DEF ArrayMade
<1>15. Differ(m, m2, h, t)
  BY <1>6, <1>8, <1>10, <1>12 DEF Differ
<1>16. m2.tensor[t] = q
  BY <1>8, <1>10, <1>12
<1>17. PICK r2 : r2 = [r EXCEPT !.refcount = @ + 1]
  OBVIOUS
<1>18. r2.tensor = t /\ r2.refcount = 1 /\ r2.owner = o /\ r2.self = "none" /\ ~r2.call_deleter
  BY <1>2, <1>17 DEF HandleRecord
<1>19. m2.handle[h] = r2
  BY <1>10, <1>12, <1>17
<1>20. \A p \in Objects : m2.refs[p] = m.refs[p] + (IF p = o THEN 1 ELSE 0)
  BY <1>6, <1>8, <1>10, <1>12
<1>21. m2 \in Store
  BY <1>12
<1> QED BY <1>4, <1>14, <1>15, <1>16, <1>18, <1>19, <1>20, <1>21

\* The first or one more user of a handle.
JoinsHandle(u, u2, h) ==
  /\ u2 \in [Handles -> Nat] /\ u2[h] = u[h] + 1
  /\ \A k \in Handles : k # h => u2[k] = u[k]

\* A new array of C++ with its first user.
LEMMA MadeKeeps ==
  ASSUME NEW m, NEW n, NEW u, NEW w, Good(m, n, u, w), NEW h \in Handles, m.handle[h] = NoHandle,
         NEW t \in Tensors, m.tensor[t] = NoTensor, NEW o \in Objects \cup {"none"},
         NEW u2, JoinsHandle(u, u2, h)
  PROVE  Good(ArrayMade(m, h, t, o), n, u2, w)
<1>1. /\ m \in Store /\ n \in SUBSET Objects /\ \A p \in Objects : RefsGood(m, n, p)
      /\ HandleGood(m, u, w, h) /\ w \in [Tensors -> Nat]
  BY DEF Good
<1>2. PICK m2 : m2 = ArrayMade(m, h, t, o)
  OBVIOUS
<1>3. /\ m2 \in Store /\ Differ(m, m2, h, t)
      /\ m2.tensor[t].made = "nanobind" /\ m2.tensor[t].holds = "none" /\ m2.tensor[t].handle = h
      /\ m2.handle[h].tensor = t /\ m2.handle[h].refcount = 1 /\ m2.handle[h].owner = o
      /\ m2.handle[h].self = "none" /\ ~m2.handle[h].call_deleter
      /\ \A p \in Objects : m2.refs[p] = m.refs[p] + (IF p = o THEN 1 ELSE 0)
  BY <1>1, <1>2, MadeIs
<1>4. t # "none"
  BY ArraysAssumption
<1>5. m.handle[h].tensor = "none" /\ m.handle[h].owner = "none" /\ m.handle[h].self = "none"
  BY DEF NoHandle
<1>6. u[h] = 0 /\ u2[h] = 1 /\ w[t] = 0 /\ Takers(m, t) = {}
  <2>1. u[h] = 0
    BY <1>1, <1>5 DEF HandleGood
  <2>2. w[t] = 0 /\ Takers(m, t) = {}
    BY FreshTensorIs
  <2> QED BY <2>1, <2>2 DEF JoinsHandle
<1>7. UsersChange(u, w, u2, w, h, t)
  BY <1>1 DEF UsersChange, JoinsHandle
<1>8. Cardinality(Takers(m2, t)) = 1
  <2>1. Takers(m2, t) = {h}
    BY <1>3, <1>6 DEF Takers, Differ
  <2> QED BY <2>1, FS_Singleton
<1>9. IsMaker(m2, h)
  BY <1>3 DEF IsMaker
<1>10. HandleGood(m2, u2, w, h)
  <2>1. m2.handle[h].refcount > 0 /\ m2.handle[h].refcount = u2[h] + (w[t] + Cardinality(Takers(m2, t)) - 1)
    BY <1>3, <1>6, <1>8
  <2>2. m2.handle[h].call_deleter <=> ~IsMaker(m2, h)
    BY <1>3, <1>9
  <2>3. m2.tensor[t].made # "no"
    BY <1>3
  <2> QED BY <1>3, <1>4, <1>9, <2>1, <2>2, <2>3 DEF HandleGood
<1>11. TensorGood(m2, w, t)
  BY <1>3 DEF TensorGood
<1>12. Unnoticed(m, w, m2, w, h, t)
  BY <1>6 DEF Unnoticed, Takers
<1>13. ASSUME NEW p \in Objects PROVE RefsGood(m2, n, p)
  <2>1. m2.refs[p] = m.refs[p] + (IF p = o THEN 1 ELSE 0)
    BY <1>3
  <2>2. m.handle[h].owner # p /\ m.handle[h].self # p /\ m2.handle[h].self # p
    BY <1>3, <1>5, ArraysAssumption
  <2>3. m.tensor[t].holds # p /\ m2.tensor[t].holds # p
    BY <1>3, ArraysAssumption DEF NoTensor
  <2>4. m.refs[p] \in Int
    BY <1>1 DEF Store
  <2>5. Balanced(m, n, m2, n, h, t, p)
    BY <1>3, <2>1, <2>2, <2>3, <2>4 DEF Balanced
  <2> QED BY <1>1, <1>3, <2>5, RefsChange
<1>14. TensorAt(m, h, t) /\ TensorAt(m2, h, t)
  BY <1>3, <1>5 DEF TensorAt
<1>15. Local(m, n, u, w, m2, n, u2, w, h, t)
  BY <1>1, <1>3, <1>7, <1>10, <1>11, <1>12, <1>13, <1>14 DEF Local
<1>16. Good(m2, n, u2, w)
  BY <1>15, LocalChange
<1> QED BY <1>2, <1>16

OwnerSet(m, h, o) == Referred([m EXCEPT !.handle[h].owner = o], o)

\* reference_internal gives a handle the owner that it lacks.
LEMMA OwnerKeeps ==
  ASSUME NEW m, NEW n, NEW u, NEW w, Good(m, n, u, w), NEW h \in Handles, m.handle[h].tensor # "none",
         m.handle[h].owner = "none", NEW o \in Objects
  PROVE  Good(OwnerSet(m, h, o), n, u, w)
<1>1. /\ m \in Store /\ n \in SUBSET Objects /\ \A p \in Objects : RefsGood(m, n, p)
      /\ HandleGood(m, u, w, h) /\ u \in [Handles -> Nat] /\ w \in [Tensors -> Nat]
      /\ \A s \in Tensors : TensorGood(m, w, s)
  BY DEF Good
<1>2. PICK r \in HandleRecord, t \in Tensors : r = m.handle[h] /\ r.tensor = t
  <2>1. PICK r \in HandleRecord : r = m.handle[h]
    BY <1>1, StoreParts
  <2> QED BY <2>1 DEF HandleRecord
<1>3. PICK q : q = [r EXCEPT !.owner = o]
  OBVIOUS
<1>4. /\ q \in HandleRecord /\ q.tensor = t /\ q.refcount = r.refcount /\ q.owner = o /\ q.self = r.self
      /\ q.call_deleter = r.call_deleter
  BY <1>2, <1>3 DEF HandleRecord
<1>5. PICK a : a = SetHandle(m, h, q)
  OBVIOUS
<1>6. /\ a \in Store /\ a.refs = m.refs /\ a.tensor = m.tensor /\ a.handle[h] = q
      /\ \A k \in Handles : k # h => a.handle[k] = m.handle[k]
  BY <1>1, <1>4, <1>5, HandleSet
<1>7. PICK m2 : m2 = Referred(a, o)
  OBVIOUS
<1>8. /\ m2 \in Store /\ m2.tensor = a.tensor /\ m2.handle = a.handle
      /\ \A p \in Objects : m2.refs[p] = a.refs[p] + (IF p = o THEN 1 ELSE 0)
  <2>1. a \in Store
    BY <1>6
  <2> QED BY <1>7, <2>1, ReferredIs
<1>9. OwnerSet(m, h, o) = m2
  <2>1. a = [m EXCEPT !.handle[h].owner = o]
    BY <1>1, <1>2, <1>3, <1>5 DEF SetHandle, Store
  <2> QED BY <1>7, <2>1 DEF OwnerSet
<1>10. m2.tensor = m.tensor /\ m2.handle[h] = q /\ \A k \in Handles : k # h => m2.handle[k] = m.handle[k]
  BY <1>6, <1>8
<1>11. Differ(m, m2, h, t)
  BY <1>10 DEF Differ
<1>12. \A k \in Handles : m2.handle[k].tensor = m.handle[k].tensor
  BY <1>2, <1>4, <1>10
<1>13. Takers(m2, t) = Takers(m, t) /\ t # "none"
  BY <1>12, ArraysAssumption DEF Takers
<1>14. IsMaker(m2, h) <=> IsMaker(m, h)
  BY <1>2, <1>4, <1>10 DEF IsMaker
<1>15. HandleGood(m2, u, w, h)
  <2>1. m2.handle[h].call_deleter = m.handle[h].call_deleter /\ m2.handle[h].refcount = m.handle[h].refcount
        /\ m2.handle[h].tensor = t /\ m.handle[h].tensor = t
    BY <1>2, <1>4, <1>10
  <2> QED BY <1>1, <1>10, <1>13, <1>14, <2>1 DEF HandleGood
<1>16. TensorGood(m2, w, t)
  BY <1>1, <1>10, <1>12, <1>13 DEF TensorGood
<1>17. Unnoticed(m, w, m2, w, h, t)
  <2>1. m.tensor[t].made # "no"
    BY <1>1, <1>2, <1>13 DEF HandleGood
  <2> QED BY <1>10, <1>13, <2>1 DEF Unnoticed
<1>18. ASSUME NEW p \in Objects PROVE RefsGood(m2, n, p)
  <2>1. m2.refs[p] = m.refs[p] + (IF p = o THEN 1 ELSE 0)
    BY <1>6, <1>8
  <2>2. m.handle[h].owner # p /\ m.handle[h].self = m2.handle[h].self /\ m2.handle[h].owner = o
    BY <1>2, <1>4, <1>10, ArraysAssumption
  <2>3. m.refs[p] \in Int
    BY <1>1 DEF Store
  <2>4. Balanced(m, n, m2, n, h, t, p)
    BY <1>10, <2>1, <2>2, <2>3 DEF Balanced
  <2> QED BY <1>1, <1>8, <1>11, <2>4, RefsChange
<1>19. TensorAt(m, h, t) /\ TensorAt(m2, h, t)
  BY <1>2, <1>12 DEF TensorAt
<1>20. UsersChange(u, w, u, w, h, t)
  BY <1>1 DEF UsersChange
<1>21. Local(m, n, u, w, m2, n, u, w, h, t)
  BY <1>1, <1>8, <1>11, <1>15, <1>16, <1>17, <1>18, <1>19, <1>20 DEF Local
<1>22. Good(m2, n, u, w)
  BY <1>21, LocalChange
<1> QED BY <1>9, <1>22

\* Names of Python come and go.
Renamed(m, n, m2, n2) ==
  /\ m2 \in Store /\ n2 \in SUBSET Objects /\ m2.handle = m.handle /\ m2.tensor = m.tensor
  /\ \A o \in Objects : m2.refs[o] + (IF o \in n THEN 1 ELSE 0) = m.refs[o] + (IF o \in n2 THEN 1 ELSE 0)

LEMMA NamesKeep ==
  ASSUME NEW m, NEW n, NEW u, NEW w, Good(m, n, u, w), NEW m2, NEW n2, Renamed(m, n, m2, n2)
  PROVE  Good(m2, n2, u, w)
<1> USE DEF Renamed
<1>1. /\ m \in Store /\ \A p \in Objects : RefsGood(m, n, p)
      /\ u \in [Handles -> Nat] /\ w \in [Tensors -> Nat]
      /\ \A h \in Handles : HandleGood(m, u, w, h)
      /\ \A s \in Tensors : TensorGood(m, w, s)
  BY DEF Good
<1>2. \A s \in Tensors : Takers(m2, s) = Takers(m, s)
  BY DEF Takers
<1>3. ASSUME NEW h \in Handles PROVE HandleGood(m2, u, w, h)
  <2>1. HandleGood(m, u, w, h) /\ (IsMaker(m2, h) <=> IsMaker(m, h)) /\ m.handle[h] \in HandleRecord
    BY <1>1, StoreParts DEF IsMaker
  <2>2. CASE m.handle[h].tensor = "none"
    BY <2>1, <2>2 DEF HandleGood
  <2>3. CASE m.handle[h].tensor # "none"
    <3>1. m.handle[h].tensor \in Tensors
      BY <2>1, <2>3 DEF HandleRecord
    <3>2. Takers(m2, m.handle[h].tensor) = Takers(m, m.handle[h].tensor)
      BY <1>2, <3>1
    <3> QED BY <2>1, <2>3, <3>2 DEF HandleGood
  <2> QED BY <2>2, <2>3
<1>4. ASSUME NEW s \in Tensors PROVE TensorGood(m2, w, s)
  BY <1>1, <1>2 DEF TensorGood
<1>5. ASSUME NEW o \in Objects PROVE RefsGood(m2, n2, o)
  <2>1. OwnedBy(m2, o) = OwnedBy(m, o) /\ SelfOf(m2, o) = SelfOf(m, o) /\ HeldBy(m2, o) = HeldBy(m, o)
    BY DEF OwnedBy, SelfOf, HeldBy
  <2>2. /\ Cardinality(OwnedBy(m, o)) \in Nat /\ Cardinality(SelfOf(m, o)) \in Nat
        /\ Cardinality(HeldBy(m, o)) \in Nat
    <3>1. OwnedBy(m, o) \in SUBSET Handles /\ SelfOf(m, o) \in SUBSET Handles /\ HeldBy(m, o) \in SUBSET Tensors
      BY DEF OwnedBy, SelfOf, HeldBy
    <3>2. IsFiniteSet(OwnedBy(m, o)) /\ IsFiniteSet(SelfOf(m, o)) /\ IsFiniteSet(HeldBy(m, o))
      BY <3>1, ArraysAssumption, FS_Subset
    <3> QED BY <3>2, FS_CardinalityType
  <2>3. m.refs[o] \in Int /\ m2.refs[o] \in Int
    BY <1>1 DEF Store
  <2>4. RefsGood(m, n, o) /\ m2.refs[o] + (IF o \in n THEN 1 ELSE 0) = m.refs[o] + (IF o \in n2 THEN 1 ELSE 0)
    BY <1>1
  <2> QED BY <2>1, <2>2, <2>3, <2>4 DEF RefsGood
<1> QED BY <1>1, <1>3, <1>4, <1>5 DEF Good

-----------------------------------------------------------------------------
(* Arrays: the invariant and the actions *)

Both(f, g, S) == [x \in S |-> f[x] + g[x]]

\* Every count and every structure is what its users, of C++ and of Python, make it.
Tracked ==
  /\ cpp \in [Handles -> Nat] /\ views \in [Handles -> Nat]
  /\ capsules \in [Tensors -> Nat] /\ consumers \in [Tensors -> Nat]
  /\ Good(store, named, Both(cpp, views, Handles), Both(capsules, consumers, Tensors))

\* What the inductive invariant says: an answer that misleads ends the run.
ArraysTracked == ~misled => Tracked

\* Two counts of users that differ by d at x.
Moved(u, u2, S, x, d) ==
  /\ u \in [S -> Nat] /\ u2 \in [S -> Nat] /\ u2[x] = u[x] + d
  /\ \A y \in S : y # x => u2[y] = u[y]

LEMMA BothMoved ==
  ASSUME NEW S, NEW f \in [S -> Nat], NEW g \in [S -> Nat], NEW x \in S, NEW d \in Int, NEW c \in Nat,
         c = f[x] + d
  PROVE  LET f2 == [f EXCEPT ![x] = c]
         IN  /\ f2 \in [S -> Nat]
             /\ Moved(Both(f, g, S), Both(f2, g, S), S, x, d) /\ Moved(Both(g, f, S), Both(g, f2, S), S, x, d)
<1>1. PICK f2 : f2 = [f EXCEPT ![x] = c]
  OBVIOUS
<1>2. f2 \in [S -> Nat] /\ f2[x] = c /\ \A y \in S : y # x => f2[y] = f[y]
  BY <1>1
<1>3. \A y \in S : f[y] \in Nat /\ g[y] \in Nat /\ f2[y] \in Nat
  BY <1>2
<1>4. Moved(Both(f, g, S), Both(f2, g, S), S, x, d)
  BY <1>2, <1>3 DEF Moved, Both
<1>5. Moved(Both(g, f, S), Both(g, f2, S), S, x, d)
  BY <1>2, <1>3 DEF Moved, Both
<1> QED BY <1>1, <1>2, <1>4, <1>5

LEMMA OneMore ==
  ASSUME NEW S, NEW f \in [S -> Nat], NEW g \in [S -> Nat], NEW x \in S
  PROVE  LET f2 == [f EXCEPT ![x] = @ + 1]
         IN  /\ f2 \in [S -> Nat]
             /\ Moved(Both(f, g, S), Both(f2, g, S), S, x, 1) /\ Moved(Both(g, f, S), Both(g, f2, S), S, x, 1)
<1>1. PICK c \in Nat : c = f[x] + 1
  OBVIOUS
<1>2. PICK f2 : f2 = [f EXCEPT ![x] = c]
  OBVIOUS
<1>3. 1 \in Int
  OBVIOUS
<1>4. /\ f2 \in [S -> Nat]
      /\ Moved(Both(f, g, S), Both(f2, g, S), S, x, 1) /\ Moved(Both(g, f, S), Both(g, f2, S), S, x, 1)
  BY <1>1, <1>2, <1>3, BothMoved
<1>5. f2 = [f EXCEPT ![x] = @ + 1]
  BY <1>1, <1>2
<1> QED BY <1>4, <1>5

LEMMA BothTyped ==
  ASSUME NEW S, NEW f \in [S -> Nat], NEW g \in [S -> Nat]
  PROVE  Both(f, g, S) \in [S -> Nat] /\ \A x \in S : Both(f, g, S)[x] = f[x] + g[x]
<1>1. \A y \in S : f[y] \in Nat /\ g[y] \in Nat
  OBVIOUS
<1> QED BY <1>1 DEF Both

\* A user of a handle keeps it in use.
LEMMA HandleInUse ==
  ASSUME NEW m, NEW n, NEW u, NEW w, Good(m, n, u, w), NEW h \in Handles, u[h] > 0
  PROVE  m.handle[h].tensor # "none"
<1>1. HandleGood(m, u, w, h)
  BY DEF Good
<1> QED BY <1>1 DEF HandleGood

\* A handle that is not in use has no user.
LEMMA NotInUse ==
  ASSUME NEW m, NEW n, NEW u, NEW w, Good(m, n, u, w), NEW h \in Handles, m.handle[h] = NoHandle
  PROVE  u[h] = 0
<1>1. HandleGood(m, u, w, h) /\ m.handle[h].tensor = "none"
  BY DEF Good, NoHandle
<1> QED BY <1>1 DEF HandleGood

LEMMA HandleShift ==
  ASSUME NEW m, NEW h \in Handles, NEW u, NEW w \in [Tensors -> Nat], NEW u2, NEW d \in Int,
         NEW t \in Tensors, Used(m, u, w, h, t), Moved(u, u2, Handles, h, d)
  PROVE  Shift(m, h, u, w, u2, w, d)
<1>1. /\ m.handle[h].tensor = t /\ u[h] \in Nat /\ w[t] \in Nat
  BY DEF Used
<1>2. UsersChange(u, w, u2, w, h, t)
  BY DEF UsersChange, Moved
<1>3. u2[h] \in Nat /\ u2[h] = u[h] + d
  BY DEF Moved
<1>4. u2[h] + w[t] = u[h] + w[t] + d
  BY <1>1, <1>3
<1> QED BY <1>1, <1>2, <1>3, <1>4 DEF Shift

LEMMA TensorShift ==
  ASSUME NEW m, NEW h \in Handles, NEW u \in [Handles -> Nat], NEW w, NEW w2, NEW d \in Int,
         NEW t \in Tensors, Used(m, u, w, h, t), IsMaker(m, h), Moved(w, w2, Tensors, t, d)
  PROVE  Shift(m, h, u, w, u, w2, d)
<1>1. /\ m.handle[h].tensor = t /\ u[h] \in Nat /\ w[t] \in Nat
  BY DEF Used
<1>2. UsersChange(u, w, u, w2, h, t)
  BY DEF UsersChange, Moved
<1>3. w2[t] \in Nat /\ w2[t] = w[t] + d
  BY DEF Moved
<1>4. u[h] + w2[t] = u[h] + w[t] + d
  BY <1>1, <1>3
<1> QED BY <1>1, <1>2, <1>4 DEF Shift

\* One user of a handle more, or less.
LEMMA HandleUser ==
  ASSUME NEW m, NEW n, NEW u, NEW w, Good(m, n, u, w), NEW h \in Handles, u[h] > 0, NEW u2
  PROVE  /\ Moved(u, u2, Handles, h, 1) => Good(ndarray_inc_ref(m, h), n, u2, w)
         /\ Moved(u, u2, Handles, h, -1) => Good(ndarray_dec_ref(m, h), n, u2, w)
<1>1. m.handle[h].tensor # "none"
  BY HandleInUse
<1>2. PICK t \in Tensors : Used(m, u, w, h, t)
  BY <1>1, UsedHandle
<1>3. w \in [Tensors -> Nat]
  BY DEF Good
<1>4. ASSUME Moved(u, u2, Handles, h, 1) PROVE Good(ndarray_inc_ref(m, h), n, u2, w)
  <2>1. 1 \in Int
    OBVIOUS
  <2>2. Shift(m, h, u, w, u2, w, 1)
    BY <1>2, <1>3, <1>4, <2>1, HandleShift
  <2> QED BY <1>1, <2>2, UseKeeps
<1>5. ASSUME Moved(u, u2, Handles, h, -1) PROVE Good(ndarray_dec_ref(m, h), n, u2, w)
  <2>1. -1 \in Int
    OBVIOUS
  <2>2. Shift(m, h, u, w, u2, w, -1)
    BY <1>2, <1>3, <1>5, <2>1, HandleShift
  <2> QED BY <1>1, <2>2, DecRefKeeps
<1> QED BY <1>4, <1>5

\* One user more of a tensor, for the handle that made it.
LEMMA TensorUser ==
  ASSUME NEW m, NEW n, NEW u, NEW w, Good(m, n, u, w), NEW h \in Handles, u[h] > 0, IsMaker(m, h),
         NEW t, t = m.handle[h].tensor, NEW w2, Moved(w, w2, Tensors, t, 1)
  PROVE  Good(ndarray_inc_ref(m, h), n, u, w2)
<1>1. m.handle[h].tensor # "none"
  BY HandleInUse
<1>2. PICK s \in Tensors : Used(m, u, w, h, s)
  BY <1>1, UsedHandle
<1>3. s = t
  BY <1>2 DEF Used
<1>4. u \in [Handles -> Nat] /\ 1 \in Int
  BY DEF Good
<1>5. Shift(m, h, u, w, u, w2, 1)
  BY <1>2, <1>3, <1>4, TensorShift
<1> QED BY <1>1, <1>5, UseKeeps

LEMMA FreshHandleIs ==
  ASSUME HandleIsFree
  PROVE  FreshHandle \in Handles /\ store.handle[FreshHandle] = NoHandle
BY DEF HandleIsFree, FreshHandle, IsHandle

LEMMA FreshTensorIsFree ==
  ASSUME TensorIsFree
  PROVE  FreshTensor \in Tensors /\ store.tensor[FreshTensor] = NoTensor
BY DEF TensorIsFree, FreshTensor, IsTensor

\* An array that C++ takes has one user of its new handle.
LEMMA FirstUser ==
  ASSUME Tracked, NEW h \in Handles, store.handle[h] = NoHandle, cpp' = [cpp EXCEPT ![h] = 1], UNCHANGED views
  PROVE  /\ cpp' \in [Handles -> Nat]
         /\ Moved(Both(cpp, views, Handles), Both(cpp', views', Handles), Handles, h, 1)
<1>1. PICK f \in [Handles -> Nat], g \in [Handles -> Nat] : f = cpp /\ g = views
  BY DEF Tracked
<1>2. PICK m : m = store
  OBVIOUS
<1>3. PICK u : u = Both(f, g, Handles)
  OBVIOUS
<1>4. u[h] = 0
  <2>1. PICK w : w = Both(capsules, consumers, Tensors)
    OBVIOUS
  <2>2. Good(m, named, u, w) /\ m.handle[h] = NoHandle
    BY <1>1, <1>2, <1>3, <2>1 DEF Tracked
  <2>3. PICK n : n = named
    OBVIOUS
  <2>4. Good(m, n, u, w)
    BY <2>2, <2>3
  <2> QED BY <2>2, <2>4, NotInUse
<1>5. f[h] = 0
  <2>1. u[h] = f[h] + g[h]
    BY <1>3, BothTyped
  <2>2. f[h] \in Nat /\ g[h] \in Nat
    OBVIOUS
  <2> QED BY <1>4, <2>1, <2>2
<1>6. PICK f2 : f2 = [f EXCEPT ![h] = 1]
  OBVIOUS
<1>7. /\ f2 \in [Handles -> Nat]
      /\ Moved(Both(f, g, Handles), Both(f2, g, Handles), Handles, h, 1)
  <2>1. 1 = f[h] + 1 /\ 1 \in Nat /\ 1 \in Int
    BY <1>5
  <2> QED BY <1>6, <2>1, BothMoved
<1> QED BY <1>1, <1>6, <1>7

LEMMA AcceptKeeps ==
  ASSUME Tracked, NEW o \in Objects, NEW l, Accept(o, l), UNCHANGED <<named, views, capsules, consumers>>
  PROVE  Tracked'
<1>1. PICK h : h = FreshHandle
  OBVIOUS
<1>2. PICK t : t = FreshTensor
  OBVIOUS
<1>3. h \in Handles /\ store.handle[h] = NoHandle /\ t \in Tensors /\ store.tensor[t] = NoTensor
  BY <1>1, <1>2, FreshHandleIs, FreshTensorIsFree DEF Accept
<1>4. PICK m : m = store
  OBVIOUS
<1>5. PICK n : n = named
  OBVIOUS
<1>6. PICK u : u = Both(cpp, views, Handles)
  OBVIOUS
<1>7. PICK w : w = Both(capsules, consumers, Tensors)
  OBVIOUS
<1>8. Good(m, n, u, w) /\ w \in [Tensors -> Nat] /\ m \in Store
  BY <1>4, <1>5, <1>6, <1>7 DEF Tracked, Good
<1>9. cpp' = [cpp EXCEPT ![h] = 1] /\ UNCHANGED views
  BY <1>1 DEF Accept
<1>10. PICK u2 : u2 = Both(cpp', views', Handles)
  OBVIOUS
<1>11. cpp' \in [Handles -> Nat] /\ Moved(u, u2, Handles, h, 1)
  BY <1>3, <1>6, <1>9, <1>10, FirstUser
<1>12. PICK w1 : w1 = [w EXCEPT ![t] = @ + 1]
  OBVIOUS
<1>13. w1 \in [Tensors -> Nat] /\ w1[t] = w[t] + 1 /\ \A s \in Tensors : s # t => w1[s] = w[s]
  BY <1>3, <1>8, <1>12
<1>14. Joins(w, w1, t)
  BY <1>13 DEF Joins
<1>15. PICK m1 : m1 = Produced(m, t, o, l)
  OBVIOUS
<1>16. Good(m1, n, u, w1)
  BY <1>3, <1>4, <1>8, <1>14, <1>15, ProducedKeeps
<1>17. m1.handle = m.handle
  <2>1. m1.handle = Referred(m, o).handle
    BY <1>15 DEF Produced
  <2> QED BY <1>8, <2>1, ReferredIs
<1>18. Takes(u, w1, u2, w, h, t)
  <2>1. w[t] \in Nat
    BY <1>3, <1>8
  <2>2. w1[t] > 0 /\ w[t] = w1[t] - 1
    BY <1>13, <2>1
  <2> QED BY <1>8, <1>11, <1>13, <2>2 DEF Takes, UsersChange, Moved
<1>19. PICK m2 : m2 = Taken(m1, h, t, o)
  OBVIOUS
<1>20. Good(m2, n, u2, w)
  BY <1>3, <1>4, <1>16, <1>17, <1>18, <1>19, TakenKeeps
<1>21. store' = m2
  BY <1>1, <1>2, <1>4, <1>15, <1>19 DEF Accept
<1> QED BY <1>5, <1>7, <1>10, <1>11, <1>20, <1>21 DEF Tracked

LEMMA ImportArrayKeeps ==
  ASSUME Tracked, NEW o \in Arrays, NEW offer, ImportArray(o, offer)
  PROVE  Tracked'
<1>1. UNCHANGED <<named, views, capsules, consumers>>
  BY DEF ImportArray
<1>2. CASE Accept(o, offer.layout)
  <2>1. o \in Objects
    BY DEF Objects
  <2> QED BY <1>1, <1>2, <2>1, AcceptKeeps
<1>3. CASE \E c \in Copies : Accept(c, ConvertedLayout(offer.layout, offer.req))
  <2>1. PICK c \in Copies : Accept(c, ConvertedLayout(offer.layout, offer.req))
    BY <1>3
  <2>2. c \in Objects
    BY DEF Objects
  <2> QED BY <1>1, <2>1, <2>2, AcceptKeeps
<1>4. CASE UNCHANGED <<store, cpp>>
  BY <1>1, <1>4 DEF Tracked
<1>5. \/ Accept(o, offer.layout)
      \/ \E c \in Copies : Accept(c, ConvertedLayout(offer.layout, offer.req))
      \/ UNCHANGED <<store, cpp>>
  BY DEF ImportArray
<1> QED BY <1>2, <1>3, <1>4, <1>5

LEMMA MakeCapsuleKeeps ==
  ASSUME Tracked, NEW o \in Arrays, MakeCapsule(o)
  PROVE  Tracked'
<1>1. PICK t : t = FreshTensor
  OBVIOUS
<1>2. t \in Tensors /\ store.tensor[t] = NoTensor
  BY <1>1, FreshTensorIsFree DEF MakeCapsule
<1>3. PICK m : m = store
  OBVIOUS
<1>4. PICK n : n = named
  OBVIOUS
<1>5. PICK u : u = Both(cpp, views, Handles)
  OBVIOUS
<1>6. PICK f \in [Tensors -> Nat], g \in [Tensors -> Nat] : f = capsules /\ g = consumers
  BY DEF Tracked
<1>7. PICK w : w = Both(f, g, Tensors)
  OBVIOUS
<1>8. Good(m, n, u, w) /\ o \in Objects
  BY <1>3, <1>4, <1>5, <1>6, <1>7 DEF Tracked, Objects
<1>9. f[t] = 0
  <2>1. w[t] = f[t] + g[t] /\ f[t] \in Nat /\ g[t] \in Nat
    BY <1>2, <1>7, BothTyped
  <2>2. w[t] = 0
    BY <1>2, <1>3, <1>8, FreshTensorIs
  <2> QED BY <2>1, <2>2
<1>10. PICK f2 : f2 = [f EXCEPT ![t] = 1]
  OBVIOUS
<1>11. PICK w2 : w2 = Both(f2, g, Tensors)
  OBVIOUS
<1>12. f2 \in [Tensors -> Nat] /\ Moved(w, w2, Tensors, t, 1)
  <2>1. 1 = f[t] + 1 /\ 1 \in Nat /\ 1 \in Int
    BY <1>9
  <2> QED BY <1>2, <1>7, <1>10, <1>11, <2>1, BothMoved
<1>13. Joins(w, w2, t)
  BY <1>12 DEF Joins, Moved
<1>14. PICK l : l = (CHOOSE k \in Offers : TRUE).layout
  OBVIOUS
<1>15. PICK m2 : m2 = Produced(m, t, o, l)
  OBVIOUS
<1>16. Good(m2, n, u, w2)
  BY <1>2, <1>3, <1>8, <1>13, <1>15, ProducedKeeps
<1>17. store' = m2 /\ capsules' = f2
  BY <1>1, <1>3, <1>6, <1>10, <1>14, <1>15 DEF MakeCapsule
<1>18. UNCHANGED <<named, cpp, views, consumers>>
  BY DEF MakeCapsule
<1> QED BY <1>4, <1>5, <1>6, <1>11, <1>12, <1>16, <1>17, <1>18 DEF Tracked

LEMMA ImportCapsuleKeeps ==
  ASSUME Tracked, NEW t \in Tensors, ImportCapsule(t)
  PROVE  Tracked'
<1>1. PICK h : h = FreshHandle
  OBVIOUS
<1>2. h \in Handles /\ store.handle[h] = NoHandle
  BY <1>1, FreshHandleIs DEF ImportCapsule
<1>3. PICK m : m = store
  OBVIOUS
<1>4. PICK n : n = named
  OBVIOUS
<1>5. PICK u : u = Both(cpp, views, Handles)
  OBVIOUS
<1>6. PICK f \in [Tensors -> Nat], g \in [Tensors -> Nat] : f = capsules /\ g = consumers
  BY DEF Tracked
<1>7. PICK w : w = Both(f, g, Tensors)
  OBVIOUS
<1>8. Good(m, n, u, w)
  BY <1>3, <1>4, <1>5, <1>6, <1>7 DEF Tracked
<1>9. cpp' = [cpp EXCEPT ![h] = 1] /\ UNCHANGED views
  BY <1>1 DEF ImportCapsule
<1>10. PICK u2 : u2 = Both(cpp', views', Handles)
  OBVIOUS
<1>11. cpp' \in [Handles -> Nat] /\ Moved(u, u2, Handles, h, 1)
  BY <1>2, <1>5, <1>9, <1>10, FirstUser
<1>12. PICK c \in Nat : c = f[t] - 1 /\ c = f[t] + (-1)
  <2>1. f[t] \in Nat /\ f[t] > 0
    BY <1>6 DEF ImportCapsule
  <2> QED BY <2>1
<1>13. PICK f2 : f2 = [f EXCEPT ![t] = c]
  OBVIOUS
<1>14. PICK w2 : w2 = Both(f2, g, Tensors)
  OBVIOUS
<1>15. f2 \in [Tensors -> Nat] /\ Moved(w, w2, Tensors, t, -1)
  <2>1. -1 \in Int
    OBVIOUS
  <2> QED BY <1>7, <1>12, <1>13, <1>14, <2>1, BothMoved
<1>16. Takes(u, w, u2, w2, h, t)
  <2>1. w[t] \in Nat /\ w2[t] \in Nat /\ w2[t] = w[t] + (-1)
    BY <1>15 DEF Moved
  <2>2. w[t] > 0 /\ w2[t] = w[t] - 1
    BY <2>1
  <2>3. UsersChange(u, w, u2, w2, h, t) /\ u2[h] = u[h] + 1
    BY <1>11, <1>15 DEF UsersChange, Moved
  <2> QED BY <2>2, <2>3 DEF Takes
<1>17. PICK m2 : m2 = Taken(m, h, t, "none")
  OBVIOUS
<1>18. Good(m2, n, u2, w2)
  <2>1. "none" \in Objects \cup {"none"} /\ m.handle[h] = NoHandle
    BY <1>2, <1>3
  <2> QED BY <1>2, <1>8, <1>16, <1>17, <2>1, TakenKeeps
<1>19. store' = m2 /\ capsules' = f2
  BY <1>1, <1>3, <1>6, <1>12, <1>13, <1>17 DEF ImportCapsule
<1>20. UNCHANGED <<named, views, consumers>>
  BY DEF ImportCapsule
<1> QED BY <1>4, <1>6, <1>10, <1>11, <1>14, <1>15, <1>18, <1>19, <1>20 DEF Tracked

LEMMA CreateKeeps ==
  ASSUME Tracked, NEW owner \in Owners \cup {"none"}, Create(owner)
  PROVE  Tracked'
<1>1. PICK h : h = FreshHandle
  OBVIOUS
<1>2. PICK t : t = FreshTensor
  OBVIOUS
<1>3. h \in Handles /\ store.handle[h] = NoHandle /\ t \in Tensors /\ store.tensor[t] = NoTensor
  BY <1>1, <1>2, FreshHandleIs, FreshTensorIsFree DEF Create
<1>4. PICK m : m = store
  OBVIOUS
<1>5. PICK n : n = named
  OBVIOUS
<1>6. PICK u : u = Both(cpp, views, Handles)
  OBVIOUS
<1>7. PICK w : w = Both(capsules, consumers, Tensors)
  OBVIOUS
<1>8. Good(m, n, u, w) /\ owner \in Objects \cup {"none"}
  BY <1>4, <1>5, <1>6, <1>7 DEF Tracked, Objects
<1>9. cpp' = [cpp EXCEPT ![h] = 1] /\ UNCHANGED views
  BY <1>1 DEF Create
<1>10. PICK u2 : u2 = Both(cpp', views', Handles)
  OBVIOUS
<1>11. cpp' \in [Handles -> Nat] /\ Moved(u, u2, Handles, h, 1)
  BY <1>3, <1>6, <1>9, <1>10, FirstUser
<1>12. JoinsHandle(u, u2, h)
  BY <1>11 DEF JoinsHandle, Moved
<1>13. PICK m2 : m2 = ArrayMade(m, h, t, owner)
  OBVIOUS
<1>14. Good(m2, n, u2, w)
  BY <1>3, <1>4, <1>8, <1>12, <1>13, MadeKeeps
<1>15. store' = m2
  BY <1>1, <1>2, <1>4, <1>13 DEF Create, ArrayMade
<1>16. UNCHANGED <<named, capsules, consumers>>
  BY DEF Create
<1> QED BY <1>5, <1>7, <1>9, <1>10, <1>11, <1>14, <1>15, <1>16 DEF Tracked

\* One array of C++ more or less, for the whole state.
LEMMA ArrayMoves ==
  ASSUME Tracked, NEW h \in Handles, UNCHANGED <<named, views, capsules, consumers>>, cpp[h] > 0,
         \/ store' = ndarray_inc_ref(store, h) /\ cpp' = [cpp EXCEPT ![h] = @ + 1]
         \/ store' = ndarray_dec_ref(store, h) /\ cpp' = [cpp EXCEPT ![h] = @ - 1]
  PROVE  Tracked'
<1>1. PICK m : m = store
  OBVIOUS
<1>2. PICK n : n = named
  OBVIOUS
<1>3. PICK f \in [Handles -> Nat], g \in [Handles -> Nat] : f = cpp /\ g = views
  BY DEF Tracked
<1>4. PICK u : u = Both(f, g, Handles)
  OBVIOUS
<1>5. PICK w : w = Both(capsules, consumers, Tensors)
  OBVIOUS
<1>6. Good(m, n, u, w)
  BY <1>1, <1>2, <1>3, <1>4, <1>5 DEF Tracked
<1>7. f[h] \in Nat /\ g[h] \in Nat /\ f[h] > 0
  BY <1>3
<1>8. u[h] > 0
  <2>1. u[h] = f[h] + g[h]
    BY <1>4, BothTyped
  <2> QED BY <1>7, <2>1
<1>9. CASE store' = ndarray_inc_ref(store, h) /\ cpp' = [cpp EXCEPT ![h] = @ + 1]
  <2>1. PICK c \in Nat : c = f[h] + 1
    BY <1>7
  <2>2. PICK f2 : f2 = [f EXCEPT ![h] = c]
    OBVIOUS
  <2>3. PICK u2 : u2 = Both(f2, g, Handles)
    OBVIOUS
  <2>4. f2 \in [Handles -> Nat] /\ Moved(u, u2, Handles, h, 1)
    <3>1. 1 \in Int
      OBVIOUS
    <3> QED BY <1>4, <2>1, <2>2, <2>3, <3>1, BothMoved
  <2>5. PICK m2 : m2 = ndarray_inc_ref(m, h)
    OBVIOUS
  <2>6. Good(m2, n, u2, w)
    BY <1>6, <1>8, <2>4, <2>5, HandleUser
  <2>7. store' = m2 /\ cpp' = f2
    BY <1>1, <1>3, <1>9, <2>1, <2>2, <2>5
  <2> QED BY <1>2, <1>3, <1>5, <2>3, <2>4, <2>6, <2>7 DEF Tracked
<1>10. CASE store' = ndarray_dec_ref(store, h) /\ cpp' = [cpp EXCEPT ![h] = @ - 1]
  <2>1. PICK c \in Nat : c = f[h] - 1 /\ c = f[h] + (-1)
    BY <1>7
  <2>2. PICK f2 : f2 = [f EXCEPT ![h] = c]
    OBVIOUS
  <2>3. PICK u2 : u2 = Both(f2, g, Handles)
    OBVIOUS
  <2>4. f2 \in [Handles -> Nat] /\ Moved(u, u2, Handles, h, -1)
    <3>1. -1 \in Int
      OBVIOUS
    <3> QED BY <1>4, <2>1, <2>2, <2>3, <3>1, BothMoved
  <2>5. PICK m2 : m2 = ndarray_dec_ref(m, h)
    OBVIOUS
  <2>6. Good(m2, n, u2, w)
    BY <1>6, <1>8, <2>4, <2>5, HandleUser
  <2>7. store' = m2 /\ cpp' = f2
    BY <1>1, <1>3, <1>10, <2>1, <2>2, <2>5
  <2> QED BY <1>2, <1>3, <1>5, <2>3, <2>4, <2>6, <2>7 DEF Tracked
<1> QED BY <1>9, <1>10

LEMMA CopyArrayKeeps == ASSUME Tracked, NEW h \in Handles, CopyArray(h) PROVE Tracked'
BY ArrayMoves DEF CopyArray

LEMMA DropArrayKeeps == ASSUME Tracked, NEW h \in Handles, DropArray(h) PROVE Tracked'
BY ArrayMoves DEF DropArray

LEMMA DropViewKeeps == ASSUME Tracked, NEW h \in Handles, DropView(h) PROVE Tracked'
<1>1. PICK m : m = store
  OBVIOUS
<1>2. PICK n : n = named
  OBVIOUS
<1>3. PICK f \in [Handles -> Nat], g \in [Handles -> Nat] : f = views /\ g = cpp
  BY DEF Tracked
<1>4. PICK u : u = Both(g, f, Handles)
  OBVIOUS
<1>5. PICK w : w = Both(capsules, consumers, Tensors)
  OBVIOUS
<1>6. Good(m, n, u, w)
  BY <1>1, <1>2, <1>3, <1>4, <1>5 DEF Tracked
<1>7. f[h] \in Nat /\ g[h] \in Nat /\ f[h] > 0
  BY <1>3 DEF DropView
<1>8. u[h] > 0
  <2>1. u[h] = g[h] + f[h]
    BY <1>4, BothTyped
  <2> QED BY <1>7, <2>1
<1>9. PICK c \in Nat : c = f[h] - 1 /\ c = f[h] + (-1)
  BY <1>7
<1>10. PICK f2 : f2 = [f EXCEPT ![h] = c]
  OBVIOUS
<1>11. PICK u2 : u2 = Both(g, f2, Handles)
  OBVIOUS
<1>12. f2 \in [Handles -> Nat] /\ Moved(u, u2, Handles, h, -1)
  <2>1. -1 \in Int
    OBVIOUS
  <2> QED BY <1>4, <1>9, <1>10, <1>11, <2>1, BothMoved
<1>13. PICK m2 : m2 = ndarray_dec_ref(m, h)
  OBVIOUS
<1>14. Good(m2, n, u2, w)
  BY <1>6, <1>8, <1>12, <1>13, HandleUser
<1>15. store' = m2 /\ views' = f2 /\ UNCHANGED <<named, cpp, capsules, consumers>>
  BY <1>1, <1>3, <1>9, <1>10, <1>13 DEF DropView
<1> QED BY <1>2, <1>3, <1>5, <1>11, <1>12, <1>14, <1>15 DEF Tracked

\* A capsule of a tensor goes.
LEMMA CapsuleKeeps ==
  ASSUME NEW m, NEW n, NEW u, NEW w, Good(m, n, u, w), NEW t \in Tensors, NEW w2, Moved(w, w2, Tensors, t, -1)
  PROVE  Good(CapsuleDestructor(m, t), n, u, w2) /\ Good(Deleter(m, t), n, u, w2)
<1>1. w[t] \in Nat /\ w2[t] \in Nat /\ w2[t] = w[t] + (-1)
  BY DEF Moved
<1>2. w[t] > 0 /\ w2[t] = w[t] - 1
  BY <1>1
<1>3. Leaves(w, w2, t)
  BY <1>2 DEF Leaves, Moved
<1>4. Good(Deleter(m, t), n, u, w2)
  BY <1>3, DeleterKeeps
<1>5. ASSUME Managed(m, t) PROVE Good(CapsuleDestructor(m, t), n, u, w2)
  <2>1. TensorGood(m, w, t) /\ u \in [Handles -> Nat] /\ m.tensor[t].made = "nanobind"
    BY <1>5 DEF Good, Managed
  <2>2. PICK h \in Handles : h = m.tensor[t].handle /\ m.handle[h].tensor = t
    BY <2>1 DEF TensorGood
  <2>3. m.handle[h].tensor # "none" /\ IsMaker(m, h)
    BY <2>2, ArraysAssumption DEF IsMaker
  <2>4. PICK s \in Tensors : Used(m, u, w, h, s)
    BY <2>3, UsedHandle
  <2>5. s = t
    BY <2>2, <2>4 DEF Used
  <2>6. -1 \in Int
    OBVIOUS
  <2>7. Shift(m, h, u, w, u, w2, -1)
    BY <2>1, <2>3, <2>4, <2>5, <2>6, TensorShift
  <2>8. Good(ndarray_dec_ref(m, h), n, u, w2)
    BY <2>3, <2>7, DecRefKeeps
  <2>9. CapsuleDestructor(m, t) = ndarray_dec_ref(m, h)
    BY <1>5, <2>2 DEF CapsuleDestructor
  <2> QED BY <2>8, <2>9
<1>6. ASSUME ~Managed(m, t) PROVE Good(CapsuleDestructor(m, t), n, u, w2)
  <2>1. CapsuleDestructor(m, t) = Deleter(m, t)
    BY <1>6 DEF CapsuleDestructor
  <2> QED BY <1>4, <2>1
<1> QED BY <1>4, <1>5, <1>6

LEMMA DropCapsuleKeeps == ASSUME Tracked, NEW t \in Tensors, DropCapsule(t) PROVE Tracked'
<1>1. PICK m : m = store
  OBVIOUS
<1>2. PICK n : n = named
  OBVIOUS
<1>3. PICK f \in [Tensors -> Nat], g \in [Tensors -> Nat] : f = capsules /\ g = consumers
  BY DEF Tracked
<1>4. PICK u : u = Both(cpp, views, Handles)
  OBVIOUS
<1>5. PICK w : w = Both(f, g, Tensors)
  OBVIOUS
<1>6. Good(m, n, u, w)
  BY <1>1, <1>2, <1>3, <1>4, <1>5 DEF Tracked
<1>7. PICK c \in Nat : c = f[t] - 1 /\ c = f[t] + (-1)
  <2>1. f[t] \in Nat /\ f[t] > 0
    BY <1>3 DEF DropCapsule
  <2> QED BY <2>1
<1>8. PICK f2 : f2 = [f EXCEPT ![t] = c]
  OBVIOUS
<1>9. PICK w2 : w2 = Both(f2, g, Tensors)
  OBVIOUS
<1>10. f2 \in [Tensors -> Nat] /\ Moved(w, w2, Tensors, t, -1)
  <2>1. -1 \in Int
    OBVIOUS
  <2> QED BY <1>5, <1>7, <1>8, <1>9, <2>1, BothMoved
<1>11. PICK m2 : m2 = CapsuleDestructor(m, t)
  OBVIOUS
<1>12. Good(m2, n, u, w2)
  BY <1>6, <1>10, <1>11, CapsuleKeeps
<1>13. store' = m2 /\ capsules' = f2 /\ UNCHANGED <<named, cpp, views, consumers>>
  BY <1>1, <1>3, <1>7, <1>8, <1>11 DEF DropCapsule
<1> QED BY <1>2, <1>3, <1>4, <1>9, <1>10, <1>12, <1>13 DEF Tracked

LEMMA ConsumerDoneKeeps == ASSUME Tracked, NEW t \in Tensors, ConsumerDone(t) PROVE Tracked'
<1>1. PICK m : m = store
  OBVIOUS
<1>2. PICK n : n = named
  OBVIOUS
<1>3. PICK f \in [Tensors -> Nat], g \in [Tensors -> Nat] : f = consumers /\ g = capsules
  BY DEF Tracked
<1>4. PICK u : u = Both(cpp, views, Handles)
  OBVIOUS
<1>5. PICK w : w = Both(g, f, Tensors)
  OBVIOUS
<1>6. Good(m, n, u, w)
  BY <1>1, <1>2, <1>3, <1>4, <1>5 DEF Tracked
<1>7. PICK c \in Nat : c = f[t] - 1 /\ c = f[t] + (-1)
  <2>1. f[t] \in Nat /\ f[t] > 0
    BY <1>3 DEF ConsumerDone
  <2> QED BY <2>1
<1>8. PICK f2 : f2 = [f EXCEPT ![t] = c]
  OBVIOUS
<1>9. PICK w2 : w2 = Both(g, f2, Tensors)
  OBVIOUS
<1>10. f2 \in [Tensors -> Nat] /\ Moved(w, w2, Tensors, t, -1)
  <2>1. -1 \in Int
    OBVIOUS
  <2> QED BY <1>5, <1>7, <1>8, <1>9, <2>1, BothMoved
<1>11. PICK m2 : m2 = Deleter(m, t)
  OBVIOUS
<1>12. Good(m2, n, u, w2)
  BY <1>6, <1>10, <1>11, CapsuleKeeps
<1>13. store' = m2 /\ consumers' = f2 /\ UNCHANGED <<named, cpp, views, capsules>>
  BY <1>1, <1>3, <1>7, <1>8, <1>11 DEF ConsumerDone
<1> QED BY <1>2, <1>3, <1>4, <1>9, <1>10, <1>12, <1>13 DEF Tracked

\* A capsule becomes a consumer: the tensor has the same users.
LEMMA ConsumeKeeps == ASSUME Tracked, NEW t \in Tensors, Consume(t) PROVE Tracked'
<1>1. PICK f \in [Tensors -> Nat], g \in [Tensors -> Nat] : f = capsules /\ g = consumers
  BY DEF Tracked
<1>2. f[t] \in Nat /\ f[t] > 0 /\ g[t] \in Nat
  BY <1>1 DEF Consume
<1>3. PICK c \in Nat, d \in Nat : c = f[t] - 1 /\ d = g[t] + 1
  BY <1>2
<1>4. PICK f2, g2 : f2 = [f EXCEPT ![t] = c] /\ g2 = [g EXCEPT ![t] = d]
  OBVIOUS
<1>5. f2 \in [Tensors -> Nat] /\ g2 \in [Tensors -> Nat]
  BY <1>4
<1>6. ASSUME NEW s \in Tensors PROVE f2[s] + g2[s] = f[s] + g[s]
  <2>1. CASE s = t
    BY <1>2, <1>3, <1>4, <2>1
  <2>2. CASE s # t
    BY <1>4, <2>2
  <2> QED BY <2>1, <2>2
<1>7. Both(f2, g2, Tensors) = Both(f, g, Tensors)
  BY <1>6 DEF Both
<1>8. capsules' = f2 /\ consumers' = g2 /\ UNCHANGED <<store, named, cpp, views>>
  BY <1>1, <1>3, <1>4 DEF Consume
<1> QED BY <1>1, <1>5, <1>7, <1>8 DEF Tracked

LEMMA DropNameKeeps == ASSUME Tracked, NEW o \in Objects, DropName(o) PROVE Tracked'
<1>1. PICK m : m = store
  OBVIOUS
<1>2. PICK n : n = named
  OBVIOUS
<1>3. PICK u : u = Both(cpp, views, Handles)
  OBVIOUS
<1>4. PICK w : w = Both(capsules, consumers, Tensors)
  OBVIOUS
<1>5. Good(m, n, u, w) /\ m \in Store /\ n \in SUBSET Objects /\ o \in n
  BY <1>1, <1>2, <1>3, <1>4 DEF Tracked, Good, DropName
<1>6. PICK m2 : m2 = Unreferred(m, o)
  OBVIOUS
<1>7. /\ m2 \in Store /\ m2.tensor = m.tensor /\ m2.handle = m.handle
      /\ \A p \in Objects : m2.refs[p] = m.refs[p] - (IF p = o THEN 1 ELSE 0)
  BY <1>5, <1>6, UnreferredIs
<1>8. PICK n2 : n2 = n \ {o}
  OBVIOUS
<1>9. ASSUME NEW p \in Objects
      PROVE  m2.refs[p] + (IF p \in n THEN 1 ELSE 0) = m.refs[p] + (IF p \in n2 THEN 1 ELSE 0)
  <2>1. m.refs[p] \in Int /\ m2.refs[p] = m.refs[p] - (IF p = o THEN 1 ELSE 0)
    BY <1>5, <1>7 DEF Store
  <2>2. CASE p = o
    BY <1>5, <1>8, <2>1, <2>2
  <2>3. CASE p # o
    <3>1. p \in n <=> p \in n2
      BY <1>8, <2>3
    <3> QED BY <2>1, <2>3, <3>1
  <2> QED BY <2>2, <2>3
<1>10. Renamed(m, n, m2, n2)
  BY <1>5, <1>7, <1>8, <1>9 DEF Renamed
<1>11. Good(m2, n2, u, w)
  BY <1>5, <1>10, NamesKeep
<1>12. store' = m2 /\ named' = n2 /\ UNCHANGED <<cpp, views, capsules, consumers>>
  BY <1>1, <1>2, <1>6, <1>8 DEF DropName
<1> QED BY <1>3, <1>4, <1>11, <1>12 DEF Tracked

LEMMA WithOwnerKeeps ==
  ASSUME Tracked, NEW h \in Handles, cpp[h] > 0, NEW policy, NEW self \in Selves \cup {"none"}
  PROVE  Good(WithOwner(h, policy, self), named, Both(cpp, views, Handles), Both(capsules, consumers, Tensors))
<1>1. PICK m : m = store
  OBVIOUS
<1>2. PICK n : n = named
  OBVIOUS
<1>3. PICK f \in [Handles -> Nat], g \in [Handles -> Nat] : f = cpp /\ g = views
  BY DEF Tracked
<1>4. PICK u : u = Both(f, g, Handles)
  OBVIOUS
<1>5. PICK w : w = Both(capsules, consumers, Tensors)
  OBVIOUS
<1>6. Good(m, n, u, w)
  BY <1>1, <1>2, <1>3, <1>4, <1>5 DEF Tracked
<1>7. u[h] > 0
  <2>1. u[h] = f[h] + g[h] /\ f[h] \in Nat /\ g[h] \in Nat /\ f[h] > 0
    BY <1>3, <1>4, BothTyped
  <2> QED BY <2>1
<1>8. m.handle[h].tensor # "none"
  BY <1>6, <1>7, HandleInUse
<1>9. PICK m2 : m2 = WithOwner(h, policy, self)
  OBVIOUS
<1>10. Good(m2, n, u, w)
  <2>1. CASE policy = "reference_internal" /\ self # "none" /\ m.handle[h].owner = "none"
    <3>1. self \in Objects
      BY <2>1 DEF Objects
    <3>2. m2 = OwnerSet(m, h, self)
      BY <1>1, <1>9, <2>1 DEF WithOwner, OwnerSet
    <3>3. Good(OwnerSet(m, h, self), n, u, w)
      BY <1>6, <1>8, <2>1, <3>1, OwnerKeeps
    <3> QED BY <3>2, <3>3
  <2>2. CASE ~(policy = "reference_internal" /\ self # "none" /\ m.handle[h].owner = "none")
    <3>1. m2 = m
      BY <1>1, <1>9, <2>2 DEF WithOwner
    <3> QED BY <1>6, <3>1
  <2> QED BY <2>1, <2>2
<1> QED BY <1>2, <1>3, <1>4, <1>5, <1>9, <1>10

LEMMA ReturnSelfKeeps ==
  ASSUME NEW m, NEW n, NEW u, NEW w, Good(m, n, u, w), NEW h \in Handles, m.handle[h].self # "none",
         NEW o, o = m.handle[h].self
  PROVE  Good(IF o \in n THEN m ELSE Referred(m, o), n \cup {o}, u, w)
<1>1. m \in Store /\ n \in SUBSET Objects
  BY DEF Good
<1>2. o \in Objects
  BY <1>1, StoreParts DEF HandleRecord
<1>3. PICK m2 : m2 = IF o \in n THEN m ELSE Referred(m, o)
  OBVIOUS
<1>4. PICK n2 : n2 = n \cup {o}
  OBVIOUS
<1>5. CASE o \in n
  <2>1. m2 = m /\ n2 = n
    BY <1>3, <1>4, <1>5
  <2> QED BY <1>3, <1>4, <2>1
<1>6. CASE o \notin n
  <2>1. m2 = Referred(m, o)
    BY <1>3, <1>6
  <2>2. /\ m2 \in Store /\ m2.tensor = m.tensor /\ m2.handle = m.handle
        /\ \A p \in Objects : m2.refs[p] = m.refs[p] + (IF p = o THEN 1 ELSE 0)
    BY <1>1, <1>2, <2>1, ReferredIs
  <2>3. ASSUME NEW p \in Objects
        PROVE  m2.refs[p] + (IF p \in n THEN 1 ELSE 0) = m.refs[p] + (IF p \in n2 THEN 1 ELSE 0)
    <3>1. m.refs[p] \in Int /\ m2.refs[p] = m.refs[p] + (IF p = o THEN 1 ELSE 0)
      BY <1>1, <2>2 DEF Store
    <3>2. CASE p = o
      BY <1>4, <1>6, <3>1, <3>2
    <3>3. CASE p # o
      <4>1. p \in n <=> p \in n2
        BY <1>4, <3>3
      <4> QED BY <3>1, <3>3, <4>1
    <3> QED BY <3>2, <3>3
  <2>4. n2 \in SUBSET Objects
    BY <1>1, <1>2, <1>4
  <2>5. Renamed(m, n, m2, n2)
    BY <2>2, <2>3, <2>4 DEF Renamed
  <2>6. Good(m2, n2, u, w)
    BY <2>5, NamesKeep
  <2> QED BY <1>3, <1>4, <2>6
<1> QED BY <1>5, <1>6

\* One capsule or one consumer more, or nothing more.
LEMMA TensorReturned ==
  ASSUME NEW m, NEW n, NEW u, NEW f \in [Tensors -> Nat], NEW g \in [Tensors -> Nat],
         Good(m, n, u, Both(f, g, Tensors)), NEW h \in Handles, u[h] > 0, IsMaker(m, h),
         NEW t, t = m.handle[h].tensor
  PROVE  LET f2 == [f EXCEPT ![t] = @ + 1]
             g2 == [g EXCEPT ![t] = @ + 1]
         IN  /\ f2 \in [Tensors -> Nat] /\ Good(ndarray_inc_ref(m, h), n, u, Both(f2, g, Tensors))
             /\ g2 \in [Tensors -> Nat] /\ Good(ndarray_inc_ref(m, h), n, u, Both(f, g2, Tensors))
<1>1. PICK w : w = Both(f, g, Tensors)
  OBVIOUS
<1>2. t \in Tensors
  <2>1. m.handle[h].tensor # "none"
    BY HandleInUse
  <2>2. m.handle[h] \in HandleRecord
    BY StoreParts DEF Good
  <2> QED BY <2>1, <2>2 DEF HandleRecord
<1>3. PICK f2 : f2 = [f EXCEPT ![t] = @ + 1]
  OBVIOUS
<1>4. PICK g2 : g2 = [g EXCEPT ![t] = @ + 1]
  OBVIOUS
<1>5. PICK w2 : w2 = Both(f2, g, Tensors)
  OBVIOUS
<1>6. PICK w3 : w3 = Both(f, g2, Tensors)
  OBVIOUS
<1>7. f2 \in [Tensors -> Nat] /\ Moved(w, w2, Tensors, t, 1)
  BY <1>1, <1>2, <1>3, <1>5, OneMore
<1>8. g2 \in [Tensors -> Nat] /\ Moved(w, w3, Tensors, t, 1)
  BY <1>1, <1>2, <1>4, <1>6, OneMore
<1>9. PICK m2 : m2 = ndarray_inc_ref(m, h)
  OBVIOUS
<1>10. Good(m, n, u, w)
  BY <1>1
<1>11. Good(m2, n, u, w2)
  BY <1>7, <1>9, <1>10, TensorUser
<1>12. Good(m2, n, u, w3)
  BY <1>8, <1>9, <1>10, TensorUser
<1> QED BY <1>3, <1>4, <1>5, <1>6, <1>7, <1>8, <1>9, <1>11, <1>12

LEMMA WrapKeeps ==
  ASSUME Tracked, NEW h \in Handles, NEW framework, NEW policy, NEW self \in Selves \cup {"none"},
         Wrap(h, framework, policy, self), ~misled'
  PROVE  Tracked'
<1>1. PICK m : m = WithOwner(h, policy, self)
  OBVIOUS
<1>2. PICK n : n = named
  OBVIOUS
<1>3. PICK a \in [Handles -> Nat], b \in [Handles -> Nat] : a = cpp /\ b = views
  BY DEF Tracked
<1>4. PICK f \in [Tensors -> Nat], g \in [Tensors -> Nat] : f = capsules /\ g = consumers
  BY DEF Tracked
<1>5. PICK u : u = Both(a, b, Handles)
  OBVIOUS
<1>6. PICK w : w = Both(f, g, Tensors)
  OBVIOUS
<1>7. cpp[h] > 0 /\ cpp' = cpp
  BY DEF Wrap
<1>8. Good(m, n, u, w)
  BY <1>1, <1>2, <1>3, <1>4, <1>5, <1>6, <1>7, WithOwnerKeeps
<1>9. u[h] > 0
  <2>1. u[h] = a[h] + b[h] /\ a[h] \in Nat /\ b[h] \in Nat /\ a[h] > 0
    BY <1>3, <1>5, <1>7, BothTyped
  <2> QED BY <2>1
<1>10. PICK copy : copy = IsCopied(m.handle[h], policy)
  OBVIOUS
<1>11. CASE m.handle[h].self # "none" /\ ReturnSelf(m, h)
  <2>1. PICK o : o = m.handle[h].self
    OBVIOUS
  <2>2. PICK m2 : m2 = IF o \in n THEN m ELSE Referred(m, o)
    OBVIOUS
  <2>3. Good(m2, n \cup {o}, u, w)
    BY <1>8, <1>11, <2>1, <2>2, ReturnSelfKeeps
  <2>4. store' = m2 /\ named' = n \cup {o} /\ UNCHANGED <<views, capsules, consumers>>
    BY <1>2, <1>11, <2>1, <2>2 DEF ReturnSelf
  <2> QED BY <1>3, <1>4, <1>5, <1>6, <1>7, <2>3, <2>4 DEF Tracked
<1>12. CASE UNCHANGED <<store, named, views, capsules, consumers>>
  BY <1>7, <1>12 DEF Tracked
<1>13. CASE store' = m /\ UNCHANGED <<named, views, capsules, consumers>>
  BY <1>2, <1>3, <1>4, <1>5, <1>6, <1>7, <1>8, <1>13 DEF Tracked
<1>14. CASE /\ store' = ndarray_inc_ref(m, h) /\ views' = [views EXCEPT ![h] = @ + 1]
            /\ UNCHANGED <<named, capsules, consumers>>
  <2>2. PICK b2 : b2 = [b EXCEPT ![h] = @ + 1]
    OBVIOUS
  <2>3. PICK u2 : u2 = Both(a, b2, Handles)
    OBVIOUS
  <2>4. b2 \in [Handles -> Nat] /\ Moved(u, u2, Handles, h, 1)
    BY <1>5, <2>2, <2>3, OneMore
  <2>5. PICK m2 : m2 = ndarray_inc_ref(m, h)
    OBVIOUS
  <2>6. Good(m2, n, u2, w)
    BY <1>8, <1>9, <2>4, <2>5, HandleUser
  <2>7. store' = m2 /\ views' = b2
    BY <1>3, <1>14, <2>2, <2>5
  <2> QED BY <1>2, <1>3, <1>4, <1>6, <1>7, <1>14, <2>3, <2>4, <2>6, <2>7 DEF Tracked
<1>15. PICK t : t = m.handle[h].tensor
  OBVIOUS
<1>16. CASE /\ IsMaker(m, h) /\ store' = ndarray_inc_ref(m, h) /\ capsules' = [capsules EXCEPT ![t] = @ + 1]
            /\ UNCHANGED <<named, views, consumers>>
  <2>1. PICK f2 : f2 = [f EXCEPT ![t] = @ + 1]
    OBVIOUS
  <2>2. PICK m2 : m2 = ndarray_inc_ref(m, h)
    OBVIOUS
  <2>3. f2 \in [Tensors -> Nat] /\ Good(m2, n, u, Both(f2, g, Tensors))
    BY <1>6, <1>8, <1>9, <1>15, <1>16, <2>1, <2>2, TensorReturned
  <2>4. store' = m2 /\ capsules' = f2
    BY <1>4, <1>16, <2>1, <2>2
  <2> QED BY <1>2, <1>3, <1>4, <1>5, <1>7, <1>16, <2>3, <2>4 DEF Tracked
<1>17. CASE /\ IsMaker(m, h) /\ store' = ndarray_inc_ref(m, h) /\ consumers' = [consumers EXCEPT ![t] = @ + 1]
            /\ UNCHANGED <<named, views, capsules>>
  <2>1. PICK g2 : g2 = [g EXCEPT ![t] = @ + 1]
    OBVIOUS
  <2>2. PICK m2 : m2 = ndarray_inc_ref(m, h)
    OBVIOUS
  <2>3. g2 \in [Tensors -> Nat] /\ Good(m2, n, u, Both(f, g2, Tensors))
    BY <1>6, <1>8, <1>9, <1>15, <1>17, <2>1, <2>2, TensorReturned
  <2>4. store' = m2 /\ consumers' = g2
    BY <1>4, <1>17, <2>1, <2>2
  <2> QED BY <1>2, <1>3, <1>4, <1>5, <1>7, <1>17, <2>3, <2>4 DEF Tracked
<1>18. ReturnNumpy(m, h, copy) =>
          \/ store' = m /\ UNCHANGED <<named, views, capsules, consumers>>
          \/ /\ store' = ndarray_inc_ref(m, h) /\ views' = [views EXCEPT ![h] = @ + 1]
             /\ UNCHANGED <<named, capsules, consumers>>
  BY DEF ReturnNumpy
<1>19. ReturnCapsule(m, h, copy) =>
          \/ store' = m /\ UNCHANGED <<named, views, capsules, consumers>>
          \/ /\ IsMaker(m, h) /\ store' = ndarray_inc_ref(m, h) /\ capsules' = [capsules EXCEPT ![t] = @ + 1]
             /\ UNCHANGED <<named, views, consumers>>
  BY <1>15 DEF ReturnCapsule
<1>20. ReturnTensor(m, h, copy) =>
          \/ store' = m /\ UNCHANGED <<named, views, capsules, consumers>>
          \/ /\ IsMaker(m, h) /\ store' = ndarray_inc_ref(m, h) /\ consumers' = [consumers EXCEPT ![t] = @ + 1]
             /\ UNCHANGED <<named, views, capsules>>
  BY <1>15 DEF ReturnTensor
<1>21. \/ m.handle[h].self # "none" /\ ReturnSelf(m, h)
       \/ UNCHANGED <<store, named, views, capsules, consumers>>
       \/ ReturnNumpy(m, h, copy)
       \/ ReturnTensor(m, h, copy)
       \/ store' = m /\ UNCHANGED <<named, views, capsules, consumers>>
       \/ ReturnCapsule(m, h, copy)
  BY <1>1, <1>10 DEF Wrap
<1> QED BY <1>11, <1>12, <1>13, <1>14, <1>16, <1>17, <1>18, <1>19, <1>20, <1>21

LEMMA InitTracked == ASSUME NdInit PROVE Tracked
<1>1. /\ cpp \in [Handles -> Nat] /\ views \in [Handles -> Nat]
      /\ capsules \in [Tensors -> Nat] /\ consumers \in [Tensors -> Nat]
  BY DEF NdInit
<1>2. PICK u : u = Both(cpp, views, Handles)
  OBVIOUS
<1>3. PICK w : w = Both(capsules, consumers, Tensors)
  OBVIOUS
<1>4. /\ u \in [Handles -> Nat] /\ w \in [Tensors -> Nat]
      /\ \A h \in Handles : u[h] = 0
      /\ \A t \in Tensors : w[t] = 0
  BY <1>2, <1>3 DEF NdInit, Both
<1>5. PICK m : m = store
  OBVIOUS
<1>6. PICK n : n = named
  OBVIOUS
<1>7. PICK r : r = [o \in Objects |-> IF o \in Arrays \cup Selves THEN 1 ELSE 0]
  OBVIOUS
<1>8. m = [refs |-> r, tensor |-> [t \in Tensors |-> NoTensor], handle |-> [h \in Handles |-> NoHandle]]
  BY <1>5, <1>7 DEF NdInit
<1>9. /\ m.refs = r /\ r \in [Objects -> Int] /\ n = Arrays \cup Selves /\ n \in SUBSET Objects
  BY <1>6, <1>7, <1>8 DEF NdInit, Objects
<1>10. /\ \A h \in Handles : m.handle[h] = NoHandle
       /\ \A t \in Tensors : m.tensor[t] = NoTensor
  BY <1>8
<1>11. m \in Store
  BY <1>8, <1>9, NoneTyped DEF Store
<1>12. ASSUME NEW h \in Handles PROVE HandleGood(m, u, w, h)
  BY <1>4, <1>10 DEF HandleGood, NoHandle
<1>13. ASSUME NEW t \in Tensors PROVE TensorGood(m, w, t)
  BY <1>4, <1>10 DEF TensorGood, NoTensor
<1>14. ASSUME NEW o \in Objects PROVE RefsGood(m, n, o)
  <2>1. OwnedBy(m, o) = {} /\ SelfOf(m, o) = {}
    BY <1>10, ArraysAssumption DEF OwnedBy, SelfOf, NoHandle
  <2>2. HeldBy(m, o) = {}
    BY <1>10, ArraysAssumption DEF HeldBy, NoTensor
  <2>3. Cardinality({}) = 0
    BY FS_EmptySet
  <2>4. m.refs[o] = IF o \in n THEN 1 ELSE 0
    BY <1>7, <1>9
  <2>5. m.refs[o] = (IF o \in n THEN 1 ELSE 0) + 0 + 0 + 0
    BY <2>4
  <2> QED BY <2>1, <2>2, <2>3, <2>5 DEF RefsGood
<1>15. Good(m, n, u, w)
  BY <1>4, <1>9, <1>11, <1>12, <1>13, <1>14 DEF Good
<1> QED BY <1>1, <1>2, <1>3, <1>5, <1>6, <1>15 DEF Tracked

LEMMA StepTracked == ASSUME ArraysTracked, [NdNext]_ndVars PROVE ArraysTracked'
<1> SUFFICES ASSUME ~misled' PROVE Tracked'
  BY DEF ArraysTracked
<1>1. CASE UNCHANGED ndVars
  BY <1>1 DEF ArraysTracked, Tracked, ndVars
<1>2. CASE \E o \in Arrays, offer \in Offers : ImportArray(o, offer)
  <2>1. PICK o \in Arrays, offer \in Offers : ImportArray(o, offer)
    BY <1>2
  <2>2. Tracked
    BY <2>1 DEF ArraysTracked, ImportArray
  <2> QED BY <2>1, <2>2, ImportArrayKeeps
<1>3. CASE \E o \in Arrays : MakeCapsule(o)
  <2>1. PICK o \in Arrays : MakeCapsule(o)
    BY <1>3
  <2>2. Tracked
    BY <2>1 DEF ArraysTracked, MakeCapsule
  <2> QED BY <2>1, <2>2, MakeCapsuleKeeps
<1>4. CASE \E t \in Tensors : ImportCapsule(t) \/ DropCapsule(t) \/ Consume(t) \/ ConsumerDone(t)
  <2>1. PICK t \in Tensors : ImportCapsule(t) \/ DropCapsule(t) \/ Consume(t) \/ ConsumerDone(t)
    BY <1>4
  <2>2. Tracked
    BY <2>1 DEF ArraysTracked, ImportCapsule, DropCapsule, Consume, ConsumerDone
  <2> QED BY <2>1, <2>2, ImportCapsuleKeeps, DropCapsuleKeeps, ConsumeKeeps, ConsumerDoneKeeps
<1>5. CASE \E owner \in Owners \cup {"none"} : Create(owner)
  <2>1. PICK owner \in Owners \cup {"none"} : Create(owner)
    BY <1>5
  <2>2. Tracked
    BY <2>1 DEF ArraysTracked, Create
  <2> QED BY <2>1, <2>2, CreateKeeps
<1>6. CASE \E h \in Handles : CopyArray(h) \/ DropArray(h) \/ DropView(h)
  <2>1. PICK h \in Handles : CopyArray(h) \/ DropArray(h) \/ DropView(h)
    BY <1>6
  <2>2. Tracked
    BY <2>1 DEF ArraysTracked, CopyArray, DropArray, DropView
  <2> QED BY <2>1, <2>2, CopyArrayKeeps, DropArrayKeeps, DropViewKeeps
<1>7. CASE \E h \in {h \in Handles : cpp[h] > 0}, framework \in Frameworks, policy \in Policies,
             self \in (Selves \cap named) \cup {"none"} : Wrap(h, framework, policy, self)
  <2>1. PICK h \in Handles, framework \in Frameworks, policy \in Policies, self \in Selves \cup {"none"} :
           Wrap(h, framework, policy, self)
    BY <1>7
  <2>2. Tracked
    BY <2>1 DEF ArraysTracked, Wrap
  <2> QED BY <2>1, <2>2, WrapKeeps
<1>8. CASE \E o \in Objects : DropName(o)
  <2>1. PICK o \in Objects : DropName(o)
    BY <1>8
  <2>2. Tracked
    BY <2>1 DEF ArraysTracked, DropName
  <2> QED BY <2>1, <2>2, DropNameKeeps
<1> QED BY <1>1, <1>2, <1>3, <1>4, <1>5, <1>6, <1>7, <1>8 DEF NdNext

LEMMA RefsCounted ==
  ASSUME NEW m, NEW n, NEW u, NEW w, Good(m, n, u, w), NEW o \in Objects
  PROVE  /\ m.refs[o] = (IF o \in n THEN 1 ELSE 0)
              + Cardinality({h \in Handles : m.handle[h].owner = o})
              + Cardinality({h \in Handles : m.handle[h].self = o})
              + Cardinality({t \in Tensors : m.tensor[t].holds = o})
         /\ (\/ o \in n
             \/ \E h \in Handles : o \in {m.handle[h].owner, m.handle[h].self}
             \/ \E t \in Tensors : o = m.tensor[t].holds)
              => m.refs[o] > 0
<1>1. RefsGood(m, n, o)
  BY DEF Good
<1>2. PICK A : A = OwnedBy(m, o)
  OBVIOUS
<1>3. PICK B : B = SelfOf(m, o)
  OBVIOUS
<1>4. PICK C : C = HeldBy(m, o)
  OBVIOUS
<1>5. A \in SUBSET Handles /\ B \in SUBSET Handles /\ C \in SUBSET Tensors
  BY <1>2, <1>3, <1>4 DEF OwnedBy, SelfOf, HeldBy
<1>6. IsFiniteSet(A) /\ IsFiniteSet(B) /\ IsFiniteSet(C)
  BY <1>5, ArraysAssumption, FS_Subset
<1>7. /\ Cardinality(A) \in Nat /\ Cardinality(B) \in Nat /\ Cardinality(C) \in Nat
  BY <1>6, FS_CardinalityType
<1>8. (Cardinality(A) = 0 <=> A = {}) /\ (Cardinality(B) = 0 <=> B = {}) /\ (Cardinality(C) = 0 <=> C = {})
  BY <1>6, FS_EmptySet
<1>9. m.refs[o] = (IF o \in n THEN 1 ELSE 0) + Cardinality(A) + Cardinality(B) + Cardinality(C)
  BY <1>1, <1>2, <1>3, <1>4 DEF RefsGood
<1>10. o \in n \/ A # {} \/ B # {} \/ C # {} => m.refs[o] > 0
  BY <1>7, <1>8, <1>9
<1>11. /\ (\E h \in Handles : o \in {m.handle[h].owner, m.handle[h].self}) => A # {} \/ B # {}
       /\ (\E t \in Tensors : o = m.tensor[t].holds) => C # {}
  BY <1>2, <1>3, <1>4 DEF OwnedBy, SelfOf, HeldBy
<1>12. /\ A = {h \in Handles : m.handle[h].owner = o} /\ B = {h \in Handles : m.handle[h].self = o}
       /\ C = {t \in Tensors : m.tensor[t].holds = o}
  BY <1>2, <1>3, <1>4 DEF OwnedBy, SelfOf, HeldBy
<1> QED BY <1>9, <1>10, <1>11, <1>12

LEMMA OthersOf ==
  ASSUME NEW m, NEW h \in Handles, NEW t, m.handle[h].tensor = t
  PROVE  /\ Cardinality(Takers(m, t)) \in Nat
         /\ Cardinality({k \in Handles \ {h} : m.handle[k].tensor = t}) = Cardinality(Takers(m, t)) - 1
<1>1. PICK A : A = {k \in Handles \ {h} : m.handle[k].tensor = t}
  OBVIOUS
<1>2. A \in SUBSET Handles /\ h \notin A /\ Takers(m, t) = A \cup {h}
  BY <1>1 DEF Takers
<1>3. IsFiniteSet(A)
  BY <1>2, ArraysAssumption, FS_Subset
<1>4. Cardinality(A) \in Nat /\ Cardinality(A \cup {h}) = Cardinality(A) + 1
  BY <1>2, <1>3, FS_CardinalityType, FS_AddElement
<1> QED BY <1>1, <1>2, <1>4

LEMMA TrackedIsShared == ASSUME ArraysTracked PROVE ArraysShared
<1> SUFFICES ASSUME ~misled PROVE ArraysShared
  BY DEF ArraysShared, DataLives, NothingLeaks
<1>1. PICK m : m = store
  OBVIOUS
<1>2. PICK n : n = named
  OBVIOUS
<1>3. PICK a \in [Handles -> Nat], b \in [Handles -> Nat] : a = cpp /\ b = views
  BY DEF ArraysTracked, Tracked
<1>4. PICK f \in [Tensors -> Nat], g \in [Tensors -> Nat] : f = capsules /\ g = consumers
  BY DEF ArraysTracked, Tracked
<1>5. PICK u : u = Both(a, b, Handles)
  OBVIOUS
<1>6. PICK w : w = Both(f, g, Tensors)
  OBVIOUS
<1>7. Good(m, n, u, w)
  BY <1>1, <1>2, <1>3, <1>4, <1>5, <1>6 DEF ArraysTracked, Tracked
<1>8. /\ \A h \in Handles : HandleGood(m, u, w, h)
      /\ \A t \in Tensors : TensorGood(m, w, t)
      /\ m \in Store /\ n \in SUBSET Objects
  BY <1>7 DEF Good
<1>9. /\ \A h \in Handles : m.handle[h] \in HandleRecord
      /\ \A t \in Tensors : m.tensor[t] \in TensorRecord
  BY <1>8, StoreParts
<1>10. /\ \A h \in Handles : u[h] = a[h] + b[h]
       /\ \A t \in Tensors : w[t] = f[t] + g[t]
  BY <1>5, <1>6, BothTyped
<1>11. ASSUME NEW h \in Handles, m.handle[h].tensor # "none" PROVE m.handle[h] # NoHandle
  BY <1>11 DEF NoHandle
<1>12. ASSUME NEW h \in Handles, cpp[h] + views[h] > 0 PROVE IsHandle(h) /\ IsTensor(store.handle[h].tensor)
  <2>1. u[h] > 0
    BY <1>3, <1>10, <1>12
  <2>2. m.handle[h].tensor # "none"
    BY <1>7, <2>1, HandleInUse
  <2>3. m.tensor[m.handle[h].tensor].made # "no"
    BY <1>8, <2>2 DEF HandleGood
  <2>4. m.tensor[m.handle[h].tensor] # NoTensor
    BY <2>3 DEF NoTensor
  <2> QED BY <1>1, <1>11, <2>2, <2>4 DEF IsHandle, IsTensor
<1>13. ASSUME NEW t \in Tensors, capsules[t] + consumers[t] > 0 PROVE IsTensor(t)
  <2>1. w[t] > 0
    BY <1>4, <1>10, <1>13
  <2>2. m.tensor[t].made # "no"
    BY <1>8, <2>1 DEF TensorGood
  <2> QED BY <1>1, <2>2 DEF IsTensor, NoTensor
<1>14. ASSUME NEW t \in Tensors, Managed(store, t) PROVE store.handle[store.tensor[t].handle].tensor = t
  BY <1>1, <1>8, <1>14 DEF TensorGood, Managed
<1>15. ASSUME NEW o \in named \cup {store.handle[h].owner : h \in Handles} \cup {store.handle[h].self : h \in Handles}
                    \cup {store.tensor[t].holds : t \in Tensors}, o # "none"
       PROVE  store.refs[o] > 0
  <2>1. \/ o \in n
        \/ \E h \in Handles : o \in {m.handle[h].owner, m.handle[h].self}
        \/ \E t \in Tensors : o = m.tensor[t].holds
    BY <1>1, <1>2
  <2>2. o \in Objects
    BY <1>8, <1>9, <1>15, <2>1 DEF HandleRecord, TensorRecord
  <2>3. m.refs[o] > 0
    BY <1>7, <2>1, <2>2, RefsCounted
  <2> QED BY <1>1, <2>3
<1>16. DataLives
  BY <1>12, <1>13, <1>14, <1>15 DEF DataLives
<1>17. ASSUME NEW h \in Handles, IsHandle(h) PROVE Users(h) > 0
  <2>1. m.handle[h].tensor # "none"
    <3>1. HandleGood(m, u, w, h) /\ m.handle[h] # NoHandle
      BY <1>1, <1>8, <1>17 DEF IsHandle
    <3> QED BY <3>1 DEF HandleGood
  <2>2. PICK t \in Tensors : Used(m, u, w, h, t)
    BY <1>7, <2>1, UsedHandle
  <2>3. m.handle[h].tensor = t
    BY <2>2 DEF Used
  <2>4. PICK c \in Nat : c = m.handle[h].refcount /\ c # 0
    BY <2>2 DEF Used
  <2>5. CASE IsMaker(m, h)
    <3>1. c = u[h] + (w[t] + Cardinality(Takers(m, t)) - 1)
      BY <2>2, <2>4, <2>5 DEF Used
    <3>2. PICK k : k = Cardinality({j \in Handles \ {h} : m.handle[j].tensor = t})
      OBVIOUS
    <3>3. Cardinality(Takers(m, t)) \in Nat /\ k = Cardinality(Takers(m, t)) - 1
      BY <2>3, <3>2, OthersOf
    <3>4. Users(h) = a[h] + b[h] + (f[t] + g[t] + k)
      BY <1>1, <1>3, <1>4, <2>3, <2>5, <3>2 DEF Users
    <3>5. /\ a[h] \in Nat /\ b[h] \in Nat /\ f[t] \in Nat /\ g[t] \in Nat
          /\ u[h] = a[h] + b[h] /\ w[t] = f[t] + g[t]
      BY <1>10
    <3> QED BY <2>4, <3>1, <3>3, <3>4, <3>5
  <2>6. CASE ~IsMaker(m, h)
    <3>1. c = u[h]
      BY <2>2, <2>4, <2>6 DEF Used
    <3>2. Users(h) = a[h] + b[h] + 0
      BY <1>1, <1>3, <2>6 DEF Users
    <3>3. a[h] \in Nat /\ b[h] \in Nat /\ u[h] = a[h] + b[h]
      BY <1>10
    <3> QED BY <2>4, <3>1, <3>2, <3>3
  <2> QED BY <2>5, <2>6
<1>18. ASSUME NEW t \in Tensors, IsTensor(t)
       PROVE  capsules[t] + consumers[t] > 0 \/ \E h \in Handles : store.handle[h].tensor = t
  <2>1. TensorGood(m, w, t) /\ m.tensor[t] # NoTensor /\ m.tensor[t] \in TensorRecord
    BY <1>1, <1>8, <1>9, <1>18 DEF IsTensor
  <2>2. CASE m.tensor[t].made = "producer"
    <3>1. w[t] + Cardinality(Takers(m, t)) = 1
      BY <2>1, <2>2 DEF TensorGood
    <3>2. f[t] \in Nat /\ g[t] \in Nat /\ w[t] = f[t] + g[t]
      BY <1>10
    <3>3. CASE Takers(m, t) = {}
      <4>1. Cardinality(Takers(m, t)) = 0
        BY <3>3, FS_EmptySet
      <4>2. f[t] + g[t] > 0
        BY <3>1, <3>2, <4>1
      <4> QED BY <1>4, <4>2
    <3>4. CASE Takers(m, t) # {}
      BY <1>1, <3>4 DEF Takers
    <3> QED BY <3>3, <3>4
  <2>3. CASE m.tensor[t].made = "nanobind"
    BY <1>1, <2>1, <2>3 DEF TensorGood
  <2> QED BY <2>1, <2>2, <2>3 DEF TensorGood, TensorRecord
<1>19. ASSUME NEW o \in Objects
       PROVE  store.refs[o] = (IF o \in named THEN 1 ELSE 0)
                                + Cardinality({h \in Handles : store.handle[h].owner = o})
                                + Cardinality({h \in Handles : store.handle[h].self = o})
                                + Cardinality({t \in Tensors : store.tensor[t].holds = o})
  <2>1. m.refs[o] = (IF o \in n THEN 1 ELSE 0)
                      + Cardinality({h \in Handles : m.handle[h].owner = o})
                      + Cardinality({h \in Handles : m.handle[h].self = o})
                      + Cardinality({t \in Tensors : m.tensor[t].holds = o})
    BY <1>7, RefsCounted
  <2> QED BY <1>1, <1>2, <2>1
<1>20. NothingLeaks
  BY <1>17, <1>18, <1>19 DEF NothingLeaks
<1> QED BY <1>16, <1>20 DEF ArraysShared

\* In every behaviour of the arrays (nb_ndarray.cpp), whatever the numbers of arrays, handles
\* and tensors and in whatever order the users go, everything that somebody may still read is
\* there, and everything is freed with its last user, until a capsule is made of a tensor that
\* its handle does not manage.
THEOREM ArraysAreShared == NdSpec => []ArraysShared
<1>1. NdInit => ArraysTracked
  BY InitTracked DEF ArraysTracked
<1>2. ArraysTracked /\ [NdNext]_ndVars => ArraysTracked'
  BY StepTracked
<1>3. ArraysTracked => ArraysShared
  BY TrackedIsShared
<1> QED BY <1>1, <1>2, <1>3, PTL DEF NdSpec

=============================================================================
