----------------------------- MODULE RobinHash -----------------------------
(***************************************************************************)
(* tsl::robin_map, the hash table of nanobind's registries (instances and  *)
(* types by address, keep_alive, functions): open addressing with robin    *)
(* hood hashing, a backward shift when an element is erased, growth by     *)
(* powers of two, and shrinking where the registry sets a minimum load.    *)
(* Iterators are bucket numbers; the operations are the ones that          *)
(* nanobind calls, and what those call.                                    *)
(***************************************************************************)
EXTENDS Naturals, Integers, Sequences, FiniteSetsExt

CONSTANTS
  Keys,
  HashOf,                        \* the hash of each key, [Keys -> Nat]
  DIST_FROM_IDEAL_BUCKET_LIMIT,  \* 8192 in the code
  MaxBucketCount                 \* bound: no insertion may grow the table beyond it

VARIABLES
  table,    \* the fields of a robin_hash
  present   \* the keys it should have

vars == <<table, present>>

EmptyBucket == [key |-> "none", dist |-> -1]

\* The constructor: the growth policy rounds the count up to a power of two, and 0 stays 0.
round_up_to_power_of_two(n) == Min({p \in n..2 * n : \E e \in 0..30 : p = 2 ^ e})

robin_hash(count, min_load) ==
  LET n == IF count = 0 THEN 0 ELSE round_up_to_power_of_two(count)
  IN  [buckets |-> [b \in 0..n - 1 |-> EmptyBucket], bucket_count |-> n, nb_elements |-> 0,
       min_load |-> min_load, grow_on_next_insert |-> FALSE, try_shrink_on_next_insert |-> FALSE]

load_threshold(t) == t.bucket_count \div 2   \* DEFAULT_MAX_LOAD_FACTOR is 0.5

\* With no buckets, m_buckets is one static empty bucket.
BucketAt(t, b) == IF t.bucket_count = 0 THEN EmptyBucket ELSE t.buckets[b]

BucketFrom(t, h, d) == IF t.bucket_count = 0 THEN 0 ELSE (h + d) % t.bucket_count

\* Where a search for a key with the hash h stops if it does not find it.
Stop(t, h) ==
  Min({d \in 0..t.bucket_count : d > BucketAt(t, BucketFrom(t, h, d)).dist})

\* The buckets in which a search finds the key: one, or none for end().
find_impl(t, k) ==
  {BucketFrom(t, HashOf[k], d) : d \in {e \in 0..Stop(t, HashOf[k]) - 1 :
     BucketAt(t, BucketFrom(t, HashOf[k], e)).key = k}}

-----------------------------------------------------------------------------
(* Insertion *)

\* Robin hood: from bucket b on, the value carried, at the distance d, takes the bucket of
\* a value that is nearer to its ideal one, and that value is carried on.  A swap at a
\* distance beyond limit asks for a rehash.
RECURSIVE Carry(_, _, _, _, _)
Carry(t, b, d, k, limit) ==
  LET there == t.buckets[b]
      next  == (b + 1) % t.bucket_count
  IN  IF there.dist = -1
      THEN [t EXCEPT !.buckets[b] = [key |-> k, dist |-> d]]
      ELSE IF d > there.dist
      THEN Carry([t EXCEPT !.buckets[b] = [key |-> k, dist |-> d],
                           !.grow_on_next_insert = @ \/ d > limit],
                 next, there.dist + 1, there.key, limit)
      ELSE Carry(t, next, d + 1, k, limit)

\* rehash_impl: every value of the old buckets, in their order, into a new table.
RECURSIVE Moved(_, _, _)
Moved(old, b, new) ==
  IF b = old.bucket_count THEN new
  ELSE LET k == old.buckets[b].key
       IN  Moved(old, b + 1,
                 IF old.buckets[b].dist = -1 THEN new
                 ELSE Carry(new, HashOf[k] % new.bucket_count, 0, k, MaxBucketCount))

rehash_impl(t, count) ==
  [Moved(t, 0, robin_hash(count, t.min_load)) EXCEPT !.nb_elements = t.nb_elements]

\* The load factor of 0.5 doubles the count.
rehash(t, count)  == rehash_impl(t, Max({count, 2 * t.nb_elements}))
reserve(t, count) == rehash(t, 2 * count)

\* GrowthPolicy::next_bucket_count; m_mask is 0 without buckets.
next_bucket_count(t) == 2 * Max({t.bucket_count, 1})

\* Mutant: the load may pass its threshold.
MustGrowLate(t, d) ==
  \/ t.grow_on_next_insert
  \/ d > DIST_FROM_IDEAL_BUCKET_LIMIT
  \/ t.nb_elements > load_threshold(t) \/ t.bucket_count = 0

\* rehash_on_extreme_load grows the table ...
MustGrow(t, d) ==
  \/ t.grow_on_next_insert
  \/ d > DIST_FROM_IDEAL_BUCKET_LIMIT
  \/ t.nb_elements >= load_threshold(t)

\* ... or shrinks it; min_load is in tenths.
MustShrink(t) ==
  t.try_shrink_on_next_insert /\ 10 * t.nb_elements < t.min_load * t.bucket_count

\* The loop of insert_impl that makes room for the key.
RECURSIVE WithRoom(_, _)
WithRoom(t, h) ==
  IF MustGrow(t, Stop(t, h)) THEN WithRoom(rehash_impl(t, next_bucket_count(t)), h)
  ELSE IF MustShrink(t)
  THEN WithRoom(reserve([t EXCEPT !.try_shrink_on_next_insert = FALSE], t.nb_elements + 1), h)
  ELSE [t EXCEPT !.try_shrink_on_next_insert = FALSE]

Placed(t, k) ==
  LET d == Stop(t, HashOf[k])
  IN  [Carry(t, BucketFrom(t, HashOf[k], d), d, k, DIST_FROM_IDEAL_BUCKET_LIMIT)
        EXCEPT !.nb_elements = @ + 1]

\* insert_impl, for try_emplace and insert.
insert_impl(t, k) == IF find_impl(t, k) # {} THEN t ELSE Placed(WithRoom(t, HashOf[k]), k)

-----------------------------------------------------------------------------
(* Erasure *)

\* Mutant: the last bucket ends the shift.
ShiftedUnwrapped(t, b) ==
  Min({j \in 1..t.bucket_count : b + j = t.bucket_count \/ t.buckets[(b + j) % t.bucket_count].dist <= 0})

\* The backward shift ends before a bucket that is empty or in its ideal place.
Shifted(t, b) ==
  Min({j \in 1..t.bucket_count : t.buckets[(b + j) % t.bucket_count].dist <= 0})

erase_from_bucket(t, b) ==
  LET n == t.bucket_count
      moved(c) == t.buckets[(c + 1) % n]
      behind(c) == (n + c - b) % n
  IN  [t EXCEPT !.nb_elements = @ - 1, !.try_shrink_on_next_insert = TRUE,
                !.buckets = [c \in 0..n - 1 |->
                   CASE behind(c) < Shifted(t, b) - 1 -> [moved(c) EXCEPT !.dist = @ - 1]
                     [] behind(c) = Shifted(t, b) - 1 -> EmptyBucket
                     [] OTHER -> @[c]]]

-----------------------------------------------------------------------------
Init == \E min_load \in {0, 1} : table = robin_hash(0, min_load) /\ present = {}

Insert(k) ==
  /\ table' = insert_impl(table, k)
  /\ table'.bucket_count <= MaxBucketCount
  /\ present' = present \cup {k}

\* erase by key, and erase_fast of what find returns.
Erase(k) ==
  /\ \E b \in find_impl(table, k) : table' = erase_from_bucket(table, b)
  /\ present' = present \ {k}

Next == \E k \in Keys : Insert(k) \/ Erase(k)

Spec == Init /\ [][Next]_vars

-----------------------------------------------------------------------------
(* Properties *)

\* A search finds a key exactly when it was inserted and not erased since, in one place,
\* whatever was displaced, shifted back around the end of the table, or rehashed since;
\* and the count that decides on growth is the number of keys.  (robin_hash.h: the search
\* ends at the first value that is nearer to its ideal bucket.)
FindsExactly ==
  /\ \A k \in Keys : Cardinality(find_impl(table, k)) = IF k \in present THEN 1 ELSE 0
  /\ table.nb_elements = Cardinality(present)

\* There is always an empty bucket, and half of them before an insertion, so that every
\* search ends: whatever grows, shrinks or is asked to grow leaves room for the elements.
HasRoom == table.nb_elements <= load_threshold(table)
=============================================================================
