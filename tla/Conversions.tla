---------------------------- MODULE Conversions ----------------------------
(***************************************************************************)
(* nanobind's conversions of numbers and enumerators: load_int, load_f64   *)
(* and load_f32 (src/common.cpp), and the tables of an enumeration         *)
(* (src/nb_enum.cpp).  The widths are scaled: Word stands for the 64 bits  *)
(* of long, long long and Py_ssize_t, Digit for the 30 of a digit of a     *)
(* Python int, and the C++ integers are as wide as the constant says.      *)
(***************************************************************************)
EXTENDS SequencesExt, FiniteSetsExt, Integers

CONSTANTS
  Widths,       \* bits of the C++ integer types
  Word, Digit,
  Numbers,      \* the values of Python's numbers
  Enumerators,  \* the values that are tried with the enumeration
  MaxMembers    \* enumerators of the enumeration, at most

VARIABLES
  signed,       \* is_signed: the enumeration's underlying type is
  members,      \* its members, in order: their names stand for themselves, this is their value
  value_map,    \* _value2member_map_: value |-> member
  fwd, rev,     \* enum_tbl: key |-> member, member |-> key
  last          \* the conversion that was made last

vars == <<signed, members, value_map, fwd, rev, last>>

Refused == [ok |-> FALSE, value |-> 0]
Given(v) == [ok |-> TRUE, value |-> v]
NoConversion == [made |-> "none"]

IntTypes == [signed : BOOLEAN, bits : Widths]
Long(s) == [signed |-> s, bits |-> Word]

InRange(v, t) ==
  IF t.signed THEN -(2^(t.bits - 1)) <= v /\ v < 2^(t.bits - 1) ELSE 0 <= v /\ v < 2^t.bits

\* A C++ cast to an integer type.
Cast(v, t) ==
  LET m == v % (2^t.bits)
  IN  IF t.signed /\ m >= 2^(t.bits - 1) THEN m - 2^t.bits ELSE m

\* What Python code may pass: an int, an instance of a subclass of int (a bool, an
\* IntEnum of another type), an object with __index__, a string of digits, a float,
\* an instance of a subclass of float, or something else.
Objects(values) ==
  [type : {"int", "subint", "index", "digits", "float", "subfloat", "other"}, value : values]

Init ==
  /\ signed \in BOOLEAN
  /\ members = <<>> /\ value_map = <<>> /\ fwd = <<>> /\ rev = <<>>
  /\ last = NoConversion

-----------------------------------------------------------------------------
(* Integers *)

\* PyLong_AsLong and its like: -1, and an error, for what does not fit.
AsLong(v, t) ==
  IF InRange(v, t) THEN [value |-> v, error |-> FALSE]
  ELSE [value |-> Cast(-1, t), error |-> TRUE]

IsCompact(v) == -(2^Digit) < v /\ v < 2^Digit

FastPath(v, t) ==
  IF (~t.signed /\ v < 0) \/ (t.bits # Word /\ v # Cast(v, t)) THEN Refused ELSE Given(Cast(v, t))

\* Mutant: -1 is taken for an error without asking for one.
FailsAlways(p, t) == p.value = Cast(-1, t)

Fails(p, t) == p.value = Cast(-1, t) /\ p.error

SlowPath(v, t) ==
  LET wide == Long(t.signed)
      p == AsLong(v, wide)
  IN  IF Fails(p, wide) \/ (t.bits # Word /\ p.value # Cast(Cast(p.value, t), wide)) THEN Refused
      ELSE Given(Cast(p.value, t))

LoadExact(v, t) == IF IsCompact(v) THEN FastPath(v, t) ELSE SlowPath(v, t)

\* PyNumber_Long makes an int of what is not a float, and parses strings.
load_int(o, t, convert) ==
  IF o.type = "int" THEN LoadExact(o.value, t)
  ELSE IF convert /\ o.type \in {"subint", "index", "digits"} THEN LoadExact(o.value, t)
  ELSE Refused

\* load_f64 and load_f32.  PyFloat_AsDouble converts what has a value and is no
\* string; the numbers here are exact in both formats.
load_float(o, convert) ==
  IF o.type = "float" \/ (convert /\ o.type \in {"int", "subint", "index", "subfloat"})
  THEN Given(o.value) ELSE Refused

LoadInt(o, t, convert) ==
  /\ last = NoConversion /\ members = <<>>
  /\ last' = [made |-> "int", of |-> o, to |-> t, convert |-> convert, result |-> load_int(o, t, convert)]
  /\ UNCHANGED <<signed, members, value_map, fwd, rev>>

LoadFloat(o, convert) ==
  /\ last = NoConversion /\ members = <<>>
  /\ last' = [made |-> "float", of |-> o, convert |-> convert, result |-> load_float(o, convert)]
  /\ UNCHANGED <<signed, members, value_map, fwd, rev>>

-----------------------------------------------------------------------------
(* Enumerations *)

\* robin_map::emplace: an entry that is there stays.  Mutant: it is overwritten.
EmplaceOver(f, k, v) == [x \in DOMAIN f \union {k} |-> IF x = k THEN v ELSE f[x]]

Emplace(f, k, v) == IF k \in DOMAIN f THEN f ELSE [x \in DOMAIN f \union {k} |-> IF x = k THEN v ELSE f[x]]

Key(v) == Cast(v, Long(TRUE))     \* (int64_t) v

\* A name that is there already ends the process: every member has its own.
enum_append(v) ==
  LET m == Len(members) + 1 IN
  /\ last = NoConversion /\ Len(members) < MaxMembers
  /\ InRange(v, Long(signed))
  /\ members' = Append(members, v)
  /\ value_map' = IF v \in DOMAIN value_map THEN value_map
                  ELSE [x \in DOMAIN value_map \union {v} |-> IF x = v THEN m ELSE value_map[x]]
  /\ fwd' = Emplace(fwd, Key(v), m)
  /\ rev' = Emplace(rev, m, Key(v))
  /\ UNCHANGED <<signed, last>>

\* The number that PyLong_AsLongLong, for objects with __index__ too, or
\* PyLong_AsUnsignedLongLong, for ints only, makes of an object.
AsKey(o) ==
  IF ~InRange(o.value, Long(signed)) THEN Refused
  ELSE IF o.type \in {"int", "subint"} \/ (signed /\ o.type = "index") THEN Given(Key(o.value))
  ELSE Refused

\* The caster of an enumeration makes the C++ value of the key.
FromKey(k) == Cast(k, Long(signed))

enum_from_python(o, convert) ==
  IF o.type = "member" THEN
    IF o.value \in DOMAIN rev THEN Given(FromKey(rev[o.value])) ELSE Refused
  ELSE IF convert /\ AsKey(o).ok /\ AsKey(o).value \in DOMAIN fwd THEN
    Given(FromKey(AsKey(o).value))
  ELSE Refused

enum_from_cpp(v) == IF Key(v) \in DOMAIN fwd THEN Given(fwd[Key(v)]) ELSE Refused

FromPython(o, convert) ==
  /\ last = NoConversion /\ members # <<>>
  /\ last' = [made |-> "enum", of |-> o, convert |-> convert, result |-> enum_from_python(o, convert)]
  /\ UNCHANGED <<signed, members, value_map, fwd, rev>>

FromCpp(v) ==
  /\ last = NoConversion /\ members # <<>>
  /\ InRange(v, Long(signed))
  /\ last' = [made |-> "member", of |-> v, result |-> enum_from_cpp(v)]
  /\ UNCHANGED <<signed, members, value_map, fwd, rev>>

Next ==
  \/ \E o \in Objects(Numbers), t \in IntTypes, convert \in BOOLEAN : LoadInt(o, t, convert)
  \/ \E o \in Objects(Numbers), convert \in BOOLEAN : LoadFloat(o, convert)
  \/ \E v \in Enumerators : enum_append(v) \/ FromCpp(v)
  \/ \E o \in Objects(Enumerators) \union [type : {"member"}, value : 1 .. MaxMembers], convert \in BOOLEAN :
       FromPython(o, convert)

Spec == Init /\ [][Next]_vars

-----------------------------------------------------------------------------
(* Properties *)

\* An integer reaches C++ with its value, and is accepted, whatever its size and
\* that of the type, if and only if the type can hold it; a float never becomes an
\* integer (common.cpp:985).
NumbersExact ==
  /\ last.made = "int" =>
       last.result =
         IF InRange(last.of.value, last.to) /\ (last.of.type = "int" \/ (last.convert /\ last.of.type \in {"subint", "index", "digits"}))
         THEN Given(last.of.value) ELSE Refused
  /\ (last.made = "float" /\ last.result.ok) => last.result.value = last.of.value

\* C++ and Python agree on an enumeration: what C++ returns is the member that
\* Python's own lookup by value gives, the first of those that share it; a member
\* becomes the value it was defined with; and a number is accepted for a member only
\* if conversions are allowed and some member has it (nb_enum.cpp:148, 193).
EnumerationsAgree ==
  /\ last.made = "member" =>
       last.result = IF last.of \in DOMAIN value_map THEN Given(value_map[last.of]) ELSE Refused
  /\ last.made = "enum" =>
       IF last.of.type = "member" THEN
         last.result = IF last.of.value \in DOMAIN members THEN Given(members[last.of.value]) ELSE Refused
       ELSE last.result.ok => last.convert /\ last.of.value \in Range(members)
                                /\ last.result.value = last.of.value
=============================================================================
