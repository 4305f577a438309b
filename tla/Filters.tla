------------------------------ MODULE Filters ------------------------------
(***************************************************************************)
(* Metadata values, their three-way comparison and the filter expression   *)
(* tree (include/toyvdb/metadata.hpp), with the JSON conversions of the    *)
(* REST server that build both (server/server.cpp).                        *)
(*                                                                         *)
(* A MetaValue is [type, v] with type one of the four alternatives of the  *)
(* variant.  A string's v is its rank in the lexicographic order, a bool's *)
(* is 0 or 1.  An int64 becomes a double before it is compared: to_double  *)
(* rounds to Mantissa bits, to the nearest and ties to even, as the cast   *)
(* does with 53.  A double is a representable number or NaN.               *)
(***************************************************************************)
EXTENDS Integers, FiniteSetsExt

CONSTANTS
    Mantissa,   \* bits of a double's significand
    IntBits,    \* bits of an int64
    NaN         \* the double that is not a number

Magnitude(n) == IF n < 0 THEN -n ELSE n

\* The distance between the doubles around n: the least power of two u such
\* that n has at most Mantissa bits when counted in units of u.
Ulp(n) == Min({2^e : e \in {e \in 0..Magnitude(n) : Magnitude(n) <= 2^(Mantissa + e)}})

\* static_cast<double>(std::int64_t)
to_double(n) ==
    LET u  == Ulp(n)
        lo == n \div u
        up == \/ 2 * (n % u) > u
              \/ 2 * (n % u) = u /\ lo % 2 = 1
    IN  IF up THEN (lo + 1) * u ELSE lo * u

Number(a) == a.type \in {"int64", "double"}

\* compare's as_number: defined for the two numeric alternatives
as_number(a) == IF a.type = "int64" THEN to_double(a.v) ELSE a.v

\* IEEE <: false when an operand is NaN
Less(x, y) == x # NaN /\ y # NaN /\ x < y

\* A plausible slip: the numbers compared after the cast of one side only.
compare_one_cast(a, b) ==
    LET order(x, y) == IF Less(x, y) THEN -1 ELSE IF Less(y, x) THEN 1 ELSE 0
    IN  IF Number(a) /\ Number(b) THEN {order(as_number(a), b.v)}
        ELSE IF a.type = b.type THEN {order(a.v, b.v)}
        ELSE {}

\* The outcome of a three-way comparison as the empty set (nullopt) or the
\* singleton of -1, 0 or 1.  Two numbers neither of which is less are equal,
\* a NaN included.
compare(a, b) ==
    LET order(x, y) == IF Less(x, y) THEN -1 ELSE IF Less(y, x) THEN 1 ELSE 0
    IN  IF Number(a) /\ Number(b) THEN {order(as_number(a), as_number(b))}
        ELSE IF a.type = b.type THEN {order(a.v, b.v)}
        ELSE {}

\* Filter::cmp, Filter::in, Filter::all_of, any_of and negate.  The children
\* are a set: no composite can tell their order or a repetition.
cmp(key, op, value) == [kind |-> "Cmp", key |-> key, cmp |-> op, value |-> value]
in(key, values)     == [kind |-> "In", key |-> key, set |-> values]
all_of(children)    == [kind |-> "And", children |-> children]
any_of(children)    == [kind |-> "Or", children |-> children]
negate(child)       == [kind |-> "Not", children |-> {child}]

eval_cmp(c, op) ==
    CASE op = "Eq" -> c = 0
      [] op = "Ne" -> c # 0
      [] op = "Lt" -> c < 0
      [] op = "Le" -> c <= 0
      [] op = "Gt" -> c > 0
      [] op = "Ge" -> c >= 0

\* Filter::matches.  Metadata is a function from its keys.
RECURSIVE matches(_, _)
matches(f, m) ==
    CASE f.kind = "Cmp" -> /\ f.key \in DOMAIN m
                           /\ \E c \in compare(m[f.key], f.value) : eval_cmp(c, f.cmp)
      [] f.kind = "In"  -> /\ f.key \in DOMAIN m
                           /\ \E v \in f.set : 0 \in compare(m[f.key], v)
      [] f.kind = "And" -> \A child \in f.children : matches(child, m)
      [] f.kind = "Or"  -> \E child \in f.children : matches(child, m)
      [] f.kind = "Not" -> \A child \in f.children : ~matches(child, m)

(***************************************************************************)
(* The server's conversions.  A JSON value is [json, v].  A JSON integer   *)
(* may be unsigned: get<std::int64_t> casts it, which wraps.  Anything     *)
(* that is neither string, boolean nor number is kept as the string it     *)
(* prints as, here the rank v.                                             *)
(***************************************************************************)
to_int64(n) == IF n >= 2^(IntBits - 1) THEN n - 2^IntBits ELSE n

json_to_meta_value(x) ==
    CASE x.json = "boolean" -> [type |-> "bool", v |-> x.v]
      [] x.json = "integer" -> [type |-> "int64", v |-> to_int64(x.v)]
      [] x.json = "float"   -> [type |-> "double", v |-> x.v]
      [] OTHER              -> [type |-> "string", v |-> x.v]

json_to_metadata(obj) == [key \in DOMAIN obj |-> json_to_meta_value(obj[key])]

\* An optional filter is a set of at most one: none for an empty object,
\* else the conjunction of one equality per member.
json_to_filter(obj) ==
    IF obj = <<>> THEN {}
    ELSE {all_of({cmp(key, "Eq", json_to_meta_value(obj[key])) : key \in DOMAIN obj})}
=============================================================================
