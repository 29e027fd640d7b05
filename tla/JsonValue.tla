----------------------------- MODULE JsonValue -----------------------------
(***************************************************************************)
(* Json::Value (src/src/jsoncpp.cpp).  A document is a function from the   *)
(* paths of its values to their nodes: the children of p are the paths     *)
(* Append(p, k), with k the index in an array or the name in an object,    *)
(* the names being numbered in the order of strcmp, with 0 the empty one.  *)
(* The payload n of a scalar is its value; that of a real is twice it, so  *)
(* that halves are there too.  Sizes of integers are parameters.           *)
(***************************************************************************)
EXTENDS Integers, Sequences, FiniteSets, SequencesExt, FiniteSetsExt

CONSTANTS MaxInt,        \* maxInt: the largest Int
          MaxLargestInt  \* maxInt64: the largest LargestInt

\* enum ValueType
nullValue == 0
intValue == 1
uintValue == 2
realValue == 3
stringValue == 4
booleanValue == 5
arrayValue == 6
objectValue == 7

MinInt == -MaxInt - 1
MaxUInt == (2 * MaxInt) + 1
MinLargestInt == -MaxLargestInt - 1
MaxLargestUInt == (2 * MaxLargestInt) + 1

Node(type, n) == [type |-> type, n |-> n, before |-> <<>>, same |-> <<>>, after |-> <<>>]
Scalar(type, n) == <<>> :> Node(type, n)

Keys(v, p) == {Last(q) : q \in {q \in DOMAIN v : Len(q) = Len(p) + 1 /\ IsPrefix(p, q)}}
Under(v, p) == {q \in DOMAIN v : IsStrictPrefix(p, q)}
Sub(v, p) ==
    [q \in {SubSeq(r, Len(p) + 1, Len(r)) : r \in Under(v, p) \cup {p}} |-> v[p \o q]]

\* operator=(const Value &): the old contents go, the comments stay, as they
\* are not swapped.
Assign(v, p, type, n) ==
    [q \in DOMAIN v \ Under(v, p) |->
        IF q = p THEN [v[p] EXCEPT !.type = type, !.n = n] ELSE v[q]]

\* operator[]: a key that is not there is inserted as null.
Resolve(v, p, k) ==
    IF Append(p, k) \in DOMAIN v THEN v ELSE v @@ (Append(p, k) :> Node(nullValue, 0))

\* The size of an array is its highest index + 1.
Size(v, p) ==
    IF v[p].type = arrayValue /\ Keys(v, p) # {} THEN 1 + Max(Keys(v, p))
    ELSE Cardinality(Keys(v, p))

\* operator==: comments are not compared.
Plain(v) == [p \in DOMAIN v |-> <<v[p].type, v[p].n>>]
Equal(v, w) == Plain(v) = Plain(w)

RECURSIVE LessThan(_, _), MapLess(_, _, _, _)
\* The lexicographical order of two std::map of one size, from a key on.
MapLess(v, w, ks, ls) ==
    /\ ks # <<>>
    /\ \/ Head(ks) < Head(ls)
       \/ /\ Head(ks) = Head(ls)
          /\ \/ LessThan(Sub(v, <<Head(ks)>>), Sub(w, <<Head(ls)>>))
             \/ /\ ~ LessThan(Sub(w, <<Head(ls)>>), Sub(v, <<Head(ks)>>))
                /\ MapLess(v, w, Tail(ks), Tail(ls))

\* operator<
LessThan(v, w) ==
    LET a == v[<<>>]
        b == w[<<>>]
        ks == SetToSortSeq(Keys(v, <<>>), <)
        ls == SetToSortSeq(Keys(w, <<>>), <)
    IN  \/ a.type < b.type
        \/ /\ a.type = b.type
           /\ IF a.type \in {arrayValue, objectValue}
              THEN \/ Len(ks) < Len(ls)
                   \/ Len(ks) = Len(ls) /\ MapLess(v, w, ks, ls)
              ELSE a.n < b.n
---------------------------------------------------------------------------
(* Conversions of a scalar node; a failed one throws.                       *)

IsIntegral(d) == d.n % 2 = 0
InRange(d, low, high) == 2 * low <= d.n /\ d.n <= 2 * high

IsInt(d) ==
    \/ d.type = intValue /\ MinInt <= d.n /\ d.n <= MaxInt
    \/ d.type = uintValue /\ d.n <= MaxInt
    \/ d.type = realValue /\ InRange(d, MinInt, MaxInt) /\ IsIntegral(d)
IsUInt(d) ==
    \/ d.type = intValue /\ 0 <= d.n /\ d.n <= MaxUInt
    \/ d.type = uintValue /\ d.n <= MaxUInt
    \/ d.type = realValue /\ InRange(d, 0, MaxUInt) /\ IsIntegral(d)
IsInt64(d) ==
    \/ d.type = intValue
    \/ d.type = uintValue /\ d.n <= MaxLargestInt
    \/ /\ d.type = realValue
       /\ 2 * MinLargestInt <= d.n /\ d.n < 2 * (MaxLargestInt + 1)
       /\ IsIntegral(d)
IsUInt64(d) ==
    \/ d.type = intValue /\ 0 <= d.n
    \/ d.type = uintValue
    \/ d.type = realValue /\ 0 <= d.n /\ d.n < 2 * (MaxLargestUInt + 1) /\ IsIntegral(d)
IsNumeric(d) == d.type = realValue \/ IsInt64(d) \/ IsUInt64(d)

Failed == [fails |-> TRUE, n |-> 0]
Converted(n) == [fails |-> FALSE, n |-> n]
ToZero(n) == IF n >= 0 THEN n \div 2 ELSE -((-n) \div 2)
BooleanOrNull(d) == d.type \in {nullValue, booleanValue}

AsInt(d) ==
    CASE BooleanOrNull(d) -> Converted(d.n)
      [] d.type \in {intValue, uintValue} /\ IsInt(d) -> Converted(d.n)
      [] d.type = realValue /\ InRange(d, MinInt, MaxInt) -> Converted(ToZero(d.n))
      [] OTHER -> Failed
AsUInt(d) ==
    CASE BooleanOrNull(d) -> Converted(d.n)
      [] d.type \in {intValue, uintValue} /\ IsUInt(d) -> Converted(d.n)
      [] d.type = realValue /\ InRange(d, 0, MaxUInt) -> Converted(ToZero(d.n))
      [] OTHER -> Failed
\* asInt64 and asUInt64 take a real up to the double nearest to the limit,
\* which is one above it.
AsInt64(d) ==
    CASE BooleanOrNull(d) \/ d.type = intValue -> Converted(d.n)
      [] d.type = uintValue /\ IsInt64(d) -> Converted(d.n)
      [] d.type = realValue /\ InRange(d, MinLargestInt, MaxLargestInt + 1) -> Converted(ToZero(d.n))
      [] OTHER -> Failed
AsUInt64(d) ==
    CASE BooleanOrNull(d) \/ d.type = uintValue -> Converted(d.n)
      [] d.type = intValue /\ IsUInt64(d) -> Converted(d.n)
      [] d.type = realValue /\ InRange(d, 0, MaxLargestUInt + 1) -> Converted(ToZero(d.n))
      [] OTHER -> Failed
\* The result is twice the double, as for a real node.
AsDouble(d) ==
    CASE d.type = realValue -> Converted(d.n)
      [] BooleanOrNull(d) \/ d.type \in {intValue, uintValue} -> Converted(2 * d.n)
      [] OTHER -> Failed
AsBool(d) ==
    IF d.type \in {nullValue, booleanValue, intValue, uintValue, realValue}
    THEN Converted(IF d.n = 0 THEN 0 ELSE 1)
    ELSE Failed
AsString(d) ==
    IF d.type \in {arrayValue, objectValue} THEN Failed ELSE Converted(d.n)

IsConvertibleTo(d, type) ==
    CASE type = intValue ->
            IsInt(d) \/ BooleanOrNull(d) \/ (d.type = realValue /\ InRange(d, MinInt, MaxInt))
      [] type = uintValue ->
            IsUInt(d) \/ BooleanOrNull(d) \/ (d.type = realValue /\ InRange(d, 0, MaxUInt))
      [] type \in {realValue, booleanValue} -> IsNumeric(d) \/ BooleanOrNull(d)
      [] type = stringValue -> IsNumeric(d) \/ BooleanOrNull(d) \/ d.type = stringValue
      [] type \in {arrayValue, objectValue} -> d.type \in {type, nullValue}
============================================================================
