---------------------------- MODULE JsonDocument ----------------------------
(***************************************************************************)
(* A Json::Value (src/src/jsoncpp.cpp) that is edited by its operations    *)
(* and through a Json::Path, read back by them, and walked by iterators.   *)
(* A call on a value of the wrong type aborts in JSON_ASSERT, so that a    *)
(* value that is null or of the right type is the guard of each operation. *)
(***************************************************************************)
EXTENDS JsonWriter

CONSTANTS
    DocNames,    \* names of members, from 1 on
    MaxIndex,    \* bound: indices of elements
    MaxDepth,    \* bound: depth of the document
    Payloads     \* what integers are written

VARIABLES
    doc,
    resized      \* the resize() just done: of what, to which size, from which
                 \* size, and whether it is aborted by its assertion
docVars == <<doc, resized>>

Null == Scalar(nullValue, 0)
NotResized == [place |-> <<>>, asked |-> 0, before |-> 0, aborted |-> FALSE]
Init == doc = Null /\ resized = NotResized

---------------------------------------------------------------------------
(* Reading.  Of a value that is not there, the operators return the static *)
(* Value::null, which get() and isMember() tell by its address.            *)

Empty(v, p) == v[p].type \in {nullValue, arrayValue, objectValue} /\ Size(v, p) = 0
IsMember(v, p, k) == Append(p, k) \in DOMAIN v
Get(v, p, k, default) == IF IsMember(v, p, k) THEN Sub(v, Append(p, k)) ELSE default
IsValidIndex(v, p, i) == i < Size(v, p)

\* Iterators know the keys that are left to them; begin() and end() of a
\* value that holds nothing by its type are null.
Iterator(v, p, keys) ==
    [isNull |-> v[p].type \notin {arrayValue, objectValue}, keys |-> keys]
Begin(v, p) == Iterator(v, p, Names(v, p))
End(v, p) == Iterator(v, p, <<>>)
IsEqual(i, j) == IF i.isNull THEN j.isNull ELSE i.keys = j.keys
Increment(i) == [i EXCEPT !.keys = Tail(@)]
\* operator=: isNull_ is not copied.
Copied(i, other) == [i EXCEPT !.keys = other.keys]
RECURSIVE Walk(_, _), Distance(_, _)
Walk(i, end) == IF IsEqual(i, end) THEN <<>> ELSE <<Head(i.keys)>> \o Walk(Increment(i), end)
Distance(i, end) ==
    IF (i.isNull /\ end.isNull) \/ i.keys = end.keys THEN 0 ELSE 1 + Distance(Increment(i), end)

---------------------------------------------------------------------------
(* Paths.  The text of one is a sequence of the signs "[", "]", "%" and    *)
(* ".", of names and of numbers; an argument is a key or an index.         *)

Key(k) == [kind |-> "key", n |-> k]
Index(i) == [kind |-> "index", n |-> i]
Odd == 0  \* a name that runs over several signs

EndOfName(text, c) ==
    Min({e \in c..Len(text) + 1 : e > Len(text) \/ text[e].t \in {"[", "."}})

\* addPathInArg: only the first argument that was given is ever used.
AddPathInArg(in, kind) == IF in # <<>> /\ in[1].kind = kind THEN <<in[1]>> ELSE <<>>

RECURSIVE MakePath(_, _, _)
\* makePath, from sign c on.  invalidPath() does nothing, so that what comes
\* instead of "]" is skipped; a "%" in brackets is.
MakePath(text, c, in) ==
    LET number == c < Len(text) /\ text[c + 1].t = "number"
        after == IF number THEN c + 2 ELSE c + 1
        next == IF after > Len(text) THEN after ELSE after + 1
        index == IF c < Len(text) /\ text[c + 1].t = "%" THEN AddPathInArg(in, "index")
                 ELSE <<Index(IF number THEN text[c + 1].n ELSE 0)>>
        end == EndOfName(text, c)
        name == IF end = c + 1 /\ text[c].t = "name" THEN text[c].n ELSE Odd
    IN  IF c > Len(text) THEN <<>>
        ELSE CASE text[c].t = "[" -> index \o MakePath(text, next, in)
               [] text[c].t = "%" -> AddPathInArg(in, "key") \o MakePath(text, c + 1, in)
               [] text[c].t = "." -> MakePath(text, c + 1, in)
               [] OTHER -> <<Key(name)>> \o MakePath(text, end, in)

Held(arg) == IF arg.kind = "index" THEN arrayValue ELSE objectValue

RECURSIVE ResolvePath(_, _, _, _)
\* resolve with a default: a gap of an array is null, though.
ResolvePath(v, p, args, default) ==
    IF args = <<>> THEN Sub(v, p)
    ELSE LET arg == Head(args)
             q == Append(p, arg.n)
         IN  IF v[p].type # Held(arg) THEN default
             ELSE IF q \in DOMAIN v THEN ResolvePath(v, q, Tail(args), default)
             ELSE IF arg.kind = "index" /\ IsValidIndex(v, p, arg.n)
                  THEN ResolvePath(Null, <<>>, Tail(args), default)
             ELSE default

---------------------------------------------------------------------------
(* Writing. *)

Typed(v, p, type) == IF v[p].type = nullValue THEN Assign(v, p, type, 0) ELSE v
May(v, p, type) == p \in DOMAIN v /\ v[p].type \in {nullValue, type}
\* operator[] that makes room.
At(v, p, k, type) == Resolve(Typed(v, p, type), p, k)
Without(v, ps) == [q \in DOMAIN v \ UNION {{p} \cup Under(v, p) : p \in ps} |-> v[q]]

RECURSIVE MayMake(_, _, _), MakeValue(_, _, _)
MayMake(v, p, args) ==
    (args # <<>> /\ p \in DOMAIN v) =>
        /\ May(v, p, Held(Head(args)))
        /\ MayMake(v, Append(p, Head(args).n), Tail(args))
\* Path::make
MakeValue(v, p, args) ==
    IF args = <<>> THEN v
    ELSE MakeValue(At(v, p, Head(args).n, Held(Head(args))), Append(p, Head(args).n), Tail(args))
Place(args) == [i \in 1..Len(args) |-> args[i].n]

Parents == {p \in DOMAIN doc : Len(p) < MaxDepth}
Edit(v) == doc' = v /\ resized' = NotResized

Write(p) ==
    \E n \in Payloads : Edit(Assign(doc, p, intValue, n)) \/ Edit(Assign(doc, p, nullValue, 0))
AddElement(p) ==
    /\ May(doc, p, arrayValue) /\ Size(doc, p) <= MaxIndex
    /\ \E n \in Payloads :
          LET i == Size(doc, p)
          IN  Edit(Assign(At(doc, p, i, arrayValue), Append(p, i), intValue, n))
AccessElement(p) == May(doc, p, arrayValue) /\ \E i \in 0..MaxIndex : Edit(At(doc, p, i, arrayValue))
AccessMember(p) == May(doc, p, objectValue) /\ \E k \in DocNames : Edit(At(doc, p, k, objectValue))
RemoveMember(p) ==
    /\ May(doc, p, objectValue)
    /\ \E k \in DocNames : Edit(Without(doc, {Append(p, k)} \cap DOMAIN doc))
Clear(p) ==
    /\ doc[p].type \in {nullValue, arrayValue, objectValue}
    /\ Edit([q \in DOMAIN doc \ Under(doc, p) |-> doc[q]])

\* What resize leaves: one element more at the end, or those below.
Resized(v, p, n) ==
    IF n > Size(v, p) THEN At(v, p, n - 1, arrayValue)
    ELSE Without(v, {Append(p, i) : i \in {i \in Keys(v, p) : i >= n}})
Resize(p) ==
    /\ May(doc, p, arrayValue)
    /\ \E n \in 0..MaxIndex + 1 :
          /\ doc' = Resized(Typed(doc, p, arrayValue), p, n)
          /\ resized' = [place |-> p, asked |-> n, before |-> Size(doc, p),
                         aborted |-> 0 < n /\ n <= Size(doc, p) /\ Size(doc', p) # n]
MakePlace(p) ==
    /\ p = <<>>
    /\ \E a \in {Index(i) : i \in 0..MaxIndex} \cup {Key(k) : k \in DocNames}, b \in {Index(0), Key(1)} :
          LET args == <<a, b>>
          IN  MayMake(doc, p, args) /\ Edit(MakeValue(doc, p, args))

Next == \E p \in Parents : ~resized.aborted /\
    (\/ Write(p) \/ AddElement(p) \/ AccessElement(p) \/ AccessMember(p)
     \/ RemoveMember(p) \/ Clear(p) \/ Resize(p) \/ MakePlace(p))
Spec == Init /\ [][Next]_docVars

---------------------------------------------------------------------------
(* jsoncpp.cpp:2641, at the end of resize(): "assert( size() == newSize )" *)
(* holds, and an array has the size that was asked for, but for one that   *)
(* is cut back to a gap: there the assertion fails.                        *)
CutToGap(r) == 0 < r.asked /\ r.asked < r.before /\ Append(r.place, r.asked - 1) \notin DOMAIN doc
SizeIsAsked ==
    resized # NotResized =>
        /\ Size(doc, resized.place) = resized.asked <=> ~CutToGap(resized)
        /\ resized.aborted <=> CutToGap(resized)

Args == {<<a>> : a \in {Index(i) : i \in 0..MaxIndex} \cup {Key(k) : k \in DocNames}}
        \cup {<<a, b>> : a \in {Index(0), Index(MaxIndex), Key(1), Key(2)}, b \in {Index(0), Key(1)}}
TextOf(args) ==
    FlattenSeq([i \in 1..Len(args) |->
        IF args[i].kind = "index"
        THEN <<Sign("["), Token("number", args[i].n, FALSE), Sign("]")>>
        ELSE <<Sign("."), Token("name", args[i].n, FALSE)>>])

(* A path leads where its text says; what is written where it leads is     *)
(* read there, and all other places stay as they were, but for gaps of an  *)
(* array that has grown, which become null (Path::makePath, make, resolve).*)
PathsLead ==
    \A args \in Args :
        /\ MakePath(TextOf(args), 1, <<>>) = args
        /\ MayMake(doc, <<>>, args) =>
            LET new == Assign(MakeValue(doc, <<>>, args), Place(args), stringValue, 7)
                Read(v, b) == ResolvePath(v, <<>>, b, Scalar(stringValue, 8))
            IN  /\ Equal(Read(new, args), Scalar(stringValue, 7))
                /\ \A b \in Args :
                    \/ IsPrefix(Place(b), Place(args)) \/ IsPrefix(Place(args), Place(b))
                    \/ Equal(Read(new, b), Read(doc, b))
                    \/ Equal(Read(doc, b), Scalar(stringValue, 8)) /\ Equal(Read(new, b), Null)

(* A walk from begin() to end() meets every member or element once, in     *)
(* order, and none of a scalar (ValueIteratorBase).                        *)
WalksMeetAll ==
    \A p \in DOMAIN doc :
        LET walk == Walk(Begin(doc, p), End(doc, p))
        IN  /\ ToSet(walk) = Keys(doc, p) /\ Len(walk) = Cardinality(Keys(doc, p))
            /\ \A i \in 1..Len(walk) - 1 : walk[i] < walk[i + 1]
            /\ Len(walk) = Distance(Begin(doc, p), End(doc, p))
            /\ Empty(doc, p) = (walk = <<>> /\ doc[p].type \in {nullValue, arrayValue, objectValue})

(* What was edited is written, by either writer, as what is read as the    *)
(* same again, the gaps of arrays being null (FastWriter, StyledWriter).   *)
Whole(v) ==
    LET Gaps == UNION {{Append(p, i) : i \in 0..Size(v, p) - 1} :
                       p \in {p \in DOMAIN v : v[p].type = arrayValue}}
    IN  [p \in DOMAIN v \cup Gaps |-> IF p \in DOMAIN v THEN v[p] ELSE Node(nullValue, 0)]
EditedIsKept ==
    \A text \in {WriteFast(doc), WriteStyled(doc)} :
        \A r \in {Parse(text)} : r.ok /\ Equal(r.value, Whole(doc))
============================================================================
