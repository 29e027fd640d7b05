----------------------------- MODULE JsonWriter -----------------------------
(***************************************************************************)
(* Json::FastWriter, StyledWriter and StyledStreamWriter (jsoncpp.cpp), as *)
(* the tokens they write.  Layout is kept where it decides what is         *)
(* written: an array on one line is put together from the texts of its     *)
(* elements, without their comments.  Every scalar is TokenWidth wide.     *)
(***************************************************************************)
EXTENDS JsonReader

CONSTANTS RightMargin,  \* rightMargin_
          TokenWidth

\* valueToString, valueToQuotedString
Text(d) ==
    Token(CASE d.type = nullValue -> "null"
            [] d.type = intValue -> "int"
            [] d.type = stringValue -> "string"
            [] d.type = booleanValue -> IF d.n = 1 THEN "true" ELSE "false",
          d.n, FALSE)
Sign(t) == Token(t, 0, FALSE)
Name(k) == <<Token("string", k, FALSE), Sign(":")>>
Names(v, p) == SetToSortSeq(Keys(v, p), <)

\* An element that is not there is read as null.
NodeAt(v, p) == IF p \in DOMAIN v THEN v[p] ELSE Node(nullValue, 0)

RECURSIVE Fast(_, _)
\* FastWriter::writeValue
Fast(v, p) ==
    LET d == NodeAt(v, p)
        Child(k) == Fast(v, Append(p, k))
        Comma(i) == IF i > 1 THEN <<Sign(",")>> ELSE <<>>
    IN  CASE d.type = arrayValue ->
                <<Sign("[")>>
                \o FlattenSeq([i \in 1..Size(v, p) |-> Comma(i) \o Child(i - 1)])
                \o <<Sign("]")>>
          [] d.type = objectValue ->
                <<Sign("{")>>
                \o FlattenSeq([i \in 1..Size(v, p) |->
                        Comma(i) \o Name(Names(v, p)[i]) \o Child(Names(v, p)[i])])
                \o <<Sign("}")>>
          [] OTHER -> <<Text(d)>>

Comments(cs) == [i \in 1..Len(cs) |-> Token("comment", cs[i], TRUE)]
BeforeValue(d) == Comments(d.before)
AfterValue(d) == Comments(d.same) \o Comments(d.after)

\* isMultineArray.  Whether an element has a comment is tested only once the
\* array is known to take several lines (isMultiLine && hasCommentForValue),
\* so it never has a say.
IsMultiLine(v, p) ==
    LET n == Size(v, p)
        Compound(q) == NodeAt(v, q).type \in {arrayValue, objectValue}
        Filled(q) == Compound(q) /\ Size(v, q) > 0
        Width(i) == IF Compound(Append(p, i)) THEN 2 ELSE TokenWidth
    IN  \/ n * 3 >= RightMargin
        \/ \E i \in 0..(n - 1) : Filled(Append(p, i))
        \/ 4 + ((n - 1) * 2) + MapThenSumSet(Width, 0..(n - 1)) >= RightMargin

RECURSIVE Styled(_, _)
\* StyledWriter::writeValue and writeArrayValue; the comments of an element
\* are written around it, that on its line after the comma that follows.
Styled(v, p) ==
    LET d == NodeAt(v, p)
        Member(k, i, n, text) ==
            LET q == Append(p, k)
            IN  BeforeValue(NodeAt(v, q)) \o text
                \o (IF i < n THEN <<Sign(",")>> ELSE <<>>) \o AfterValue(NodeAt(v, q))
        n == Size(v, p)
    IN  CASE d.type = arrayValue /\ IsMultiLine(v, p) ->
                <<Sign("[")>>
                \o FlattenSeq([i \in 1..n |-> Member(i - 1, i, n, Styled(v, Append(p, i - 1)))])
                \o <<Sign("]")>>
          [] d.type = arrayValue /\ ~ IsMultiLine(v, p) -> Fast(v, p)
          [] d.type = objectValue ->
                <<Sign("{")>>
                \o FlattenSeq([i \in 1..n |->
                        LET k == Names(v, p)[i]
                        IN  Member(k, i, n, Name(k) \o Styled(v, Append(p, k)))])
                \o <<Sign("}")>>
          [] OTHER -> <<Text(d)>>
WriteFast(v) == Fast(v, <<>>)
WriteStyled(v) == BeforeValue(v[<<>>]) \o Styled(v, <<>>) \o AfterValue(v[<<>>])
============================================================================
