----------------------------- MODULE JsonCheck ------------------------------
(***************************************************************************)
(* The JSON library on documents that grow by one token at a time, while   *)
(* they are shorter than MaxAnyTokens or the reader has found no error     *)
(* before their end, on numbers of up to MaxDigits digits, on texts of     *)
(* characters of Chars, and on pairs of values.                            *)
(***************************************************************************)
EXTENDS JsonWriter, JsonText

CONSTANTS MaxTokens, MaxAnyTokens, MaxDigits, Chars, MaxChars

VARIABLES kind,  \* what doc is: "tokens", "number", "string", "value"
          doc
vars == <<kind, doc>>

Alphabet ==
    {Token(t, 0, FALSE) : t \in {"{", "}", "[", "]", ",", ":", "null", "badstring", "error"}}
    \cup {Token("int", 7, FALSE)} \cup {Token("string", s, FALSE) : s \in 0..1}
    \cup {Token("comment", 9, nl) : nl \in BOOLEAN}

\* Nodes at the edges of the types, and values made of them.
Edges(type) ==
    CASE type \in {nullValue} -> {0}
      [] type = intValue -> {MinLargestInt, MinInt - 1, MinInt, -1, 0, MaxInt, MaxInt + 1, MaxUInt, MaxUInt + 1, MaxLargestInt}
      [] type = uintValue -> {0, MaxInt, MaxInt + 1, MaxUInt, MaxUInt + 1, MaxLargestInt, MaxLargestInt + 1, MaxLargestUInt}
      [] type = realValue ->
            UNION {{(2 * x) - 1, 2 * x, (2 * x) + 1} :
                   x \in {MinLargestInt, MinInt, 0, MaxInt, MaxUInt, MaxLargestInt + 1, MaxLargestUInt + 1}}
      [] type = stringValue -> {0, 1, 2}
      [] type = booleanValue -> {0, 1}
      [] OTHER -> {0}
Nodes == UNION {{Node(t, n) : n \in Edges(t)} : t \in nullValue..objectValue}
Leaves == {Scalar(nullValue, 0), Scalar(intValue, 1), Scalar(uintValue, 0), Scalar(stringValue, 1)}
Holding(type, m) ==
    [p \in {<<>>} \cup {<<k>> : k \in DOMAIN m} |->
        IF p = <<>> THEN Node(type, 0) ELSE m[p[1]][<<>>]]
Tables == UNION {{Holding(t, m) : m \in UNION {[K -> Leaves] : K \in {{}, {0}, {1}, {0, 1}, {1, 2}}}} :
                 t \in {arrayValue, objectValue}}

Init ==
    \/ kind = "tokens" /\ doc = <<>>
    \/ kind \in {"number", "negative"} /\ doc \in {<<d>> : d \in 0..9}
    \/ kind = "string" /\ doc = <<>>
    \/ kind = "value" /\ doc \in {<<v>> : v \in Leaves \cup Tables}

\* A document can be complete, break off, or be wrong for what it has already.
Extensible(r) == \/ Len(doc) < MaxAnyTokens
                 \/ r.errors = <<>> /\ r.token.t = "end"
                 \/ r.errors # <<>> /\ Head(r.errors) = "end"
AddToken ==
    /\ kind = "tokens" /\ Len(doc) < MaxTokens /\ Extensible(Parse(doc))
    /\ \E t \in Alphabet : doc' = Append(doc, t)
    /\ UNCHANGED kind
AddDigit ==
    /\ kind \in {"number", "negative"} /\ Len(doc) < MaxDigits
    /\ \E d \in 0..9 : doc' = Append(doc, d)
    /\ UNCHANGED kind
AddChar ==
    /\ kind = "string" /\ Len(doc) < MaxChars
    /\ \E c \in Chars : doc' = Append(doc, c)
    /\ UNCHANGED kind
Next == AddToken \/ AddDigit \/ AddChar
Spec == Init /\ [][Next]_vars

---------------------------------------------------------------------------
(* The reference: the ends of the values of JSON that begin at i.           *)
At(d, i) == IF i <= Len(d) THEN d[i].t ELSE "end"
Closed(d, ends, t) == {j + 1 : j \in {j \in ends : At(d, j) = t}}
RECURSIVE ValueEnds(_, _), ElementsEnds(_, _), MembersEnds(_, _)
ValueEnds(d, i) ==
    CASE At(d, i) \in {"int", "string", "null", "true", "false"} -> {i + 1}
      [] At(d, i) = "[" -> Closed(d, {i + 1} \cup ElementsEnds(d, i + 1), "]")
      [] At(d, i) = "{" -> Closed(d, {i + 1} \cup MembersEnds(d, i + 1), "}")
      [] OTHER -> {}
ElementsEnds(d, i) ==
    LET ends == ValueEnds(d, i)
    IN  ends \cup UNION {ElementsEnds(d, j) : j \in Closed(d, ends, ",")}
MembersEnds(d, i) ==
    LET ends == IF At(d, i) = "string" /\ At(d, i + 1) = ":" THEN ValueEnds(d, i + 2) ELSE {}
    IN  ends \cup UNION {MembersEnds(d, j) : j \in Closed(d, ends, ",")}

(* A document without comments and without an empty name is read just when *)
(* it begins with a value of JSON; whatever the document, the reader fails *)
(* just when it reports an error (Reader::parse, readObject, readArray,    *)
(* recoverFromError).                                                      *)
ReadsJson ==
    kind = "tokens" =>
        \A r \in {Parse(doc)} :
            /\ r.ok = (r.errors = <<>>)
            /\ (\A i \in 1..Len(doc) : doc[i].t # "comment" /\ doc[i] # Token("string", 0, FALSE))
               => r.ok = (ValueEnds(doc, 1) # {})

(* What a document holds is written, by FastWriter and by StyledWriter, as *)
(* one that is read as an equal value, whatever comments stand in it.      *)
WrittenIsRead ==
    kind = "tokens" =>
        \A first \in {Parse(doc)} :
            first.ok =>
                \A text \in {WriteFast(first.value), WriteStyled(first.value)} :
                    \A second \in {Parse(text)} :
                        second.ok /\ Equal(second.value, first.value)

(* json.h:1742, of StyledWriter: "If the Value have comments then they are *)
(* outputed".  They are, each once, but contrary to this none of those     *)
(* that stand in an array that is written on one line; FastWriter writes   *)
(* none.  operator== does not compare them (jsoncpp.cpp:2215).             *)
OnOneLine(v, p) ==
    \E j \in 0 .. Len(p) - 1 :
        LET q == SubSeq(p, 1, j) IN v[q].type = arrayValue /\ ~IsMultiLine(v, q)
CommentsIn(text) == Len(SelectSeq(text, LAMBDA t : t.t = "comment"))
CommentsOf(d) == Len(d.before) + Len(d.same) + Len(d.after)
CommentsAreWritten ==
    kind = "tokens" =>
        \A v \in {r.value : r \in {s \in {Parse(doc)} : s.ok}} :
            /\ CommentsIn(WriteStyled(v)) =
                  MapThenSumSet(LAMBDA p : CommentsOf(v[p]), {p \in DOMAIN v : ~OnOneLine(v, p)})
            /\ CommentsIn(WriteFast(v)) = 0

(* A number that fits in 64 bits is read exactly, as an Int when it is one *)
(* and signed when negative, a larger one as a real; and what uintToString *)
(* writes is read back (decodeNumber: the guard against overflow).         *)
NumbersAreExact ==
    kind \in {"number", "negative"} =>
        LET n == FoldLeft(LAMBDA a, d : (a * 10) + d, 0, doc)
            read == Number(doc, kind = "negative")
            again == Number(DigitsOf[n], kind = "negative")
        IN  /\ again = read
            /\ IF n > (IF kind = "negative" THEN -MinLargestInt ELSE MaxLargestUInt)
               THEN read.type = realValue
               ELSE read = [type |-> IF kind = "negative" \/ n <= MaxInt THEN intValue ELSE uintValue,
                            n |-> IF kind = "negative" THEN -n ELSE n]

(* A string is written so that it ends at its closing quote and is decoded *)
(* to the same characters, whatever follows (valueToQuotedString,          *)
(* readString, decodeString).                                              *)
StringsAreExact ==
    kind = "string" =>
        LET text == Quoted(doc) \o <<Quote, Backslash>>
            end == StringEnd(text)
        IN  end = Len(text) - 1 /\ Decoded(SubSeq(text, 2, end - 2)) = doc

(* Values are totally ordered by operator<, up to operator==, so that they *)
(* may be sorted and be keys; and a scalar is convertible to a type just   *)
(* when the conversion to it does not throw (isConvertibleTo, as...).      *)
ValuesAreOrdered ==
    kind = "value" =>
        \A w \in Leaves \cup Tables :
            LET v == doc[1]
            IN  /\ Cardinality({x \in {1, 2} : IF x = 1 THEN LessThan(v, w) ELSE LessThan(w, v)})
                       = (IF Equal(v, w) THEN 0 ELSE 1)
                /\ \A x \in Leaves \cup {t \in Tables : Size(t, <<>>) <= 1} :
                        LessThan(v, w) /\ LessThan(w, x) => LessThan(v, x)
ConversionsAgree ==
    \A d \in Nodes :
        /\ IsConvertibleTo(d, intValue) = ~ AsInt(d).fails
        /\ IsConvertibleTo(d, uintValue) = ~ AsUInt(d).fails
        /\ IsConvertibleTo(d, realValue) = ~ AsDouble(d).fails
        /\ IsConvertibleTo(d, booleanValue) = ~ AsBool(d).fails
        /\ IsConvertibleTo(d, stringValue) = ~ AsString(d).fails
        /\ ~ AsInt(d).fails => AsInt64(d) = AsInt(d)
        /\ ~ AsUInt(d).fails => AsUInt64(d) = AsUInt(d)
JsonIsKept == ReadsJson /\ WrittenIsRead /\ CommentsAreWritten /\ NumbersAreExact /\ StringsAreExact
              /\ ValuesAreOrdered /\ (kind = "value" => ConversionsAgree)
============================================================================
