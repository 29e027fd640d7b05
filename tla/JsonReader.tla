----------------------------- MODULE JsonReader -----------------------------
(***************************************************************************)
(* Json::Reader (src/src/jsoncpp.cpp) on the tokens of a document.  A      *)
(* token has its kind, its value n, and says whether a line break precedes *)
(* it, which decides the value a comment belongs to.  A token "badstring"  *)
(* is a string with an escape sequence decodeString refuses, "error" one   *)
(* that readToken refuses.  A reader r holds what the program keeps in its *)
(* members: its place, the document read so far, the errors, the comments  *)
(* that wait for the next value, and the last value with whether the line  *)
(* it ended on is still the current one; ok is the result of the last call.*)
(***************************************************************************)
EXTENDS JsonValue

Token(kind, n, nl) == [t |-> kind, n |-> n, nl |-> nl]
EndOfStream == Token("end", 0, FALSE)
NoValue == <<-1>>

New(input) ==
    [input |-> input, pos |-> 1, token |-> EndOfStream, value |-> Scalar(nullValue, 0),
     errors |-> <<>>, pending |-> <<>>, last |-> NoValue, line |-> FALSE, ok |-> TRUE]

\* addComment: to the last value when it ended on this line.
AddComment(r, c) ==
    IF r.line THEN [r EXCEPT !.value[r.last].same = <<c>>]
    ELSE [r EXCEPT !.pending = Append(@, c)]

ReadToken(r) ==
    IF r.pos > Len(r.input) THEN [r EXCEPT !.token = EndOfStream]
    ELSE LET t == r.input[r.pos]
             s == [r EXCEPT !.pos = @ + 1, !.token = t, !.line = @ /\ ~ t.nl]
         IN  IF t.t = "comment" THEN AddComment(s, t.n) ELSE s

RECURSIVE SkipComments(_), Recover(_, _)
SkipComments(r) == IF r.token.t = "comment" THEN SkipComments(ReadToken(r)) ELSE r
SkipCommentTokens(r) == SkipComments(ReadToken(r))

\* recoverFromError: skip up to the first token of this kind, at any depth.
Recover(r, kind) ==
    LET s == ReadToken(r)
    IN  IF s.token.t \in {kind, "end"} THEN [s EXCEPT !.ok = FALSE] ELSE Recover(s, kind)

AddError(r) == [r EXCEPT !.errors = Append(@, r.token.t), !.ok = FALSE]
Succeed(r) == [r EXCEPT !.ok = TRUE]
Set(r, p, type, n) == [r EXCEPT !.value = Assign(@, p, type, n), !.ok = TRUE]
Enter(r, p, k) == [r EXCEPT !.value = Resolve(@, p, k)]

\* readValue: the comments before a value become its own.
TakeComments(r, p) ==
    IF r.pending = <<>> THEN r
    ELSE [r EXCEPT !.value[p].before = r.pending, !.pending = <<>>]
Ended(r, p) == [r EXCEPT !.last = p, !.line = TRUE]

RECURSIVE ReadValue(_, _), ReadMembers(_, _, _), ReadElements(_, _, _)
ReadValue(r0, p) ==
    LET r == TakeComments(SkipCommentTokens(r0), p)
        k == r.token.t
        n == r.token.n
    IN  CASE k = "{" -> Ended(ReadMembers(Set(r, p, objectValue, 0), p, 0), p)
          [] k = "[" ->
                LET a == Set(r, p, arrayValue, 0)
                IN  IF a.pos <= Len(a.input) /\ a.input[a.pos].t = "]"
                    THEN Ended(ReadToken(a), p)
                    ELSE Ended(ReadElements(a, p, 0), p)
          [] k = "int" -> Ended(Set(r, p, intValue, n), p)
          [] k = "string" -> Ended(Set(r, p, stringValue, n), p)
          [] k = "badstring" -> Ended(AddError(r), p)
          [] k \in {"true", "false"} -> Ended(Set(r, p, booleanValue, IF k = "true" THEN 1 ELSE 0), p)
          [] k = "null" -> Ended(Set(r, p, nullValue, 0), p)
          [] OTHER -> AddError(r)

\* readObject, from the name of a member on; name is the one before it, 0 for
\* none as for the empty one.
ReadMembers(r0, p, name) ==
    LET r == SkipCommentTokens(r0)
        colon == ReadToken(r)
        q == Append(p, r.token.n)
        v == ReadValue(Enter(colon, p, r.token.n), q)
        comma == ReadToken(v)
        next == SkipComments(comma)
    IN  CASE r.token.t = "}" /\ name = 0 -> Succeed(r)
          [] r.token.t = "badstring" -> Recover(AddError(r), "}")
          [] r.token.t \notin {"string", "badstring"} /\ ~ (r.token.t = "}" /\ name = 0) ->
                Recover(AddError(r), "}")
          [] r.token.t = "string" ->
                IF colon.token.t # ":" THEN Recover(AddError(colon), "}")
                ELSE IF ~ v.ok THEN Recover(v, "}")
                ELSE IF comma.token.t \notin {"}", ",", "comment"} THEN Recover(AddError(comma), "}")
                ELSE IF next.token.t = "}" THEN Succeed(next)
                ELSE ReadMembers(next, p, r.token.n)

(* Defect: an element that could not be read is not noticed. *)
ReadElementsAnyway(r, p, i) ==
    LET next == SkipCommentTokens(ReadValue(Enter(r, p, i), Append(p, i)))
    IN  CASE next.token.t = "]" -> Succeed(next)
          [] next.token.t = "," -> ReadElements(next, p, i + 1)
          [] OTHER -> Recover(AddError(next), "]")

\* readArray, from element i on.
ReadElements(r, p, i) ==
    LET v == ReadValue(Enter(r, p, i), Append(p, i))
        next == SkipCommentTokens(v)
    IN  IF ~ v.ok THEN Recover(v, "]")
        ELSE IF next.token.t = "]" THEN Succeed(next)
        ELSE IF next.token.t = "," THEN ReadElements(next, p, i + 1)
        ELSE Recover(AddError(next), "]")

\* parse: what follows the root value is not read, but for its comments.
Parse(input) ==
    LET r == ReadValue(New(input), <<>>)
        s == SkipCommentTokens(r)
    IN  [s EXCEPT !.ok = r.ok, !.value[<<>>].after = IF s.pending = <<>> THEN @ ELSE s.pending]
============================================================================
