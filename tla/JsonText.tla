------------------------------ MODULE JsonText ------------------------------
(***************************************************************************)
(* The characters of numbers and strings in jsoncpp.cpp: decodeNumber and  *)
(* uintToString with integers of any width, and the escapes of strings.    *)
(* A character is its code.                                                *)
(***************************************************************************)
EXTENDS JsonValue

\* uintToString
DigitsOf[n \in Nat] == IF n < 10 THEN <<n>> ELSE Append(DigitsOf[n \div 10], n % 10)

\* decodeNumber: digits, most significant first, as [type, n]; a number that
\* does not fit is a real, whose value sscanf computes.
Number(digits, negative) ==
    LET limit == IF negative THEN -MinLargestInt ELSE MaxLargestUInt
        threshold == limit \div 10
        Real == [type |-> realValue, n |-> 0]
        Next(acc, i) ==
            IF acc.type = realValue
               \/ /\ acc.n >= threshold
                  /\ acc.n > threshold \/ i # Len(digits) \/ digits[i] > limit % 10
            THEN Real
            ELSE [acc EXCEPT !.n = ((@ * 10) + digits[i]) % (MaxLargestUInt + 1)]
        v == FoldLeft(Next, [type |-> uintValue, n |-> 0], [i \in 1..Len(digits) |-> i])
    IN  CASE v.type = realValue -> v
          [] v.type # realValue /\ negative -> [type |-> intValue, n |-> -v.n]
          [] OTHER -> IF v.n <= MaxInt THEN [v EXCEPT !.type = intValue] ELSE v
---------------------------------------------------------------------------
Quote == 34
Slash == 47
Backslash == 92
LetterU == 117

\* The escapes of two characters: what is written, and what it stands for.
Escapes ==
    {<<Quote, Quote>>, <<Slash, Slash>>, <<Backslash, Backslash>>, <<98, 8>>, <<102, 12>>,
     <<110, 10>>, <<114, 13>>, <<116, 9>>}

HexDigit(n) == IF n < 10 THEN 48 + n ELSE 55 + n
HexValue(c) ==
    CASE c \in 48..57 -> c - 48 [] c \in 97..102 -> c - 87 [] c \in 65..70 -> c - 55
      [] OTHER -> -1

\* valueToQuotedString, for characters other than 0, which ends the string.
QuotedChar(c) ==
    IF \E e \in Escapes \ {<<Slash, Slash>>} : e[2] = c
    THEN <<Backslash, (CHOOSE e \in Escapes : e[2] = c)[1]>>
    ELSE IF c <= 31 THEN <<Backslash, LetterU, 48, 48, HexDigit(c \div 16), HexDigit(c % 16)>>
    ELSE <<c>>
Quoted(s) == <<Quote>> \o FlattenSeq([i \in 1..Len(s) |-> QuotedChar(s[i])]) \o <<Quote>>

\* readString: the place after the closing quote, 0 when there is none.
StringEnd(text) ==
    LET After[i \in 2..(Len(text) + 2)] ==
            IF i > Len(text) THEN 0
            ELSE IF text[i] = Backslash THEN After[IF i = Len(text) THEN i + 1 ELSE i + 2]
            ELSE IF text[i] = Quote THEN i + 1
            ELSE After[i + 1]
    IN  After[2]

\* codePointToUTF8
UTF8(cp) ==
    CASE cp <= 127 -> <<cp>>
      [] cp \in 128..2047 -> <<192 + (cp \div 64), 128 + (cp % 64)>>
      [] cp \in 2048..65535 -> <<224 + (cp \div 4096), 128 + ((cp \div 64) % 64), 128 + (cp % 64)>>
      [] cp \in 65536..1114111 ->
            <<240 + (cp \div 262144), 128 + ((cp \div 4096) % 64), 128 + ((cp \div 64) % 64), 128 + (cp % 64)>>

\* decodeUnicodeEscapeSequence: the four digits of text from i on, -1 if bad.
Unicode(text, i) ==
    IF i + 3 > Len(text) \/ \E j \in i..(i + 3) : HexValue(text[j]) < 0 THEN -1
    ELSE FoldLeft(LAMBDA a, c : (a * 16) + HexValue(c), 0, SubSeq(text, i, i + 3))

Bad == <<-1>>
\* decodeString on the text between the quotes; Bad when an escape is wrong.
\* The second half of a surrogate pair is not asked to be one.
Decoded(text) ==
    LET Put(s, rest) == IF rest = Bad THEN Bad ELSE s \o rest
        From[i \in 1..(Len(text) + 6)] ==
            IF i > Len(text) THEN <<>>
            ELSE IF text[i] # Backslash THEN Put(<<text[i]>>, From[i + 1])
            ELSE IF i = Len(text) THEN Bad
            ELSE IF \E e \in Escapes : e[1] = text[i + 1]
                 THEN Put(<<(CHOOSE e \in Escapes : e[1] = text[i + 1])[2]>>, From[i + 2])
            ELSE IF text[i + 1] # LetterU \/ Unicode(text, i + 2) = -1 THEN Bad
            ELSE LET high == Unicode(text, i + 2)
                     low == Unicode(text, i + 8)
                 IN  IF high \notin 55296..56319 THEN Put(UTF8(high), From[i + 6])
                     ELSE IF i + 11 > Len(text) \/ text[i + 6] # Backslash
                             \/ text[i + 7] # LetterU \/ low = -1 THEN Bad
                     ELSE Put(UTF8(65536 + ((high % 1024) * 1024) + (low % 1024)), From[i + 12])
    IN  From[1]
============================================================================
