--------------------------- MODULE MatricesCheck ---------------------------
(***************************************************************************)
(* The matrices of matd.c against their definitions: on matrices with rows *)
(* of a small set, on all short expressions, and on the gray models of     *)
(* tags that are cut off by the border of the image.                       *)
(***************************************************************************)
EXTENDS Matrices

CONSTANTS
    Rows3, Rows4,   \* bound: rows of three and of four integers
    MaxSigns,       \* bound: signs of an expression
    Cuts,           \* bound: half planes <<a, b, c>>, a*x + b*y >= c, of the image
    Shades          \* the gray values <<a, b, c, d>>: a*x + b*y + c*x*y + d

VARIABLES kind, input
vars == <<kind, input>>

FromRows(rows) == Matrix(Len(rows), Len(rows[1]), LAMBDA i, j : Number(rows[i + 1][j + 1]))
RightSide(n) == Matrix(n, 2, LAMBDA i, j : Number(IF j = 0 THEN i + 1 ELSE 2 - i * i))

\* The pixels of the black border of a tag of two bits by two, in the
\* coordinates of the tag times four, as far as they are in the image.
Border == {p \in {-3, -1, 1, 3} \X {-3, -1, 1, 3} : Abs(p[1]) = 3 \/ Abs(p[2]) = 3}
Observed(cut) == {p \in Border : cut[1] * p[1] + cut[2] * p[2] >= cut[3]}
Plane == Matrix(4, 1, LAMBDA i, j : Number(Shades[i + 1]))
Shade(x, y) == Interpolate(Plane, x, y)
RECURSIVE ModelOf(_)
ModelOf(points) ==
    IF points = {} THEN NoModel
    ELSE LET p == CHOOSE p \in points : TRUE
             x == Ratio(p[1], 4)
             y == Ratio(p[2], 4)
         IN  AddObservation(ModelOf(points \ {p}), x, y, Shade(x, y))

---------------------------------------------------------------------------
Init == kind = "expression" /\ input = <<>>

Ends == {"M", "2", ")", "'", "^"}
Open(s) == Len(SelectSeq(s, LAMBDA c : c = "(")) - Len(SelectSeq(s, LAMBDA c : c = ")"))
Complete(s) == s # <<>> /\ s[Len(s)] \in Ends /\ Open(s) = 0
AddSign ==
    /\ kind = "expression" /\ Len(input) < MaxSigns
    /\ \E c \in {"M", "2", "(", ")", "*", "+", "-", "'", "^"} :
          /\ IF input # <<>> /\ input[Len(input)] \in Ends
             THEN /\ c = ")" => Open(input) > 0
                  /\ c = "2" => input[Len(input)] # "2"
             ELSE c \in {"M", "2", "(", "-"}
          /\ c = "M" => Len(SelectSeq(input, LAMBDA d : d = "M")) < Len(Args)
          /\ input' = Append(input, c)
    /\ UNCHANGED kind
TakeMatrix ==
    /\ kind = "expression" /\ input = <<>>
    /\ \/ \E n \in 1 .. 3, width \in 1 .. 3 :
            /\ width <= n
            /\ \E rows \in [1 .. n -> Rows3] : input' = FromRows([i \in 1 .. n |-> SubSeq(rows[i], 1, width)])
       \/ \E rows \in [1 .. 4 -> Rows4] : input' = FromRows(rows)
    /\ kind' = "matrix"
TakeTag ==
    /\ kind = "expression" /\ input = <<>>
    /\ \E cut \in Cuts : input' = Observed(cut)
    /\ kind' = "tag"
Next == AddSign \/ TakeMatrix \/ TakeTag
Spec == Init /\ [][Next]_vars

---------------------------------------------------------------------------
RECURSIVE Leibniz(_, _, _)
\* The determinant, expanded along row i over the columns that are left.
Leibniz(a, i, columns) ==
    IF columns = {} THEN Number(1)
    ELSE Sum(LAMBDA j : Signed(Cardinality({k \in columns : k < j}), 0,
                               Times(a.el[i, j], Leibniz(a, i + 1, columns \ {j}))), columns)
IsSquare(a) == a.rows = a.cols
Regular(a) == Leibniz(a, 0, Upto(a.rows)) # Number(0)

(* L and U multiply to the rows of the matrix as they were permuted, the   *)
(* determinant is that of its definition, and a singular matrix is told    *)
(* (matd_lu, matd_lu_l, matd_lu_u, matd_det, matd_lu_det).                 *)
DecomposedInto(a, d) ==
    IF IsSquare(a) /\ Regular(a)
    THEN /\ ~d.singular
         /\ Multiply(L(d), U(d)) = Matrix(a.rows, a.cols, LAMBDA i, j : a.el[d.piv[i], j])
         /\ {Det(a), LUDet(d)} = {Leibniz(a, 0, Upto(a.rows))}
    ELSE IsSquare(a) => d.singular
DecompositionIsExact == kind = "matrix" => DecomposedInto(input, LU(input))

(* matd.h:112: "Compute an answer to Ax = b."  The answer is one to Ax = c *)
(* where row piv[piv[i]] of c is row i of b: the same if rows were but     *)
(* exchanged in pairs, another one if they went round in longer cycles.    *)
Misplaced(d, b) ==
    LET from(i) == CHOOSE k \in Upto(b.rows) : d.piv[d.piv[k]] = i
    IN  Matrix(b.rows, b.cols, LAMBDA i, j : b.el[from(i), j])
AnswersSolve ==
    kind = "matrix" /\ IsSquare(input) /\ Regular(input) =>
        \A b \in {RightSide(input.rows)} :
            Multiply(input, Solve(input, b)) = Misplaced(LU(input), b)

(* An inverse is one in closed form; by decomposition, with the same       *)
(* exception.                                                              *)
InversesInvert ==
    kind = "matrix" /\ IsSquare(input) /\ Regular(input) =>
        LET one == Identity(input.rows)
        IN  Multiply(input, Inverse(input)) = IF input.rows <= 3 THEN one ELSE Misplaced(LU(input), one)

(* What is seen of the border of a tag gives the plane that its gray       *)
(* values lie on (apriltag.c:751-781, graymodel.c), as the solution of its *)
(* equations: matd.h:112, "Compute an answer to Ax = b."  (Violated.)      *)
ModelIsSolved ==
    kind = "tag" =>
        \A gm \in {ModelOf(input)} :
            LET A == Symmetric(gm.A)
            IN  gm.n > 6 /\ Regular(A) => \A x \in {SolveModel(gm)} : Multiply(A, x) = gm.b /\ x = Plane

(* It does just if no row is misplaced.                                    *)
ModelIsSolvedInPlace ==
    kind = "tag" =>
        \A gm \in {ModelOf(input)} :
            LET A == Symmetric(gm.A)
            IN  gm.n > 6 /\ Regular(A) =>
                    (Misplaced(LU(A), gm.b) = gm.b <=> Multiply(A, SolveModel(gm)) = gm.b /\ SolveModel(gm) = Plane)

---------------------------------------------------------------------------
(* An expression by its grammar.  A sum is made of terms, from the left; a *)
(* "(" after a term multiplies all that is before it.                      *)

DepthAt(e, i) == Open(SubSeq(e, 1, i - 1))
AfterValue(e, i) == i > 1 /\ e[i - 1] \in Ends
Operators(e, signs) == {i \in 1 .. Len(e) : DepthAt(e, i) = 0 /\ AfterValue(e, i) /\ e[i] \in signs}
LastOf(S) == CHOOSE i \in S : \A j \in S : j <= i
Left(e, i) == SubSeq(e, 1, i - 1)
Right(e, i) == SubSeq(e, i + 1, Len(e))
CountOf(e) == Len(SelectSeq(e, LAMBDA c : c = "M"))
RECURSIVE Value(_, _)
\* The value of e, the first argument of which is the one after the first n.
Value(e, n) ==
    LET sums == Operators(e, {"+", "-", "("})
        products == Operators(e, {"*", "M", "2"})
        i == LastOf(IF sums # {} THEN sums ELSE products)
        left == Value(Left(e, i), n)
        right(r) == Value(r, n + CountOf(Left(e, i)))
        last == e[Len(e)]
        inner == Value(SubSeq(e, 1, Len(e) - 1), n)
    IN  IF sums \cup products # {}
        THEN CASE e[i] = "+" -> Add(left, right(Right(e, i)))
               [] e[i] = "-" -> Subtract(left, right(Right(e, i)))
               [] e[i] = "*" -> Multiply(left, right(Right(e, i)))
               [] OTHER -> Multiply(left, right(<<e[i]>> \o Right(e, i)))
        ELSE CASE e[1] = "-" -> Scale(Value(Tail(e), n), Number(-1))
               [] last = "'" -> Transpose(inner)
               [] last = "^" -> Inverse(inner)
               [] e[1] = "(" -> Value(SubSeq(e, 2, Len(e) - 1), n)
               [] e[1] = "M" -> Args[n + 1]
               [] OTHER -> CreateScalar(Number(2))

CountAny(e, signs) == Len(SelectSeq(e, LAMBDA c : c \in signs))
Numbers(e) == CountAny(e, {"2"})
\* A sign that joins two values, and one that begins an expression.
Joins(e) == Cardinality({i \in 2 .. Len(e) : e[i] \in {"*", "+", "-"} /\ e[i - 1] \in Ends})
Unary(e) == CountAny(e, {"*", "+", "-"}) - Joins(e)

(* matd_op: an expression has the value that its grammar gives it; the     *)
(* result is new, no argument is freed, and all else that was allocated is *)
(* freed once.  Each number, sign, transposition and inversion, and each   *)
(* product, written or not, is a result.  matd.c:770, "can't create more   *)
(* than 1 new result per character", holds just if there are enough signs  *)
(* and parentheses between the numbers: 2M2 overruns the list.             *)
ExpressionsEvaluate ==
    kind = "expression" /\ Complete(input) =>
        \A expected \in {Value(input, 0)} \ {Failed}, r \in {Op(input)} :
              /\ r.res.m = expected
              /\ r.res.id \in r.allocated
              /\ \A id \in r.allocated \ {r.res.id} :
                    Cardinality({i \in DOMAIN r.freed : r.freed[i] = id}) = 1
              /\ \A i \in DOMAIN r.freed : r.freed[i] \in r.allocated \ {r.res.id}
              /\ r.garbage = Numbers(input) + CountAny(input, {"2", "M"}) - 1
                                + Unary(input) + CountAny(input, {"'", "^"})
              /\ r.garbage <= Len(input) <=> Numbers(input) <= 1 + Joins(input) + CountAny(input, {"(", ")"})

MatricesAreExact ==
    /\ DecompositionIsExact /\ AnswersSolve /\ InversesInvert
    /\ ModelIsSolvedInPlace /\ ExpressionsEvaluate

-----------------------------------------------------------------------------
(* Bound: a tag of one shade whose border is cut by a slanted border of    *)
(* the image, for a run of its own.                                        *)
MCEps == <<1, 1000>>
MCArgs == <<>>
MCCuts == {<<0, 0, 0>>, <<0, 1, -2>>, <<1, 0, -2>>, <<1, 1, -2>>, <<1, 2, -1>>, <<2, 1, -1>>}
MCShades == <<0, 0, 0, 1>>
=============================================================================
