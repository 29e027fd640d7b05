------------------------------ MODULE Matrices ------------------------------
(***************************************************************************)
(* The dense matrices of src/modules/apriltags/matd.c and the gray model   *)
(* that is solved with them (graymodel.c).  Elements are exact rationals   *)
(* where the code has doubles.  A scalar is a matrix of no rows and no     *)
(* columns with an element <<0, 0>>; the code aborts where Failed stands.  *)
(***************************************************************************)
EXTENDS Integers, Sequences, FiniteSets, Folds

CONSTANTS
    Eps,  \* MATD_EPS
    Args  \* the matrices that are passed to matd_op, in order

Number(n) == <<n, 1>>
Abs(n) == IF n < 0 THEN -n ELSE n
RECURSIVE Gcd(_, _)
Gcd(a, b) == IF b = 0 THEN a ELSE Gcd(b, a % b)
Reduced(n, d, g) == <<n \div g, d \div g>>
Ratio(n, d) == Reduced(n, d, Gcd(Abs(n), Abs(d)) * (IF d < 0 THEN -1 ELSE 1))
\* Common factors are taken out first, to keep the numbers small.
PlusOver(a, b, g) == Ratio(a[1] * (b[2] \div g) + b[1] * (a[2] \div g), a[2] * (b[2] \div g))
Plus(a, b) == PlusOver(a, b, Gcd(a[2], b[2]))
Product(p, q) == <<p[1] * q[1], p[2] * q[2]>>
Times(a, b) == Product(Ratio(a[1], b[2]), Ratio(b[1], a[2]))
Minus(a) == <<-a[1], a[2]>>
Reciprocal(a) == Ratio(a[2], a[1])
Larger(a, b) == Abs(a[1]) * b[2] > Abs(b[1]) * a[2]
Sum(f(_), S) == MapThenFoldSet(Plus, Number(0), f, LAMBDA T : CHOOSE t \in T : TRUE, S)
Negligible(a) == Larger(Eps, a)
NonZero(a) == IF ~Negligible(a) THEN a ELSE IF a[1] < 0 THEN Minus(Eps) ELSE Eps

---------------------------------------------------------------------------
Upto(n) == 0 .. n - 1
Failed == [rows |-> -1, cols |-> -1, el |-> <<>>]
Matrix(rows, cols, f(_, _)) ==
    [rows |-> rows, cols |-> cols, el |-> [i \in Upto(rows), j \in Upto(cols) |-> f(i, j)]]
CreateScalar(v) == [rows |-> 0, cols |-> 0, el |-> [i, j \in {0} |-> v]]
IsScalar(m) == m.rows = 0
Create(rows, cols) == Matrix(rows, cols, LAMBDA i, j : Number(0))
Identity(n) == Matrix(n, n, LAMBDA i, j : Number(IF i = j THEN 1 ELSE 0))
\* The value of a scalar, which has no bytes by its dimensions, is lost.
Copy(m) == IF IsScalar(m) THEN [m EXCEPT !.el = <<>>] ELSE m

Scale(a, s) == [a EXCEPT !.el = [p \in DOMAIN @ |-> Times(s, @[p])]]
Transpose(a) ==
    IF IsScalar(a) \/ a = Failed THEN a ELSE Matrix(a.cols, a.rows, LAMBDA i, j : a.el[j, i])
Add(a, b) ==
    IF a.rows # b.rows \/ a.cols # b.cols \/ a = Failed THEN Failed
    ELSE [a EXCEPT !.el = [p \in DOMAIN @ |-> Plus(@[p], b.el[p])]]
Subtract(a, b) == Add(a, Scale(b, Number(-1)))
Multiply(a, b) ==
    IF a = Failed \/ b = Failed THEN Failed
    ELSE IF IsScalar(a) THEN Scale(b, a.el[0, 0])
    ELSE IF IsScalar(b) THEN Scale(a, b.el[0, 0])
    ELSE IF a.cols # b.rows THEN Failed
    ELSE Matrix(a.rows, b.cols,
                LAMBDA i, j : Sum(LAMBDA k : Times(a.el[i, k], b.el[k, j]), Upto(a.cols)))

---------------------------------------------------------------------------
(* LU decomposition with partial pivoting, column by column. *)

Swapped(f, p, q) == [f EXCEPT ![p] = f[q], ![q] = f[p]]

\* The first of the largest elements of column c from row j on.
Pivot(c, j, rows) ==
    CHOOSE p \in j .. rows - 1 :
        \A i \in j .. rows - 1 : ~Larger(c[i], c[p]) /\ (i < p => Larger(c[p], c[i]))
Column(lu, j) ==
    LET c[i \in Upto(lu.rows)] ==
            LET kmax == IF i < j THEN i ELSE j
            IN  Plus(lu.el[i, j], Minus(Sum(LAMBDA k : Times(lu.el[i, k], c[k]), Upto(kmax))))
    IN  c
\* Column j is c, with its pivot in row j; the rows p and j are exchanged.
WithColumn(d, j, p, c, pivot) ==
    LET El(i, k) ==
            IF k = j THEN IF i > j THEN Times(c[i], Reciprocal(pivot))
                          ELSE IF i = j THEN pivot ELSE c[i]
            ELSE d.lu.el[IF i = p THEN j ELSE IF i = j THEN p ELSE i, k]
    IN  [lu |-> Matrix(d.lu.rows, d.lu.cols, El),
         piv |-> Swapped(d.piv, p, j),
         pivsign |-> IF p # j THEN -d.pivsign ELSE d.pivsign,
         singular |-> d.singular \/ Negligible(c[j])]
Pivoted(d, j, c, p) == WithColumn(d, j, p, Swapped(c, p, j), NonZero(c[p]))
Eliminated(d, j, c) == Pivoted(d, j, c, Pivot(c, j, d.lu.rows))
RECURSIVE LUFrom(_, _)
LUFrom(d, j) ==
    IF j >= d.lu.cols THEN d ELSE LUFrom(Eliminated(d, j, Column(d.lu, j)), j + 1)
LU(a) == LUFrom([lu |-> a, piv |-> [i \in Upto(a.rows) |-> i], pivsign |-> 1, singular |-> FALSE], 0)

L(d) == Matrix(d.lu.rows, d.lu.cols,
               LAMBDA i, j : IF i > j THEN d.lu.el[i, j] ELSE Number(IF i = j THEN 1 ELSE 0))
U(d) == Matrix(d.lu.cols, d.lu.cols,
               LAMBDA i, j : IF i <= j THEN d.lu.el[i, j] ELSE Number(0))
LUDet(d) ==
    LET Factor(i) == d.lu.el[i, i]
    IN  MapThenFoldSet(Times, Number(d.pivsign), Factor, LAMBDA T : CHOOSE t \in T : TRUE,
                       IF d.lu.rows = d.lu.cols THEN Upto(d.lu.cols) ELSE {})

\* Row i of the right hand side goes to row piv[i].
Permuted(d, b) ==
    LET To(i) == CHOOSE k \in Upto(b.rows) : d.piv[k] = i
    IN  Matrix(b.rows, b.cols, LAMBDA i, t : b.el[To(i), t])
Forward(d, b) ==
    LET y[i \in Upto(b.rows), t \in Upto(b.cols)] ==
            Plus(b.el[i, t], Minus(Sum(LAMBDA k : Times(d.lu.el[i, k], y[k, t]), Upto(i))))
    IN  y
Backward(d, y, cols) ==
    LET n == d.lu.cols
        x[i \in Upto(n), t \in Upto(cols)] ==
            Times(Reciprocal(d.lu.el[i, i]),
                  Plus(y[i, t], Minus(Sum(LAMBDA k : Times(d.lu.el[i, k], x[k, t]), i + 1 .. n - 1))))
    IN  x
LUSolve(d, b) == [b EXCEPT !.el = Backward(d, Forward(d, Permuted(d, b)), b.cols)]
Solve(a, b) == LUSolve(LU(a), b)

---------------------------------------------------------------------------
(* Determinant and inverse: in closed form up to three rows. *)

Without2(i) == IF i = 0 THEN <<1, 2>> ELSE IF i = 1 THEN <<0, 2>> ELSE <<0, 1>>
Cross2(a, r, c) ==
    Plus(Times(a.el[r[1], c[1]], a.el[r[2], c[2]]), Minus(Times(a.el[r[1], c[2]], a.el[r[2], c[1]])))
Minor(a, i, j) == Cross2(a, Without2(i), Without2(j))
Signed(i, j, v) == IF (i + j) % 2 = 0 THEN v ELSE Minus(v)
Det(a) ==
    IF a.rows # a.cols THEN Number(0)
    ELSE CASE a.rows = 1 -> a.el[0, 0]
           [] a.rows = 2 -> Cross2(a, <<0, 1>>, <<0, 1>>)
           [] a.rows = 3 -> Sum(LAMBDA i : Signed(i, 0, Times(a.el[i, 0], Minor(a, i, 0))), 0 .. 2)
           [] OTHER -> LUDet(LU(a))

Inverse3(a) ==
    LET det == Reciprocal(NonZero(Det(a)))
    IN  Matrix(3, 3, LAMBDA i, j : Times(det, Signed(i, j, Minor(a, j, i))))
Inverse2(a) ==
    LET det == Reciprocal(NonZero(Det(a)))
    IN  Matrix(2, 2, LAMBDA i, j : Times(det, IF i = j THEN a.el[1 - i, 1 - i] ELSE Minus(a.el[i, j])))
Inverse(a) ==
    IF a.rows # a.cols \/ a = Failed THEN Failed
    ELSE CASE a.rows = 0 -> CreateScalar(Reciprocal(NonZero(a.el[0, 0])))
           [] a.rows = 1 -> Matrix(1, 1, LAMBDA i, j : Reciprocal(NonZero(a.el[0, 0])))
           [] a.rows = 2 -> Inverse2(a)
           [] a.rows = 3 -> Inverse3(a)
           [] OTHER -> LUSolve(LU(a), Identity(a.rows))

---------------------------------------------------------------------------
(* A plane over x, y and xy, fitted to observations of gray values. *)

NoModel == [A |-> Create(4, 4), b |-> Create(4, 1), n |-> 0]
Terms(x, y) == <<x, y, Times(x, y), Number(1)>>
\* Only the upper right of A is summed up.
AddObservation(gm, x, y, v) ==
    LET t == Terms(x, y)
    IN  [A |-> Matrix(4, 4, LAMBDA i, j :
                   IF i <= j THEN Plus(gm.A.el[i, j], Times(t[i + 1], t[j + 1])) ELSE gm.A.el[i, j]),
         b |-> Matrix(4, 1, LAMBDA i, j : Plus(gm.b.el[i, j], Times(t[i + 1], v))),
         n |-> gm.n + 1]
Symmetric(a) == Matrix(a.rows, a.cols, LAMBDA i, j : IF i <= j THEN a.el[i, j] ELSE a.el[j, i])
SolveModel(gm) ==
    IF gm.n > 6 THEN Solve(Symmetric(gm.A), gm.b)
    ELSE Matrix(4, 1, LAMBDA i, j : IF i = 3 THEN Times(gm.b.el[3, 0], <<1, gm.n>>) ELSE Number(0))
Interpolate(x, px, py) == Sum(LAMBDA i : Times(x.el[i, 0], Terms(px, py)[i + 1]), 0 .. 3)

-----------------------------------------------------------------------------
(* matd_op: an expression such as "M*M'" over matrices that are passed     *)
(* along, which is parsed and evaluated in one pass.  A character is a     *)
(* token here; "^" stands for "^-1" and "2" for a number.  'F', an         *)
(* argument that is to be freed, is left out: matd_op takes as many        *)
(* arguments from its caller as there are 'M'.                             *)

\* A matd_t*: the arguments are 1, 2, ..., what is allocated gets the next number.
NULL == [id |-> 0, m |-> Failed]
Argument(i) == [id |-> i, m |-> Args[i]]

\* Where the evaluation is: the position, the value accumulated so far, the
\* next argument, the list of what is to be freed, and whether the value is
\* one of the arguments.
Start == [pos |-> 1, acc |-> NULL, argpos |-> 1, garb |-> <<>>, isarg |-> FALSE, next |-> Len(Args) + 1]

New(s, m) == [s EXCEPT !.acc = [id |-> s.next, m |-> m], !.garb = Append(@, s.next), !.next = @ + 1]
NewOp(s, m) == [New(s, m) EXCEPT !.isarg = FALSE]
Skip(s) == [s EXCEPT !.pos = @ + 1]

RECURSIVE GobbleRight(_, _), Recurse(_, _, _)
\* On the value in s.acc.
GobbleRight(expr, s) ==
    IF s.pos > Len(expr) \/ expr[s.pos] \notin {"'", "^"} THEN s
    ELSE GobbleRight(expr,
             Skip(NewOp(s, IF expr[s.pos] = "'" THEN Transpose(s.acc.m) ELSE Inverse(s.acc.m))))

\* What is accumulated, multiplied with the value in s.
Multiplied(acc, s) == IF acc = NULL THEN s ELSE NewOp(s, Multiply(acc.m, s.acc.m))

\* The right hand side, from the next position on.
Rhs(expr, s, oneterm) == GobbleRight(expr, Recurse(expr, [Skip(s) EXCEPT !.acc = NULL], oneterm))

\* @oneterm: return at the end of this term.
Stops(c) == c \in {"(", "+", "-"}

Recurse(expr, s, oneterm) ==
    LET acc == s.acc
        c == expr[s.pos]
        Go(s1) == Recurse(expr, s1, oneterm)
    IN  IF s.pos > Len(expr) THEN s
        ELSE IF oneterm /\ acc # NULL /\ Stops(c) THEN s
        ELSE CASE c = ")" -> IF oneterm THEN s ELSE Skip(s)
               [] c = "(" -> Go(Multiplied(acc, Rhs(expr, s, FALSE)))
               [] c = "*" -> Go(Multiplied(acc, Rhs(expr, s, TRUE)))
               [] c = "M" ->
                    LET rhs0 == Argument(s.argpos)
                        s1 == GobbleRight(expr, [Skip(s) EXCEPT !.argpos = @ + 1, !.acc = rhs0])
                    IN  Go(IF acc = NULL THEN [s1 EXCEPT !.isarg = (s1.acc = rhs0)]
                           ELSE Multiplied(acc, s1))
               [] c = "2" ->
                    LET s1 == GobbleRight(expr, Skip(New(s, CreateScalar(Number(2)))))
                    IN  Go([Multiplied(acc, s1) EXCEPT !.isarg = FALSE])
               [] c = "+" ->
                    \* "!isarg" asks for the address of isarg: nothing is added in place.
                    LET s1 == Rhs(expr, s, TRUE)
                    IN  Go(NewOp(s1, IF acc = NULL THEN Failed ELSE Add(acc.m, s1.acc.m)))
               [] c = "-" ->
                    LET s1 == Rhs(expr, s, TRUE)
                    IN  Go(NewOp(s1, IF acc = NULL THEN Scale(s1.acc.m, Number(-1))
                                     ELSE Subtract(acc.m, s1.acc.m)))
               [] OTHER -> Go(Skip(s))

\* The result with what was freed, and how often, and what is left allocated.
Finished(s) ==
    [res |-> IF s.isarg THEN New(s, Copy(s.acc.m)).acc ELSE s.acc,
     freed |-> SelectSeq(s.garb, LAMBDA i : i # s.acc.id),
     garbage |-> Len(s.garb),
     allocated |-> Len(Args) + 1 .. s.next - 1 + (IF s.isarg THEN 1 ELSE 0)]
Op(expr) == Finished(Recurse(expr, Start, FALSE))
=============================================================================
