----------------------------- MODULE OperatorsProofs -----------------------------
(***************************************************************************)
(* Theorems about Operators, for integers of every width, every set of     *)
(* operands and expressions of every length.                               *)
(*                                                                         *)
(* What the machine's operations compute is not looked into: the three     *)
(* implementations agree because they give the same operation the same     *)
(* operands in the same order, or all give nil, or are known to differ.    *)
(***************************************************************************)
EXTENDS Operators, WellFoundedInduction, SequenceTheorems, TLAPS

Scalars == {CRY_NIL, CRY_BOOL, CRY_INT, CRY_DOUBLE, CRY_TEXT, CRY_STRING}

(* Booleans and numbers as the machine has them. *)
IsBool(x)  == x = <<0>> \/ x = <<1>>
IsInt(x)   == \E n \in MinInt .. MaxInt : x = <<n>>
IsRatio(x) == \E n \in Int, m \in Nat \ {0} : x = <<n, m>> /\ Lowest(n, m) = <<n, m>>

(* A value of the program, with all of its bytes written. *)
Shaped(v) ==
  /\ v = [type |-> v.type, val |-> v.val, mark |-> FALSE] /\ v.type \in Scalars
  /\ v.type = CRY_NIL => v.val = <<>>
  /\ v.type = CRY_BOOL => v.val = <<0>> \/ v.val = <<1>>
  /\ v.type = CRY_INT => IsInt(v.val)
  /\ v.type = CRY_DOUBLE => IsRatio(v.val)

Result(v) == Shaped(v) \/ v = Trap

LEMMA Codes ==
  /\ CRY_NIL = 0 /\ CRY_BOOL = 1 /\ CRY_INT = 2 /\ CRY_DOUBLE = 4 /\ CRY_TEXT = 5 /\ CRY_STRING = 8 /\ CRY_SYMS = 11
  /\ Scalars = {0, 1, 2, 4, 5, 8}
BY DEF CRY_NIL, CRY_BOOL, CRY_INT, CRY_DOUBLE, CRY_TEXT, CRY_STRING, CRY_SYMS, Scalars

LEMMA Tuples ==
  ASSUME NEW a, NEW b
  PROVE  /\ <<a>> # <<>> /\ <<a, b>> # <<>> /\ <<a>>[1] = a /\ <<a, b>>[1] = a /\ <<a, b>>[2] = b
         /\ <<a>> = <<b>> => a = b
<1>1. Len(<<a>>) = 1 /\ Len(<<a, b>>) = 2 /\ Len(<<>>) = 0
  OBVIOUS
<1>2. <<a>>[1] = a /\ <<b>>[1] = b /\ <<a, b>>[1] = a /\ <<a, b>>[2] = b
  OBVIOUS
<1> QED  BY <1>1, <1>2

LEMMA ValueIs ==
  ASSUME NEW t, NEW x
  PROVE  V(t, x) = [type |-> t, val |-> x, mark |-> FALSE] /\ V(t, x).type = t /\ V(t, x).val = x /\ V(t, x).mark = FALSE
BY DEF V

LEMMA HigherIs ==
  ASSUME NEW v, NEW w, v.type \in Nat, w.type \in Nat
  PROVE  Higher(v, w) = IF v.type >= w.type THEN v.type ELSE w.type
<1>1. PICK a \in Nat, b \in Nat : a = v.type /\ b = w.type
  OBVIOUS
<1>2. Higher(v, w) = Max({a, b})
  <2>1. {a} \cup {b} = {a, b}
    OBVIOUS
  <2> QED  BY <1>1, <2>1 DEF Higher, Reduce, Set
<1>3. PICK c \in {a, b} : c = IF a >= b THEN a ELSE b
  OBVIOUS
<1>4. \A y \in {a, b} : c >= y
  BY <1>3
<1>5. ASSUME NEW z \in {a, b}, \A y \in {a, b} : z >= y PROVE z = c
  BY <1>3, <1>5
<1>6. Max({a, b}) = c
  BY <1>4, <1>5 DEF Max
<1> QED  BY <1>1, <1>2, <1>3, <1>6

(***************************************************************************)
(* Fractions in lowest terms.                                              *)
(***************************************************************************)
LEMMA Best ==
  ASSUME NEW d \in Nat, NEW S \in SUBSET (0 .. d), S # {}
  PROVE  Max(S) \in S /\ \A y \in S : Max(S) >= y
<1> DEFINE R == {k \in 0 .. d : d - k \in S}
<1>1. PICK s \in S : TRUE
  OBVIOUS
<1>2. d - s \in R /\ R \subseteq Nat
  OBVIOUS
<1>3. PICK x \in R : \A y \in R : ~ (<<y, x>> \in OpToRel(<, Nat))
  <2> HIDE DEF R
  <2>1. R # {} /\ R \subseteq Nat
    BY <1>2
  <2> QED  BY ONLY <2>1, NatLessThanWellFounded, WFMin
<1>4. ASSUME NEW y \in S PROVE d - x >= y
  <2>1. d - y \in R /\ d - y \in Nat /\ x \in Nat
    OBVIOUS
  <2>2. ~ (d - y < x)
    BY <1>3, <2>1 DEF OpToRel
  <2> QED  BY <2>1, <2>2
<1>5. d - x \in S
  OBVIOUS
<1> QED  BY <1>4, <1>5 DEF Max

Divisors(n, d) == {k \in 1 .. d : n % k = 0 /\ d % k = 0}

LEMMA Remainder ==
  ASSUME NEW a \in Int, NEW b \in Nat \ {0}
  PROVE  /\ a \div b \in Int /\ a % b \in 0 .. b - 1 /\ (a * b) % b = 0 /\ (a * b) \div b = a
         /\ a % b = 0 => a = (a \div b) * b
<1>1. a \div b \in Int /\ a % b \in 0 .. b - 1
  OBVIOUS
<1>2. (a * b) % b = 0
  OBVIOUS
<1>3. (a * b) \div b = a
  OBVIOUS
<1>4. a % b = 0 => a = (a \div b) * b
  OBVIOUS
<1> QED  BY <1>1, <1>2, <1>3, <1>4

LEMMA LowestIs ==
  ASSUME NEW n \in Int, NEW d \in Nat \ {0}
  PROVE  IsRatio(Lowest(n, d))
<1> DEFINE g == Max(Divisors(n, d))
<1>1. 1 \in Divisors(n, d) /\ Divisors(n, d) \in SUBSET (0 .. d)
  BY DEF Divisors
<1>2. g \in Divisors(n, d) /\ \A y \in Divisors(n, d) : g >= y
  <2>1. Divisors(n, d) # {} /\ d \in Nat
    BY <1>1
  <2> QED  BY ONLY <1>1, <2>1, Best
<1>3. Lowest(n, d) = <<n \div g, d \div g>>
  BY DEF Lowest, Divisors
<1>4. g \in Nat \ {0} /\ n % g = 0 /\ d % g = 0
  BY <1>2 DEF Divisors
<1> HIDE DEF g
<1>5. PICK a \in Int, b \in Int : a = n \div g /\ b = d \div g
  BY <1>4, Remainder
<1>6. n = a * g /\ d = b * g
  BY <1>4, <1>5, Remainder
<1>7. b \in Nat \ {0}
  BY <1>4, <1>6
<1>8. ASSUME NEW k \in Divisors(a, b) PROVE k = 1
  <2>1. k \in Nat \ {0} /\ a % k = 0 /\ b % k = 0
    BY <1>8 DEF Divisors
  <2>2. PICK p \in Int, q \in Int : a = p * k /\ b = q * k
    BY <1>7, <2>1, Remainder
  <2>3. n = p * (k * g) /\ d = q * (k * g)
    BY ONLY <1>4, <1>6, <2>1, <2>2
  <2>4. k * g \in Nat \ {0}
    BY ONLY <1>4, <2>1
  <2>5. n % (k * g) = 0 /\ d % (k * g) = 0
    BY ONLY <2>2, <2>3, <2>4, Remainder
  <2>6. q \in Nat \ {0}
    BY ONLY <2>2, <2>1, <1>7
  <2>7. k * g <= d
    BY ONLY <2>3, <2>4, <2>6
  <2>8. k * g \in Divisors(n, d)
    BY <2>4, <2>5, <2>7 DEF Divisors
  <2>9. g >= k * g
    BY <1>2, <2>8 DEF g
  <2> QED  BY ONLY <1>4, <2>1, <2>9
<1>9. 1 \in Divisors(a, b)
  BY <1>7 DEF Divisors
<1>10. Max(Divisors(a, b)) = 1
  <2>1. Divisors(a, b) = {1}
    BY <1>8, <1>9
  <2> QED  BY <2>1 DEF Max
<1>11. Lowest(a, b) = <<a \div 1, b \div 1>>
  BY <1>10 DEF Lowest, Divisors
<1>12. Lowest(a, b) = <<a, b>>
  BY <1>7, <1>11
<1> QED  BY <1>3, <1>5, <1>7, <1>12 DEF IsRatio

(***************************************************************************)
(* The operations of the machine.                                          *)
(***************************************************************************)
LEMMA Limits == MinInt \in Int /\ MaxInt \in Int /\ MinInt <= -1 /\ MaxInt >= 1 /\ MaxInt = -MinInt - 1 /\ 2 ^ Width = -2 * MinInt
<1>1. PICK p \in Nat \ {0, 1} : p = 2 ^ (Width - 1)
  BY PowersAssumption
<1>2. MaxInt = p - 1 /\ 2 ^ Width = 2 * p
  BY <1>1, PowersAssumption DEF MaxInt
<1> QED  BY <1>1, <1>2 DEF MinInt

LEMMA WrapIs ==
  ASSUME NEW n \in Int
  PROVE  IsInt(IntOf(n).val) /\ IntOf(n) = V(CRY_INT, IntOf(n).val)
<1>1. PICK m \in Int : m = MinInt
  BY Limits
<1>2. PICK w \in Nat \ {0} : w = 2 ^ Width /\ w = -2 * m
  BY <1>1, Limits
<1>3. (n - m) % w \in 0 .. w - 1
  BY Remainder
<1>4. Wrap(n) = ((n - m) % w) + m
  BY <1>1, <1>2 DEF Wrap
<1>5. Wrap(n) \in m .. (m + w - 1)
  BY <1>3, <1>4
<1>6. m + w - 1 = MaxInt
  BY <1>1, <1>2, Limits
<1>7. IntOf(n) = V(CRY_INT, <<Wrap(n)>>) /\ V(CRY_INT, <<Wrap(n)>>).val = <<Wrap(n)>>
  BY ValueIs DEF IntOf
<1> QED  BY <1>1, <1>5, <1>6, <1>7 DEF IsInt

(* A value that arithmetic can read, and a double the way it is read. *)
Numeric(v) == v.type \in {CRY_BOOL, CRY_INT, CRY_DOUBLE} /\ Num(v) \in Int /\ Denom(v) \in Nat \ {0}

LEMMA ShapedNumeric ==
  ASSUME NEW v, Shaped(v), v.type \in {CRY_BOOL, CRY_INT, CRY_DOUBLE}
  PROVE  Numeric(v) /\ (v.type # CRY_DOUBLE => Num(v) \in MinInt .. MaxInt /\ Denom(v) = 1)
<1>1. CASE v.type = CRY_BOOL
  <2>1. v.val = <<0>> \/ v.val = <<1>>
    BY <1>1 DEF Shaped
  <2>2. Num(v) = 0 \/ Num(v) = 1
    BY <2>1, Tuples DEF Num
  <2>3. Denom(v) = 1
    BY <1>1, Codes DEF Denom
  <2> QED  BY <1>1, <2>2, <2>3, Limits, Codes DEF Numeric
<1>2. CASE v.type = CRY_INT
  <2>1. PICK n \in MinInt .. MaxInt : v.val = <<n>>
    BY <1>2 DEF Shaped, IsInt
  <2>2. Num(v) = n
    BY <2>1, Tuples DEF Num
  <2>3. Denom(v) = 1
    BY <1>2, Codes DEF Denom
  <2> QED  BY <1>2, <2>1, <2>2, <2>3, Limits, Codes DEF Numeric
<1>3. CASE v.type = CRY_DOUBLE
  <2>1. PICK n \in Int, m \in Nat \ {0} : v.val = <<n, m>>
    BY <1>3 DEF Shaped, IsRatio
  <2>2. Num(v) = n /\ Denom(v) = m
    BY <1>3, <2>1, Tuples DEF Num, Denom
  <2> QED  BY <1>3, <2>2 DEF Numeric
<1> QED  BY <1>1, <1>2, <1>3

IntResult(y)    == y = Trap \/ (y = V(CRY_INT, y.val) /\ IsInt(y.val))
DoubleResult(y) == y = V(CRY_DOUBLE, y.val) /\ IsRatio(y.val)

LEMMA AbsIs == ASSUME NEW a \in Int PROVE Abs(a) \in Nat /\ (a # 0 => Abs(a) # 0)
BY DEF Abs

LEMMA IntsIs ==
  ASSUME NEW op \in Arithmetic, NEW l, NEW r, Num(l) \in MinInt .. MaxInt, Num(r) \in MinInt .. MaxInt
  PROVE  IntResult(Ints(op, l, r))
<1>1. PICK a \in Int, b \in Int : a = Num(l) /\ b = Num(r)
  BY Limits
<1>2. ~Traps(a, b) => Quotient(a, b) \in Int
  <2>1. SUFFICES ASSUME b # 0 PROVE Quotient(a, b) \in Int
    BY DEF Traps
  <2>2. PICK p \in Nat, q \in Nat \ {0} : p = Abs(a) /\ q = Abs(b)
    BY <2>1, AbsIs
  <2>3. p \div q \in Int
    BY Remainder
  <2> QED  BY <2>2, <2>3 DEF Quotient
<1>3. Power(a, b) \in Int
  <2>1. b > 1 => b \in 2 .. MaxInt /\ a \in MinInt .. MaxInt
    BY <1>1, Limits
  <2>2. b > 1 => a ^ b \in Int
    BY <2>1, PowersAssumption
  <2> QED  BY <2>2 DEF Power
<1>4. Ints(op, l, r) = Trap \/ \E n \in Int : Ints(op, l, r) = IntOf(n)
  <2>1. CASE op \in {"+", "-", "*"}
    <3>1. a + b \in Int /\ a - b \in Int /\ a * b \in Int
      OBVIOUS
    <3> QED  BY <1>1, <2>1, <3>1 DEF Ints
  <2>2. CASE op = "/"
    BY <1>1, <1>2, <2>2 DEF Ints
  <2>3. CASE op = "%"
    <3>1. Ints(op, l, r) = IF Traps(a, b) THEN Trap ELSE IntOf(a - b * Quotient(a, b))
      BY <1>1, <2>3 DEF Ints
    <3>2. ~Traps(a, b) => a - b * Quotient(a, b) \in Int
      BY <1>2
    <3> QED  BY <3>1, <3>2
  <2>4. CASE op = "^"
    BY <1>1, <1>3, <2>4 DEF Ints
  <2> QED  BY <2>1, <2>2, <2>3, <2>4 DEF Arithmetic
<1> QED  BY <1>4, WrapIs DEF IntResult

LEMMA DoubleIs ==
  ASSUME NEW a \in Int, NEW b \in Int \ {0}
  PROVE  DoubleResult(Double(a, b))
<1>1. PICK c \in Int, k \in Nat \ {0} : c = (IF b < 0 THEN -a ELSE a) /\ k = (IF b < 0 THEN -b ELSE b)
  OBVIOUS
<1>2. Double(a, b) = V(CRY_DOUBLE, Lowest(c, k))
  BY <1>1 DEF Double
<1>3. PICK x : x = Lowest(c, k)
  OBVIOUS
<1>4. IsRatio(x)
  BY <1>3, LowestIs
<1>5. V(CRY_DOUBLE, x).val = x
  BY ValueIs
<1> QED  BY <1>2, <1>3, <1>4, <1>5 DEF DoubleResult

(* What Finite asks of the operands of an operation on doubles. *)
Defined(op, l, r) ==
  /\ op = "/" => Num(r) # 0
  /\ op = "^" => /\ Num(l) # 0 /\ Abs(Num(r)) <= Width
                 /\ Abs(Num(l)) <= 2 ^ Width /\ Denom(l) <= 2 ^ Width

LEMMA Product == ASSUME NEW a \in Int, NEW b \in Int PROVE a * b \in Int /\ a * b = b * a /\ (a # 0 /\ b # 0 => a * b # 0)
OBVIOUS

LEMMA DoublesIs ==
  ASSUME NEW op \in Arithmetic, op # "%", NEW l, NEW r, Numeric(l), Numeric(r), Defined(op, l, r)
  PROVE  DoubleResult(Doubles(op, l, r))
<1>1. PICK a \in Int, p \in Nat \ {0}, b \in Int, q \in Nat \ {0} :
        a = Num(l) /\ p = Denom(l) /\ b = Num(r) /\ q = Denom(r)
  BY DEF Numeric
<1>2. SUFFICES \E n \in Int, m \in Int \ {0} : Doubles(op, l, r) = Double(n, m)
  BY DoubleIs
<1>3. p * q \in Int \ {0} /\ a * q \in Int /\ b * p \in Int /\ a * b \in Int
  BY Product
<1>4. CASE op = "+"
  <2>1. Doubles(op, l, r) = Double(a * q + b * p, p * q)
    BY <1>1, <1>4 DEF Doubles
  <2>2. a * q + b * p \in Int
    BY <1>3
  <2> QED  BY <1>3, <2>1, <2>2
<1>5. CASE op = "-"
  <2>1. Doubles(op, l, r) = Double(a * q - b * p, p * q)
    BY <1>1, <1>5 DEF Doubles
  <2>2. a * q - b * p \in Int
    BY <1>3
  <2> QED  BY <1>3, <2>1, <2>2
<1>6. CASE op = "*"
  <2>1. Doubles(op, l, r) = Double(a * b, p * q)
    BY <1>1, <1>6 DEF Doubles
  <2> QED  BY <1>3, <2>1
<1>7. CASE op = "/"
  <2>1. Doubles(op, l, r) = Double(a * q, p * b)
    BY <1>1, <1>7 DEF Doubles
  <2>2. b # 0
    BY <1>1, <1>7 DEF Defined
  <2>3. p * b \in Int \ {0}
    BY <2>2, Product
  <2> QED  BY <1>3, <2>1, <2>3
<1>8. CASE op = "^"
  <2>1. Doubles(op, l, r) = IF b >= 0 THEN Double(a ^ b, p ^ b) ELSE Double(p ^ (-b), a ^ (-b))
    BY <1>1, <1>8 DEF Doubles
  <2>2. a # 0 /\ Abs(b) <= Width /\ Abs(a) <= 2 ^ Width /\ p <= 2 ^ Width
    BY <1>1, <1>8 DEF Defined
  <2>3. PICK w \in Int : w = 2 ^ Width
    BY Limits
  <2>4. PICK n \in 0 .. Width : n = Abs(b) /\ n = IF b >= 0 THEN b ELSE -b
    BY <2>2, AbsIs, OperatorsAssumption DEF Abs
  <2>5. \A c \in 1 .. w : c ^ n \in Nat \ {0} /\ (-c) ^ n \in Int \ {0}
    BY <2>3, PowersAssumption
  <2>6. p ^ n \in Nat \ {0}
    BY <2>2, <2>3, <2>5
  <2>7. a ^ n \in Int \ {0}
    <3>1. CASE a > 0
      <4>1. a \in 1 .. w
        BY <2>2, <2>3, <3>1 DEF Abs
      <4> QED  BY <2>5, <4>1
    <3>2. CASE ~(a > 0)
      <4>1. -a \in 1 .. w /\ -(-a) = a
        BY <2>2, <2>3, <3>2 DEF Abs
      <4> QED  BY <2>5, <4>1
    <3> QED  BY <3>1, <3>2
  <2>8. p ^ n \in Int \ {0}
    BY <2>6
  <2>9. CASE b >= 0
    <3>1. Doubles(op, l, r) = Double(a ^ n, p ^ n)
      BY <2>1, <2>4, <2>9
    <3> QED  BY <2>7, <2>8, <3>1
  <2>10. CASE ~(b >= 0)
    <3>1. Doubles(op, l, r) = Double(p ^ n, a ^ n)
      BY <2>1, <2>4, <2>10
    <3> QED  BY <2>7, <2>8, <3>1
  <2> QED  BY <2>9, <2>10
<1> QED  BY <1>4, <1>5, <1>6, <1>7, <1>8 DEF Arithmetic

(* Only * is used on operands in either order. *)
LEMMA Commutes ==
  ASSUME NEW l, NEW r, Numeric(l), Numeric(r)
  PROVE  Ints("*", l, r) = Ints("*", r, l) /\ Doubles("*", l, r) = Doubles("*", r, l)
<1>1. PICK a \in Int, p \in Int, b \in Int, q \in Int :
        a = Num(l) /\ p = Denom(l) /\ b = Num(r) /\ q = Denom(r)
  BY DEF Numeric
<1>2. a * b = b * a /\ p * q = q * p
  BY Product
<1>3. Ints("*", l, r) = IntOf(a * b) /\ Ints("*", r, l) = IntOf(b * a)
  BY <1>1 DEF Ints
<1>4. Doubles("*", l, r) = Double(a * b, p * q) /\ Doubles("*", r, l) = Double(b * a, q * p)
  BY <1>1 DEF Doubles
<1> QED  BY <1>2, <1>3, <1>4

(* Operations look at the numbers only. *)
SameNumber(v, w) == v.val = w.val /\ (v.type = CRY_DOUBLE <=> w.type = CRY_DOUBLE)

LEMMA SameOperation ==
  ASSUME NEW op, NEW l, NEW r, NEW l2, NEW r2, SameNumber(l, l2), SameNumber(r, r2)
  PROVE  /\ Ints(op, l, r) = Ints(op, l2, r2) /\ Doubles(op, l, r) = Doubles(op, l2, r2)
         /\ Related(op, l, r) = Related(op, l2, r2) /\ T(l) = T(l2)
<1>1. Num(l) = Num(l2) /\ Num(r) = Num(r2) /\ Denom(l) = Denom(l2) /\ Denom(r) = Denom(r2) /\ T(l) = T(l2)
  BY DEF SameNumber, Num, Denom, T
<1>2. Ints(op, l, r) = Ints(op, l2, r2)
  BY <1>1 DEF Ints
<1>3. Doubles(op, l, r) = Doubles(op, l2, r2)
  BY <1>1 DEF Doubles
<1>4. Related(op, l, r) = Related(op, l2, r2)
  BY <1>1 DEF Related
<1> QED  BY <1>1, <1>2, <1>3, <1>4

(***************************************************************************)
(* The operands, as the three see them.                                    *)
(***************************************************************************)

(* The folded value f, the dynamic value e, of what is c in static code.   *)
Alike(f, c) ==
  /\ f.type = (IF c.type = CRY_STRING THEN CRY_TEXT ELSE c.type) /\ f.val = c.val
  /\ f.mark \in BOOLEAN /\ (f.mark => f.type # CRY_TEXT)
Twin(e, c)  == e = [type |-> c.type, val |-> c.val, mark |-> FALSE]

(* dest is f, d and e, the other operand g, x and x. *)
Operands(f, g, d, x, e) ==
  /\ Shaped(d) /\ Shaped(x)
  /\ Alike(f, d) /\ Alike(g, x) /\ ~g.mark /\ Twin(e, d)

Textual(v, w) == IsText(v) \/ IsText(w)
Number(v)     == v.type \in {CRY_INT, CRY_DOUBLE}

LEMMA Kinds ==
  ASSUME NEW d, NEW x, Shaped(d), Shaped(x)
  PROVE  \/ Textual(d, x)
         \/ ~Textual(d, x) /\ OneOf(d, x, CRY_NIL)
         \/ Both(d, x, CRY_BOOL)
         \/ OneOf(d, x, CRY_BOOL) /\ (Number(d) \/ Number(x))
         \/ Number(d) /\ Number(x)
BY Codes DEF Shaped, Textual, OneOf, Both, Number, IsText

LEMMA HigherOf ==
  ASSUME NEW d, NEW x, Shaped(d), Shaped(x)
  PROVE  /\ Higher(d, x) = IF d.type >= x.type THEN d.type ELSE x.type
         /\ Textual(d, x) => Higher(d, x) \in {CRY_TEXT, CRY_STRING}
         /\ ~Textual(d, x) => Higher(d, x) \in {CRY_NIL, CRY_BOOL, CRY_INT, CRY_DOUBLE}
         /\ Both(d, x, CRY_BOOL) => Higher(d, x) = CRY_BOOL
         /\ Number(d) /\ Number(x) => Higher(d, x) \in {CRY_INT, CRY_DOUBLE}
         /\ ~Textual(d, x) /\ (Number(d) \/ Number(x)) => Higher(d, x) \in {CRY_INT, CRY_DOUBLE}
<1>1. Higher(d, x) = IF d.type >= x.type THEN d.type ELSE x.type
  BY Codes, HigherIs DEF Shaped
<1>2. d.type \in {0, 1, 2, 4, 5, 8} /\ x.type \in {0, 1, 2, 4, 5, 8}
  BY Codes DEF Shaped
<1> QED  BY <1>1, <1>2, Codes DEF Textual, Both, Number, IsText

LEMMA Views ==
  ASSUME NEW f, NEW g, NEW d, NEW x, NEW e, NEW left \in BOOLEAN, Operands(f, g, d, x, e)
  PROVE  /\ Textual(Lhs(f, g, left), Rhs(f, g, left)) <=> Textual(d, x)
         /\ ~Textual(d, x) => Higher(Lhs(f, g, left), Rhs(f, g, left)) = Higher(d, x)
         /\ \A t \in {CRY_NIL, CRY_BOOL, CRY_INT, CRY_DOUBLE} :
              /\ OneOf(Lhs(f, g, left), Rhs(f, g, left), t) <=> OneOf(d, x, t)
              /\ Both(Lhs(f, g, left), Rhs(f, g, left), t) <=> Both(d, x, t)
         /\ Shaped(e) /\ Higher(e, x) = Higher(d, x) /\ (Textual(e, x) <=> Textual(d, x)) /\ (Number(e) <=> Number(d))
         /\ \A t : (OneOf(e, x, t) <=> OneOf(d, x, t)) /\ (Both(e, x, t) <=> Both(d, x, t)) /\ (Of(e, t) <=> Of(d, t))
<1> DEFINE l == Lhs(f, g, left)
           r == Rhs(f, g, left)
<1>1. d.type \in {0, 1, 2, 4, 5, 8} /\ x.type \in {0, 1, 2, 4, 5, 8}
  BY Codes DEF Shaped, Operands
<1>2. /\ f.type = (IF d.type = 8 THEN 5 ELSE d.type) /\ g.type = (IF x.type = 8 THEN 5 ELSE x.type)
  BY Codes DEF Operands, Alike
<1>3. l.type = (IF left THEN f.type ELSE g.type) /\ r.type = (IF left THEN g.type ELSE f.type)
  BY DEF Lhs, Rhs
<1>4. e.type = d.type /\ e.val = d.val /\ e.mark = FALSE /\ e = [type |-> e.type, val |-> e.val, mark |-> FALSE]
  BY DEF Operands, Twin
<1>5. Shaped(e)
  BY <1>4 DEF Operands, Shaped
<1>6. Higher(l, r) = IF l.type >= r.type THEN l.type ELSE r.type
  BY <1>1, <1>2, <1>3, HigherIs
<1>7. Higher(d, x) = (IF d.type >= x.type THEN d.type ELSE x.type) /\ Higher(e, x) = (IF e.type >= x.type THEN e.type ELSE x.type)
  BY <1>5, HigherOf DEF Operands
<1> HIDE DEF l, r
<1>8. Textual(l, r) <=> Textual(d, x)
  BY <1>1, <1>2, <1>3, Codes DEF Textual, IsText
<1>9. ~Textual(d, x) => Higher(l, r) = Higher(d, x)
  BY <1>1, <1>2, <1>3, <1>6, <1>7, Codes DEF Textual, IsText
<1>10. ASSUME NEW t \in {CRY_NIL, CRY_BOOL, CRY_INT, CRY_DOUBLE}
       PROVE  (OneOf(l, r, t) <=> OneOf(d, x, t)) /\ (Both(l, r, t) <=> Both(d, x, t))
  BY <1>1, <1>2, <1>3, Codes DEF OneOf, Both
<1>11. Higher(e, x) = Higher(d, x) /\ (Textual(e, x) <=> Textual(d, x)) /\ (Number(e) <=> Number(d))
  BY <1>4, <1>7 DEF Textual, Number, IsText
<1>12. ASSUME NEW t
       PROVE  (OneOf(e, x, t) <=> OneOf(d, x, t)) /\ (Both(e, x, t) <=> Both(d, x, t)) /\ (Of(e, t) <=> Of(d, t))
  BY <1>4 DEF OneOf, Both, Of
<1> QED  BY <1>5, <1>8, <1>9, <1>10, <1>11, <1>12 DEF l, r

LEMMA SameNumbers ==
  ASSUME NEW f, NEW g, NEW d, NEW x, NEW e, NEW left \in BOOLEAN, NEW op, Operands(f, g, d, x, e)
  PROVE  /\ Ints(op, Lhs(f, g, left), Rhs(f, g, left)) = Ints(op, Lhs(d, x, left), Rhs(d, x, left))
         /\ Doubles(op, Lhs(f, g, left), Rhs(f, g, left)) = Doubles(op, Lhs(d, x, left), Rhs(d, x, left))
         /\ Related(op, Lhs(f, g, left), Rhs(f, g, left)) = Related(op, Lhs(d, x, left), Rhs(d, x, left))
         /\ T(Lhs(f, g, left)) = T(Lhs(d, x, left)) /\ T(Rhs(f, g, left)) = T(Rhs(d, x, left))
<1>1. SameNumber(f, d) /\ SameNumber(g, x)
  BY Codes DEF Operands, Alike, SameNumber, Shaped
<1>2. SameNumber(Lhs(f, g, left), Lhs(d, x, left)) /\ SameNumber(Rhs(f, g, left), Rhs(d, x, left))
  BY <1>1 DEF Lhs, Rhs
<1>3. T(Rhs(f, g, left)) = T(Rhs(d, x, left))
  BY <1>2 DEF T, SameNumber
<1>4. /\ Ints(op, Lhs(f, g, left), Rhs(f, g, left)) = Ints(op, Lhs(d, x, left), Rhs(d, x, left))
      /\ Doubles(op, Lhs(f, g, left), Rhs(f, g, left)) = Doubles(op, Lhs(d, x, left), Rhs(d, x, left))
      /\ Related(op, Lhs(f, g, left), Rhs(f, g, left)) = Related(op, Lhs(d, x, left), Rhs(d, x, left))
      /\ T(Lhs(f, g, left)) = T(Lhs(d, x, left))
  BY ONLY <1>2, SameOperation
<1> QED  BY <1>3, <1>4

(* The runtime reads the same numbers, in either order. *)
LEMMA Swapped ==
  ASSUME NEW op, NEW d, NEW x, NEW e, Twin(e, d)
  PROVE  /\ Ints(op, e, x) = Ints(op, d, x) /\ Doubles(op, e, x) = Doubles(op, d, x) /\ Related(op, e, x) = Related(op, d, x)
         /\ Ints(op, x, e) = Ints(op, x, d) /\ Doubles(op, x, e) = Doubles(op, x, d) /\ Related(op, x, e) = Related(op, x, d)
         /\ T(e) = T(d)
<1>1. SameNumber(e, d) /\ SameNumber(x, x)
  BY DEF Twin, SameNumber
<1>2. /\ Ints(op, e, x) = Ints(op, d, x) /\ Doubles(op, e, x) = Doubles(op, d, x)
      /\ Related(op, e, x) = Related(op, d, x) /\ T(e) = T(d)
  BY ONLY <1>1, SameOperation
<1>3. Ints(op, x, e) = Ints(op, x, d) /\ Doubles(op, x, e) = Doubles(op, x, d) /\ Related(op, x, e) = Related(op, x, d)
  BY ONLY <1>1, SameOperation
<1> QED  BY <1>2, <1>3

(***************************************************************************)
(* One operator.                                                           *)
(***************************************************************************)

(* The results agree: y before it is marked, c in static code, z dynamic. *)
Same(y, c, z) ==
  /\ Result(c) /\ y.type = (IF c.type = CRY_STRING THEN CRY_TEXT ELSE c.type) /\ y.val = c.val
  /\ y = [type |-> y.type, val |-> y.val, mark |-> FALSE] /\ Twin(z, c)

LEMMA Itself ==
  ASSUME NEW t, NEW a, NEW y, y = V(t, a), t # CRY_STRING, Shaped(y) \/ y = Trap
  PROVE  Same(y, y, y)
<1>1. y = [type |-> t, val |-> a, mark |-> FALSE] /\ y.type = t /\ y.val = a /\ y.mark = FALSE
  BY ValueIs
<1>2. y = [type |-> y.type, val |-> y.val, mark |-> FALSE]
  BY <1>1
<1> QED  BY <1>1, <1>2 DEF Same, Result, Twin

LEMMA Makes ==
  ASSUME NEW t \in Scalars, NEW a, NEW y, y = V(t, a),
         t = CRY_NIL => a = <<>>, t = CRY_BOOL => IsBool(a), t = CRY_INT => IsInt(a), t = CRY_DOUBLE => IsRatio(a)
  PROVE  Shaped(y) /\ y.type = t /\ y.mark = FALSE
<1>1. y = [type |-> t, val |-> a, mark |-> FALSE] /\ y.type = t /\ y.val = a /\ y.mark = FALSE
  BY ValueIs
<1>2. y = [type |-> y.type, val |-> y.val, mark |-> FALSE]
  BY <1>1
<1> QED  BY <1>1, <1>2 DEF Shaped, IsBool

LEMMA SameResults ==
  /\ Same(Nil, Nil, Nil) /\ \A b \in BOOLEAN : Same(Bool(b), Bool(b), Bool(b))
  /\ \A y : IntResult(y) \/ DoubleResult(y) => Same(y, y, y)
<1>1. Same(Nil, Nil, Nil)
  <2>1. CRY_NIL \in Scalars /\ CRY_NIL # CRY_STRING /\ CRY_NIL \notin {CRY_BOOL, CRY_INT, CRY_DOUBLE}
    BY Codes
  <2>2. PICK y : y = Nil /\ y = V(CRY_NIL, <<>>)
    BY DEF Nil
  <2>3. Shaped(y)
    BY <2>1, <2>2, Makes
  <2> QED  BY <2>1, <2>2, <2>3, Itself
<1>2. ASSUME NEW b \in BOOLEAN PROVE Same(Bool(b), Bool(b), Bool(b))
  <2>1. CRY_BOOL \in Scalars /\ CRY_BOOL # CRY_STRING /\ CRY_BOOL \notin {CRY_NIL, CRY_INT, CRY_DOUBLE}
    BY Codes
  <2>2. PICK a : a = <<IF b THEN 1 ELSE 0>>
    OBVIOUS
  <2>3. PICK y : y = Bool(b) /\ y = V(CRY_BOOL, a)
    BY <2>2 DEF Bool
  <2>4. IsBool(a)
    BY <2>2 DEF IsBool
  <2>5. Shaped(y)
    BY <2>1, <2>3, <2>4, Makes
  <2> QED  BY <2>1, <2>3, <2>5, Itself
<1>3. ASSUME NEW y, IntResult(y) PROVE Same(y, y, y)
  <2>1. CASE y = Trap
    <3>1. y = V(CRY_SYMS, <<>>) /\ CRY_SYMS # CRY_STRING
      BY <2>1, Codes DEF Trap
    <3> QED  BY <2>1, <3>1, Itself
  <2>2. CASE y = V(CRY_INT, y.val) /\ IsInt(y.val)
    <3>1. CRY_INT \in Scalars /\ CRY_INT # CRY_STRING /\ CRY_INT \notin {CRY_NIL, CRY_BOOL, CRY_DOUBLE}
      BY Codes
    <3>2. Shaped(y)
      BY <2>2, <3>1, Makes
    <3> QED  BY <2>2, <3>1, <3>2, Itself
  <2> QED  BY <1>3, <2>1, <2>2 DEF IntResult
<1>4. ASSUME NEW y, DoubleResult(y) PROVE Same(y, y, y)
  <2>1. CRY_DOUBLE \in Scalars /\ CRY_DOUBLE # CRY_STRING /\ CRY_DOUBLE \notin {CRY_NIL, CRY_BOOL, CRY_INT}
    BY Codes
  <2>2. y = V(CRY_DOUBLE, y.val) /\ IsRatio(y.val)
    BY <1>4 DEF DoubleResult
  <2>3. Shaped(y)
    BY <2>1, <2>2, Makes
  <2> QED  BY <2>1, <2>2, <2>3, Itself
<1> QED  BY <1>1, <1>2, <1>3, <1>4

(* A nil operand that the runtime sees. *)
Raw(e, x, how, ref) == (Of(e, CRY_NIL) /\ ~ref) \/ (Of(x, CRY_NIL) /\ how # "element")

(* What an operator makes of each kind of operands: nil of texts and nil,  *)
(* nothing that is said here of a boolean and a number.                    *)
Settled(y, d, x, bool, int, double) ==
  /\ Textual(d, x) \/ OneOf(d, x, CRY_NIL) => y = Nil
  /\ Both(d, x, CRY_BOOL) => y = bool
  /\ Number(d) /\ Number(x) => y = IF Higher(d, x) = CRY_INT THEN int ELSE double

(* The runtime does not see that an element is nil. *)
Overlooked(d, x, how, ref) == (ref /\ Of(d, CRY_NIL)) \/ (how = "element" /\ Of(x, CRY_NIL))
Ran(z, d, x, bool, int, double, how, ref) ==
  /\ Textual(d, x) => z = Nil
  /\ OneOf(d, x, CRY_NIL) =>
       \/ z = Nil
       \/ Higher(d, x) = CRY_BOOL /\ bool # Nil /\ Overlooked(d, x, how, ref)
       \/ Higher(d, x) \in {CRY_INT, CRY_DOUBLE} /\ Overlooked(d, x, how, ref)
  /\ Both(d, x, CRY_BOOL) => z = bool
  /\ Number(d) /\ Number(x) => z = IF Higher(d, x) = CRY_INT THEN int ELSE double

(* What the folds, static code and the runtime make of them.               *)
LEMMA FoldIs ==
  ASSUME NEW op, NEW bool, NEW f, NEW g, NEW d, NEW x, NEW e, NEW left \in BOOLEAN, Operands(f, g, d, x, e),
         NEW y, y = FoldsOf(op, bool, Lhs(f, g, left), Rhs(f, g, left))
  PROVE  Settled(y, d, x, bool, Ints(op, Lhs(d, x, left), Rhs(d, x, left)), Doubles(op, Lhs(d, x, left), Rhs(d, x, left)))
<1> DEFINE l == Lhs(f, g, left)
           r == Rhs(f, g, left)
           i == Ints(op, Lhs(d, x, left), Rhs(d, x, left))
           w == Doubles(op, Lhs(d, x, left), Rhs(d, x, left))
<1>1. y = Folds(Higher(l, r), bool, i, w, l, r)
  BY SameNumbers DEF FoldsOf
<1>2. /\ (IsText(l) \/ IsText(r)) <=> Textual(d, x)
      /\ ~Textual(d, x) => Higher(l, r) = Higher(d, x)
      /\ OneOf(l, r, CRY_NIL) <=> OneOf(d, x, CRY_NIL)
      /\ OneOf(l, r, CRY_BOOL) <=> OneOf(d, x, CRY_BOOL)
      /\ Both(l, r, CRY_BOOL) <=> Both(d, x, CRY_BOOL)
  <2>1. (IsText(l) \/ IsText(r)) <=> Textual(l, r)
    BY DEF Textual
  <2> QED  BY <2>1, Views
<1> HIDE DEF l, r, i, w
<1>3. Textual(d, x) \/ OneOf(d, x, CRY_NIL) => y = Nil
  BY <1>1, <1>2 DEF Folds
<1>4. Both(d, x, CRY_BOOL) => y = bool
  <2>1. Both(d, x, CRY_BOOL) => OneOf(d, x, CRY_BOOL) /\ ~OneOf(d, x, CRY_NIL) /\ ~Textual(d, x)
    BY Codes DEF Both, OneOf, Textual, IsText
  <2> QED  BY <1>1, <1>2, <2>1 DEF Folds
<1>5. Number(d) /\ Number(x) => y = IF Higher(d, x) = CRY_INT THEN i ELSE w
  <2>1. Number(d) /\ Number(x) => ~OneOf(d, x, CRY_BOOL) /\ ~OneOf(d, x, CRY_NIL) /\ ~Textual(d, x)
    BY Codes DEF Number, OneOf, Textual, IsText
  <2>2. Number(d) /\ Number(x) => Higher(d, x) \in {CRY_INT, CRY_DOUBLE}
    BY HigherOf DEF Operands
  <2> QED  BY <1>1, <1>2, <2>1, <2>2, Codes DEF Folds, Select
<1> QED  BY <1>3, <1>4, <1>5 DEF i, w, Settled

LEMMA CodeIs ==
  ASSUME NEW op, NEW bool, NEW d, NEW x, NEW left \in BOOLEAN, Shaped(d), Shaped(x),
         NEW c, \/ c = Coded(op, bool, d, x, left)
                \/ c = CodedC(op, d, x, left) /\ ~Pooled(d, x) /\ (Both(d, x, CRY_BOOL) => bool = c)
  PROVE  Settled(c, d, x, bool, Ints(op, Lhs(d, x, left), Rhs(d, x, left)), Doubles(op, Lhs(d, x, left), Rhs(d, x, left)))
<1> DEFINE i == Ints(op, Lhs(d, x, left), Rhs(d, x, left))
           w == Doubles(op, Lhs(d, x, left), Rhs(d, x, left))
<1>1. PICK b : b = IF c = Coded(op, bool, d, x, left) THEN bool ELSE Nil
  OBVIOUS
<1>2. \/ c = (IF OneOf(d, x, CRY_NIL) THEN Nil ELSE Select(Higher(d, x), b, i, w)) /\ (Both(d, x, CRY_BOOL) => b = bool)
      \/ Chance(d, x) /\ (Both(d, x, CRY_BOOL) => bool = c)
      \/ bool = c /\ Both(d, x, CRY_BOOL)
  <2>1. CASE c = Coded(op, bool, d, x, left)
    BY <1>1, <2>1 DEF Coded
  <2>2. CASE c # Coded(op, bool, d, x, left)
    <3>1. c = CodedC(op, d, x, left) /\ ~Pooled(d, x) /\ (Both(d, x, CRY_BOOL) => bool = c) /\ b = Nil
      BY <1>1, <2>2
    <3> QED  BY <3>1 DEF Coded, CodedC
  <2> QED  BY <2>1, <2>2
<1> HIDE DEF i, w
<1>3. Both(d, x, CRY_BOOL) => ~Textual(d, x) /\ ~OneOf(d, x, CRY_NIL) /\ ~(Number(d) /\ Number(x))
  BY Codes DEF Both, Textual, OneOf, Number, IsText
<1>4. Chance(d, x) => ~Textual(d, x) /\ ~OneOf(d, x, CRY_NIL) /\ ~(Number(d) /\ Number(x))
  BY Codes DEF Chance, Of, Textual, OneOf, Number, IsText
<1>5. Textual(d, x) => Higher(d, x) \notin {CRY_BOOL, CRY_INT, CRY_DOUBLE}
  BY HigherOf, Codes
<1>6. Textual(d, x) \/ OneOf(d, x, CRY_NIL) => c = Nil
  BY <1>2, <1>4, <1>5, <1>3, Codes DEF Select
<1>7. Both(d, x, CRY_BOOL) => c = bool
  <2>1. Both(d, x, CRY_BOOL) => ~OneOf(d, x, CRY_NIL) /\ Higher(d, x) = CRY_BOOL
    BY HigherOf, Codes DEF Both, OneOf
  <2> QED  BY <1>2, <2>1, Codes DEF Select
<1>8. Number(d) /\ Number(x) => c = IF Higher(d, x) = CRY_INT THEN i ELSE w
  <2>1. Number(d) /\ Number(x) => ~OneOf(d, x, CRY_NIL) /\ Higher(d, x) \in {CRY_INT, CRY_DOUBLE}
    BY HigherOf, Codes DEF Number, OneOf
  <2> QED  BY <1>2, <1>4, <1>3, <2>1, Codes DEF Select
<1> QED  BY <1>6, <1>7, <1>8 DEF i, w, Settled

LEMMA RunIs ==
  ASSUME NEW bool, NEW int, NEW double, NEW d, NEW x, NEW e, Shaped(d), Shaped(x), Twin(e, d),
         NEW how, NEW ref \in BOOLEAN, NEW z, z = Obscured(e, x, Raw(e, x, how, ref), bool, int, double)
  PROVE  Ran(z, d, x, bool, int, double, how, ref)
<1>1. e.type = d.type /\ Shaped(e)
  BY DEF Twin, Shaped
<1>2. Higher(e, x) = Higher(d, x)
  BY <1>1, HigherOf
<1>3. z = (IF Raw(e, x, how, ref) THEN Nil
           ELSE IF OneOf(d, x, CRY_NIL)
                THEN Select(Higher(d, x), IF bool = Nil THEN Nil ELSE Unknown(CRY_BOOL), Unknown(CRY_INT), Unknown(CRY_DOUBLE))
                ELSE Select(Higher(d, x), bool, int, double))
  BY <1>1, <1>2 DEF Obscured, OneOf
<1>4. Raw(e, x, how, ref) <=> (Of(d, CRY_NIL) /\ ~ref) \/ (Of(x, CRY_NIL) /\ how # "element")
  BY <1>1 DEF Raw, Of
<1>5. Textual(d, x) => z = Nil
  <2>1. Textual(d, x) => Higher(d, x) \notin {CRY_BOOL, CRY_INT, CRY_DOUBLE}
    BY HigherOf, Codes
  <2> QED  BY <1>3, <2>1, Codes DEF Select
<1>6. OneOf(d, x, CRY_NIL) =>
        \/ z = Nil
        \/ Higher(d, x) = CRY_BOOL /\ bool # Nil /\ ((ref /\ Of(d, CRY_NIL)) \/ (how = "element" /\ Of(x, CRY_NIL)))
        \/ Higher(d, x) \in {CRY_INT, CRY_DOUBLE} /\ ((ref /\ Of(d, CRY_NIL)) \/ (how = "element" /\ Of(x, CRY_NIL)))
  <2>1. OneOf(d, x, CRY_NIL) /\ ~Raw(e, x, how, ref) =>
          (ref /\ Of(d, CRY_NIL)) \/ (how = "element" /\ Of(x, CRY_NIL))
    BY <1>4 DEF OneOf, Of
  <2>2. OneOf(d, x, CRY_NIL) /\ ~Raw(e, x, how, ref) =>
          \/ z = Nil \/ (Higher(d, x) = CRY_BOOL /\ bool # Nil) \/ Higher(d, x) \in {CRY_INT, CRY_DOUBLE}
    BY <1>3, Codes DEF Select
  <2> QED  BY <1>3, <2>1, <2>2
<1>7. Both(d, x, CRY_BOOL) => z = bool
  <2>1. Both(d, x, CRY_BOOL) => ~OneOf(d, x, CRY_NIL) /\ Higher(d, x) = CRY_BOOL /\ ~Of(d, CRY_NIL) /\ ~Of(x, CRY_NIL)
    BY HigherOf, Codes DEF Both, OneOf, Of
  <2> QED  BY <1>3, <1>4, <2>1, Codes DEF Select
<1>8. Number(d) /\ Number(x) => z = IF Higher(d, x) = CRY_INT THEN int ELSE double
  <2>1. Number(d) /\ Number(x) => /\ ~OneOf(d, x, CRY_NIL) /\ Higher(d, x) \in {CRY_INT, CRY_DOUBLE}
                                  /\ ~Of(d, CRY_NIL) /\ ~Of(x, CRY_NIL)
    BY HigherOf, Codes DEF Number, OneOf, Of
  <2> QED  BY <1>3, <1>4, <2>1, Codes DEF Select
<1> QED  BY <1>5, <1>6, <1>7, <1>8 DEF Ran, Overlooked

LEMMA Numbers ==
  ASSUME NEW op \in Arithmetic, NEW f, NEW g, NEW d, NEW x, NEW e, NEW left \in BOOLEAN, Operands(f, g, d, x, e),
         Finite(op, Lhs(f, g, left), Rhs(f, g, left)), Number(d), Number(x)
  PROVE  /\ Higher(d, x) = CRY_INT => IntResult(Ints(op, Lhs(d, x, left), Rhs(d, x, left)))
         /\ Higher(d, x) # CRY_INT /\ op # "%" => DoubleResult(Doubles(op, Lhs(d, x, left), Rhs(d, x, left)))
<1> DEFINE l == Lhs(d, x, left)
           r == Rhs(d, x, left)
<1>1. Shaped(l) /\ Shaped(r) /\ Number(l) /\ Number(r) /\ {l, r} = {d, x}
  BY DEF Lhs, Rhs, Operands
<1>2. Higher(d, x) = (IF d.type >= x.type THEN d.type ELSE x.type) /\ Higher(d, x) \in {CRY_INT, CRY_DOUBLE}
  BY HigherOf DEF Operands
<1>3. SameNumber(Lhs(f, g, left), l) /\ SameNumber(Rhs(f, g, left), r)
  <2>1. SameNumber(f, d) /\ SameNumber(g, x)
    BY Codes DEF Operands, Alike, SameNumber, Shaped
  <2> QED  BY <2>1 DEF Lhs, Rhs
<1>4. /\ Num(Lhs(f, g, left)) = Num(l) /\ Num(Rhs(f, g, left)) = Num(r)
      /\ Denom(Lhs(f, g, left)) = Denom(l) /\ Denom(Rhs(f, g, left)) = Denom(r)
  BY <1>3 DEF SameNumber, Num, Denom
<1>5. /\ Higher(Lhs(f, g, left), Rhs(f, g, left)) = Higher(d, x)
      /\ ~OneOf(Lhs(f, g, left), Rhs(f, g, left), CRY_NIL)
  <2>1. ~Textual(d, x) /\ ~OneOf(d, x, CRY_NIL)
    BY Codes DEF Number, Textual, IsText, OneOf
  <2> QED  BY <2>1, Views
<1>6. CASE Higher(d, x) = CRY_INT
  <2>1. l.type # CRY_DOUBLE /\ r.type # CRY_DOUBLE
    BY <1>2, <1>6, Codes DEF Number, Lhs, Rhs
  <2>2. Num(l) \in MinInt .. MaxInt /\ Num(r) \in MinInt .. MaxInt
    <3> HIDE DEF l, r
    <3> QED  BY <1>1, <2>1, ShapedNumeric DEF Number
  <2> QED  BY <1>6, <2>2, IntsIs
<1>7. CASE Higher(d, x) # CRY_INT /\ op # "%"
  <2>1. Numeric(l) /\ Numeric(r)
    <3> HIDE DEF l, r
    <3> QED  BY <1>1, ShapedNumeric DEF Number
  <2>2. Defined(op, l, r)
    BY <1>2, <1>4, <1>5, <1>7 DEF Finite, Defined
  <2> QED  BY <1>7, <2>1, <2>2, DoublesIs
<1> QED  BY <1>6, <1>7


(* Outside of the listed differences no operand is in the pool of floats.  *)
LEMMA NotPooled ==
  ASSUME NEW op \in Arithmetic \ {"%"}, NEW d, NEW x, NEW left, NEW how, NEW ref, Shaped(d), Shaped(x),
         ~Differs(op, d, x, how, left, ref), how = "constant"
  PROVE  ~Pooled(d, x)
<1> SUFFICES ASSUME Pooled(d, x) PROVE FALSE
  OBVIOUS
<1>1. d.type = CRY_DOUBLE /\ x.type \in {CRY_BOOL, CRY_INT}
  BY DEF Pooled, Of
<1>2. CASE x.type = CRY_INT
  BY <1>2 DEF Differs, Of
<1>3. CASE x.type = CRY_BOOL
  <2>1. Higher(d, x) = CRY_DOUBLE
    BY <1>1, <1>3, HigherOf, Codes
  <2>2. OneOf(d, x, CRY_BOOL) /\ CRY_DOUBLE \in SupportedBy(op)
    BY <1>3 DEF OneOf, SupportedBy
  <2> QED  BY <2>1, <2>2 DEF Differs
<1> QED  BY <1>1, <1>2, <1>3

Agrees(p, c, z) == \E y : p = Folded(y) /\ Same(y, c, z)

(* The operators but + and % agree when they agree on numbers. *)
LEMMA Settles ==
  ASSUME NEW op \in {"-", "*", "/", "^"}, NEW f, NEW g, NEW d, NEW x, NEW e, NEW left \in BOOLEAN, NEW how, NEW ref \in BOOLEAN,
         Operands(f, g, d, x, e), Finite(op, Lhs(f, g, left), Rhs(f, g, left)),
         ~Differs(op, d, x, how, left, ref),
         NEW int, int = Ints(op, Lhs(d, x, left), Rhs(d, x, left)),
         NEW double, double = Doubles(op, Lhs(d, x, left), Rhs(d, x, left)),
         NEW p, NEW yb, p = Folded(FoldsOf(op, yb, Lhs(f, g, left), Rhs(f, g, left))),
         NEW c, NEW cb, NEW ci, NEW cd, Settled(c, d, x, cb, ci, cd),
         NEW z, NEW zb, NEW zi, NEW zd, Ran(z, d, x, zb, zi, zd, how, ref),
         op = "/" => yb = Nil /\ cb = Nil /\ zb = Nil,
         Number(d) /\ Number(x) /\ Higher(d, x) = CRY_INT => ci = int /\ zi = int,
         Number(d) /\ Number(x) /\ Higher(d, x) = CRY_DOUBLE => cd = double /\ zd = double
  PROVE  Agrees(p, c, z)
<1> SUFFICES ASSUME NEW y, y = FoldsOf(op, yb, Lhs(f, g, left), Rhs(f, g, left)) PROVE Same(y, c, z)
  BY DEF Agrees
<1>1. Settled(y, d, x, yb, int, double)
  BY FoldIs
<1>2. op \in Arithmetic \ {"+"} /\ op # "%"
  BY DEF Arithmetic
<1>3. SupportedBy(op) = {CRY_INT, CRY_DOUBLE} \cup (IF op = "/" THEN {} ELSE {CRY_BOOL})
  BY DEF SupportedBy
<1>4. CASE Textual(d, x)
  BY <1>1, <1>4, SameResults DEF Settled, Ran
<1>5. CASE ~Textual(d, x) /\ OneOf(d, x, CRY_NIL)
  <2>1. y = Nil /\ c = Nil
    BY <1>1, <1>5 DEF Settled
  <2>2. Overlooked(d, x, how, ref) => Higher(d, x) \notin SupportedBy(op)
    BY <1>2 DEF Differs, Overlooked
  <2>3. z = Nil
    BY <1>3, <1>5, <2>2 DEF Ran
  <2> QED  BY <2>1, <2>3, SameResults
<1>6. CASE Both(d, x, CRY_BOOL)
  <2>1. op = "/"
    BY <1>6 DEF Differs
  <2>2. y = Nil /\ c = Nil /\ z = Nil
    BY <1>1, <1>6, <2>1 DEF Settled, Ran
  <2> QED  BY <2>2, SameResults
<1>7. CASE ~Textual(d, x) /\ OneOf(d, x, CRY_BOOL) /\ (Number(d) \/ Number(x))
  <2>1. Higher(d, x) \in {CRY_INT, CRY_DOUBLE}
    BY <1>7, HigherOf DEF Operands
  <2> QED  BY <1>2, <1>3, <1>7, <2>1 DEF Differs
<1>8. CASE Number(d) /\ Number(x)
  <2>1. Higher(d, x) \in {CRY_INT, CRY_DOUBLE} /\ CRY_INT # CRY_DOUBLE
    BY <1>8, HigherOf, Codes DEF Operands
  <2>2. CASE Higher(d, x) = CRY_INT
    <3>1. y = int /\ c = int /\ z = int
      BY <1>1, <1>8, <2>2 DEF Settled, Ran
    <3>2. IntResult(int)
      BY <1>2, <1>8, <2>2, Numbers
    <3> QED  BY <3>1, <3>2, SameResults
  <2>3. CASE Higher(d, x) = CRY_DOUBLE
    <3>1. y = double /\ c = double /\ z = double
      BY <1>1, <1>8, <2>1, <2>3 DEF Settled, Ran
    <3>2. DoubleResult(double)
      BY <1>2, <1>8, <2>1, <2>3, Numbers
    <3> QED  BY <3>1, <3>2, SameResults
  <2> QED  BY <2>1, <2>2, <2>3
<1>9. Shaped(d) /\ Shaped(x)
  BY DEF Operands
<1> QED  BY ONLY <1>4, <1>5, <1>6, <1>7, <1>8, <1>9, Kinds

LEMMA Subtraction ==
  ASSUME NEW f, NEW g, NEW d, NEW x, NEW e, NEW left \in BOOLEAN, NEW how, NEW ref \in BOOLEAN,
         Operands(f, g, d, x, e), Finite("-", Lhs(f, g, left), Rhs(f, g, left)),
         ~Differs("-", d, x, how, left, ref)
  PROVE  Agrees(Reduction("-", Lhs(f, g, left), Rhs(f, g, left)), Static("-", d, x, how = "constant", left),
                Obscure("-", e, x, left, Raw(e, x, how, ref), ref))
<1>1. PICK l, r, int, double : /\ l = Lhs(f, g, left) /\ r = Rhs(f, g, left)
                               /\ int = Ints("-", Lhs(d, x, left), Rhs(d, x, left))
                               /\ double = Doubles("-", Lhs(d, x, left), Rhs(d, x, left))
  OBVIOUS
<1>2. PICK p, yb : p = Reduction("-", l, r) /\ p = Folded(FoldsOf("-", yb, l, r))
  BY DEF Reduction, Reduce_Subtraction
<1>3. PICK c : c = Static("-", d, x, how = "constant", left)
  OBVIOUS
<1>4. PICK cb : cb = IF how = "constant" THEN c ELSE And(d, x)
  OBVIOUS
<1>5. \/ c = Coded("-", cb, d, x, left)
      \/ c = CodedC("-", d, x, left) /\ ~Pooled(d, x) /\ (Both(d, x, CRY_BOOL) => cb = c)
  <2>1. how = "constant" => ~Pooled(d, x)
    BY NotPooled DEF Operands, Arithmetic
  <2> QED  BY <1>3, <1>4, <2>1 DEF Static, SubC, Sub
<1>6. Settled(c, d, x, cb, int, double)
  BY <1>1, <1>5, CodeIs DEF Operands
<1>7. PICK zd, zb : /\ zd = IF left THEN InPlace(e, ref, double) ELSE double
                    /\ zb = IF left THEN And(e, x) ELSE Xor(e, x)
  OBVIOUS
<1>8. PICK z : z = Obscure("-", e, x, left, Raw(e, x, how, ref), ref)
  OBVIOUS
<1>9. z = Obscured(e, x, Raw(e, x, how, ref), zb, int, zd)
  <2>1. CASE left
    <3>1. z = Obscured(e, x, Raw(e, x, how, ref), zb, Ints("-", e, x), InPlace(e, ref, Doubles("-", e, x)))
      BY <1>7, <1>8, <2>1 DEF Obscure, Obscure_Subtraction
    <3>2. Ints("-", e, x) = int /\ Doubles("-", e, x) = double
      BY <1>1, <2>1, Swapped DEF Operands, Lhs, Rhs
    <3> QED  BY <1>7, <2>1, <3>1, <3>2
  <2>2. CASE ~left
    <3>1. z = Obscured(e, x, Raw(e, x, how, ref), zb, Ints("-", x, e), Doubles("-", x, e))
      BY <1>7, <1>8, <2>2 DEF Obscure, Obscure_SubtractionR
    <3>2. Ints("-", x, e) = int /\ Doubles("-", x, e) = double
      BY <1>1, <2>2, Swapped DEF Operands, Lhs, Rhs
    <3> QED  BY <1>7, <2>2, <3>1, <3>2
  <2> QED  BY <2>1, <2>2
<1>10. Ran(z, d, x, zb, int, zd, how, ref)
  BY <1>9, RunIs DEF Operands
<1>11. Number(d) /\ Number(x) /\ Higher(d, x) = CRY_DOUBLE => zd = double
  <2>1. left /\ Number(d) /\ Number(x) /\ Higher(d, x) = CRY_DOUBLE => ~(ref /\ Of(d, CRY_DOUBLE))
    BY Codes DEF Differs, Number, OneOf
  <2>2. Of(e, CRY_DOUBLE) <=> Of(d, CRY_DOUBLE)
    BY Views
  <2> QED  BY <1>7, <2>1, <2>2 DEF InPlace
<1>12. Agrees(p, c, z)
  BY <1>1, <1>2, <1>6, <1>10, <1>11, Settles
<1> QED  BY <1>1, <1>2, <1>3, <1>8, <1>12

LEMMA Multiplication ==
  ASSUME NEW f, NEW g, NEW d, NEW x, NEW e, NEW left \in BOOLEAN, NEW how, NEW ref \in BOOLEAN,
         Operands(f, g, d, x, e), Finite("*", Lhs(f, g, left), Rhs(f, g, left)),
         ~Differs("*", d, x, how, left, ref)
  PROVE  Agrees(Reduction("*", Lhs(f, g, left), Rhs(f, g, left)), Static("*", d, x, how = "constant", left),
                Obscure("*", e, x, left, Raw(e, x, how, ref), ref))
<1>1. PICK l, r, int, double : /\ l = Lhs(f, g, left) /\ r = Rhs(f, g, left)
                               /\ int = Ints("*", Lhs(d, x, left), Rhs(d, x, left))
                               /\ double = Doubles("*", Lhs(d, x, left), Rhs(d, x, left))
  OBVIOUS
<1>2. PICK p, yb : p = Reduction("*", l, r) /\ p = Folded(FoldsOf("*", yb, l, r))
  BY DEF Reduction, Reduce_Multiplication
<1>3. PICK c : c = Static("*", d, x, how = "constant", left)
  OBVIOUS
<1>4. PICK cb : cb = IF how = "constant" THEN c ELSE Or(d, x)
  OBVIOUS
<1>5. \/ c = Coded("*", cb, d, x, left)
      \/ c = CodedC("*", d, x, left) /\ ~Pooled(d, x) /\ (Both(d, x, CRY_BOOL) => cb = c)
  <2>1. how = "constant" => ~Pooled(d, x)
    BY NotPooled DEF Operands, Arithmetic
  <2> QED  BY <1>3, <1>4, <2>1 DEF Static, MulC, Mul
<1>6. Settled(c, d, x, cb, int, double)
  BY <1>1, <1>5, CodeIs DEF Operands
<1>7. PICK zi, zd, zb : zi = Ints("*", d, x) /\ zd = InPlace(e, ref, Doubles("*", d, x)) /\ zb = Equal(e, x)
  OBVIOUS
<1>8. PICK z : z = Obscure("*", e, x, left, Raw(e, x, how, ref), ref)
  OBVIOUS
<1>9. z = Obscured(e, x, Raw(e, x, how, ref), zb, zi, zd)
  <2>1. z = Obscured(e, x, Raw(e, x, how, ref), zb, Ints("*", e, x), InPlace(e, ref, Doubles("*", e, x)))
    BY <1>7, <1>8 DEF Obscure, Obscure_Multiplication
  <2>2. Ints("*", e, x) = Ints("*", d, x) /\ Doubles("*", e, x) = Doubles("*", d, x)
    BY Swapped DEF Operands
  <2> QED  BY <1>7, <2>1, <2>2
<1>10. Ran(z, d, x, zb, zi, zd, how, ref)
  BY <1>9, RunIs DEF Operands
<1>11. Number(d) /\ Number(x) => Ints("*", d, x) = int /\ Doubles("*", d, x) = double
  <2>1. Number(d) /\ Number(x) => Numeric(d) /\ Numeric(x)
    BY ShapedNumeric DEF Number, Operands
  <2>2. Number(d) /\ Number(x) => Ints("*", d, x) = Ints("*", x, d) /\ Doubles("*", d, x) = Doubles("*", x, d)
    BY <2>1, Commutes
  <2> QED  BY <1>1, <2>2 DEF Lhs, Rhs
<1>12. Number(d) /\ Number(x) /\ Higher(d, x) = CRY_DOUBLE => zd = double
  <2>1. Number(d) /\ Number(x) /\ Higher(d, x) = CRY_DOUBLE => ~(ref /\ Of(d, CRY_DOUBLE))
    BY Codes DEF Differs, Number, OneOf
  <2>2. Of(e, CRY_DOUBLE) <=> Of(d, CRY_DOUBLE)
    BY Views
  <2> QED  BY <1>7, <1>11, <2>1, <2>2 DEF InPlace
<1>13. Agrees(p, c, z)
  BY <1>1, <1>2, <1>6, <1>7, <1>10, <1>11, <1>12, Settles
<1> QED  BY <1>1, <1>2, <1>3, <1>8, <1>13

LEMMA Division ==
  ASSUME NEW f, NEW g, NEW d, NEW x, NEW e, NEW left \in BOOLEAN, NEW how, NEW ref \in BOOLEAN,
         Operands(f, g, d, x, e), Finite("/", Lhs(f, g, left), Rhs(f, g, left)),
         ~Differs("/", d, x, how, left, ref)
  PROVE  Agrees(Reduction("/", Lhs(f, g, left), Rhs(f, g, left)), Static("/", d, x, how = "constant", left),
                Obscure("/", e, x, left, Raw(e, x, how, ref), ref))
<1>1. PICK l, r, int, double : /\ l = Lhs(f, g, left) /\ r = Rhs(f, g, left)
                               /\ int = Ints("/", Lhs(d, x, left), Rhs(d, x, left))
                               /\ double = Doubles("/", Lhs(d, x, left), Rhs(d, x, left))
  OBVIOUS
<1>2. PICK p, yb : p = Reduction("/", l, r) /\ p = Folded(FoldsOf("/", yb, l, r)) /\ yb = Nil
  BY DEF Reduction, Reduce_Division
<1>3. PICK c : c = Static("/", d, x, how = "constant", left)
  OBVIOUS
<1>4. PICK side \in BOOLEAN : side = IF Higher(d, x) # CRY_DOUBLE THEN left ELSE (how # "constant")
  OBVIOUS
<1>5. \/ c = Coded("/", Nil, d, x, side)
      \/ c = CodedC("/", d, x, side) /\ ~Pooled(d, x) /\ (Both(d, x, CRY_BOOL) => Nil = c)
  <2>1. CASE how # "constant"
    BY <1>3, <1>4, <2>1 DEF Static, Div
  <2>2. CASE how = "constant" /\ Both(d, x, CRY_BOOL)
    <3>1. Higher(d, x) = CRY_BOOL /\ CRY_BOOL # CRY_DOUBLE /\ CRY_BOOL # CRY_INT
      BY <2>2, HigherOf, Codes DEF Operands
    <3>2. c = Nil
      BY <1>3, <2>2, <3>1 DEF Static, DivC
    <3>3. Coded("/", Nil, d, x, side) = Nil
      BY <3>1 DEF Coded, Select
    <3> QED  BY <3>2, <3>3
  <2>3. CASE how = "constant" /\ ~Both(d, x, CRY_BOOL)
    <3>1. ~Pooled(d, x)
      BY <2>3, NotPooled DEF Operands, Arithmetic
    <3> QED  BY <1>3, <1>4, <2>3, <3>1 DEF Static, DivC
  <2> QED  BY <2>1, <2>2, <2>3
<1>6. PICK ci, cd : ci = Ints("/", Lhs(d, x, side), Rhs(d, x, side)) /\ cd = Doubles("/", Lhs(d, x, side), Rhs(d, x, side))
  OBVIOUS
<1>7. Settled(c, d, x, Nil, ci, cd)
  BY <1>5, <1>6, CodeIs DEF Operands
<1>8. Number(d) /\ Number(x) => side = left
  <2>1. Number(d) /\ Number(x) => ~OneOf(d, x, CRY_NIL)
    BY Codes DEF Number, OneOf
  <2>2. Number(d) /\ Number(x) /\ Higher(d, x) = CRY_DOUBLE => (how = "constant") # left
    BY <2>1 DEF Differs
  <2> QED  BY <1>4, <2>2
<1>9. PICK zd : zd = IF left THEN InPlace(e, ref, double) ELSE Reversed(e, x, double)
  OBVIOUS
<1>10. PICK z : z = Obscure("/", e, x, left, Raw(e, x, how, ref), ref)
  OBVIOUS
<1>11. z = Obscured(e, x, Raw(e, x, how, ref), Nil, int, zd)
  <2>1. CASE left
    <3>1. z = Obscured(e, x, Raw(e, x, how, ref), Nil, Ints("/", e, x), InPlace(e, ref, Doubles("/", e, x)))
      BY <1>10, <2>1 DEF Obscure, Obscure_Division
    <3>2. Ints("/", e, x) = int /\ Doubles("/", e, x) = double
      BY <1>1, <2>1, Swapped DEF Operands, Lhs, Rhs
    <3> QED  BY <1>9, <2>1, <3>1, <3>2
  <2>2. CASE ~left
    <3>1. z = Obscured(e, x, Raw(e, x, how, ref), Nil, Ints("/", x, e), Reversed(e, x, Doubles("/", x, e)))
      BY <1>10, <2>2 DEF Obscure, Obscure_DivisionR
    <3>2. Ints("/", x, e) = int /\ Doubles("/", x, e) = double
      BY <1>1, <2>2, Swapped DEF Operands, Lhs, Rhs
    <3> QED  BY <1>9, <2>2, <3>1, <3>2
  <2> QED  BY <2>1, <2>2
<1>12. Ran(z, d, x, Nil, int, zd, how, ref)
  BY <1>11, RunIs DEF Operands
<1>13. Number(d) /\ Number(x) /\ Higher(d, x) = CRY_DOUBLE => zd = double
  <2>1. Number(d) /\ Number(x) => ~OneOf(d, x, CRY_NIL)
    BY Codes DEF Number, OneOf
  <2>2. e.type = d.type
    BY DEF Operands, Twin
  <2>3. left /\ Number(d) /\ Number(x) /\ Higher(d, x) = CRY_DOUBLE => ~(ref /\ Of(d, CRY_DOUBLE))
    BY <2>1 DEF Differs
  <2>4. ~left /\ Number(d) /\ Number(x) /\ Higher(d, x) = CRY_DOUBLE => ~Mixed(d, x)
    BY <2>1 DEF Differs
  <2>5. Number(d) /\ Number(x) /\ ~Mixed(d, x) => d.type = x.type
    BY DEF Number, Mixed
  <2> QED  BY <1>9, <2>2, <2>3, <2>4, <2>5 DEF InPlace, Reversed, Of
<1>14. Agrees(p, c, z)
  <2>1. Number(d) /\ Number(x) => ci = int /\ cd = double
    BY <1>1, <1>6, <1>8
  <2> QED  BY <1>1, <1>2, <1>7, <1>12, <1>13, <2>1, Settles
<1> QED  BY <1>1, <1>2, <1>3, <1>10, <1>14

LEMMA Exponentiation ==
  ASSUME NEW f, NEW g, NEW d, NEW x, NEW e, NEW left \in BOOLEAN, NEW how, NEW ref \in BOOLEAN,
         Operands(f, g, d, x, e), Finite("^", Lhs(f, g, left), Rhs(f, g, left)),
         ~Differs("^", d, x, how, left, ref)
  PROVE  Agrees(Reduction("^", Lhs(f, g, left), Rhs(f, g, left)), Static("^", d, x, how = "constant", left),
                Obscure("^", e, x, left, Raw(e, x, how, ref), ref))
<1>1. PICK l, r, int, double : /\ l = Lhs(f, g, left) /\ r = Rhs(f, g, left)
                               /\ int = Ints("^", Lhs(d, x, left), Rhs(d, x, left))
                               /\ double = Doubles("^", Lhs(d, x, left), Rhs(d, x, left))
  OBVIOUS
<1>2. PICK p, yb : p = Reduction("^", l, r) /\ p = Folded(FoldsOf("^", yb, l, r))
  BY DEF Reduction, Reduce_Power
<1>3. PICK c : c = Static("^", d, x, how = "constant", left)
  OBVIOUS
<1>0. ~PowerSyms(d, x)
  BY DEF Differs
<1>4. PICK cb, ci, cd : /\ Settled(c, d, x, cb, ci, cd) /\ cd = double
                        /\ (how = "constant" => left \/ ~(Number(d) /\ Number(x) /\ Higher(d, x) = CRY_INT)) => ci = int
  <2>1. CASE how # "constant"
    <3>1. c = Coded("^", Or(d, x), d, x, left)
      BY <1>0, <1>3, <2>1 DEF Static, Pow
    <3> QED  BY <1>1, <3>1, CodeIs DEF Operands
  <2>2. CASE how = "constant" /\ Both(d, x, CRY_BOOL)
    <3>1. ~Textual(d, x) /\ ~OneOf(d, x, CRY_NIL) /\ ~(Number(d) /\ Number(x))
      BY <2>2, Codes DEF Both, Textual, IsText, OneOf, Number
    <3>2. Settled(c, d, x, c, int, double)
      BY <2>2, <3>1 DEF Settled
    <3> QED  BY <3>2
  <2>3. CASE how = "constant" /\ ~Both(d, x, CRY_BOOL) /\ Higher(d, x) = CRY_INT /\ ~left /\ ~OneOf(d, x, CRY_NIL)
    <3>1. ~Textual(d, x)
      BY <2>3, HigherOf, Codes DEF Operands
    <3>2. Settled(c, d, x, c, c, double)
      BY <2>3, <3>1 DEF Settled
    <3>3. CASE Number(d) /\ Number(x)
      BY <2>3, <3>2, <3>3
    <3>4. CASE ~(Number(d) /\ Number(x))
      <4>1. Settled(c, d, x, c, int, double)
        BY <2>3, <3>1, <3>4 DEF Settled
      <4> QED  BY <4>1
    <3> QED  BY <3>3, <3>4
  <2>4. CASE how = "constant" /\ ~Both(d, x, CRY_BOOL) /\ ~(Higher(d, x) = CRY_INT /\ ~left /\ ~OneOf(d, x, CRY_NIL))
    <3>1. c = Coded("^", Nil, d, x, left)
      BY <1>0, <1>3, <2>4 DEF Static, PowC
    <3> QED  BY <1>1, <3>1, CodeIs DEF Operands
  <2> QED  BY <2>1, <2>2, <2>3, <2>4
<1>5. PICK zi, zd, zb : /\ zi = IF left THEN PowerInts(e, x) ELSE PowerInts(x, e)
                        /\ zd = IF left THEN double ELSE Reversed(e, x, double)
                        /\ zb = Xor(e, x)
  OBVIOUS
<1>6. PICK z : z = Obscure("^", e, x, left, Raw(e, x, how, ref), ref)
  OBVIOUS
<1>7. z = Obscured(e, x, Raw(e, x, how, ref), zb, zi, zd)
  <2>1. CASE left
    <3>1. z = Obscured(e, x, Raw(e, x, how, ref), Xor(e, x), PowerInts(e, x), Doubles("^", e, x))
      BY <1>6, <2>1 DEF Obscure, Obscure_Power
    <3>2. Doubles("^", e, x) = double
      BY <1>1, <2>1, Swapped DEF Operands, Lhs, Rhs
    <3> QED  BY <1>5, <2>1, <3>1, <3>2
  <2>2. CASE ~left
    <3>1. z = Obscured(e, x, Raw(e, x, how, ref), Xor(e, x), PowerInts(x, e), Reversed(e, x, Doubles("^", x, e)))
      BY <1>6, <2>2 DEF Obscure, Obscure_PowerR
    <3>2. Doubles("^", x, e) = double
      BY <1>1, <2>2, Swapped DEF Operands, Lhs, Rhs
    <3> QED  BY <1>5, <2>2, <3>1, <3>2
  <2> QED  BY <2>1, <2>2
<1>8. Ran(z, d, x, zb, zi, zd, how, ref)
  BY <1>7, RunIs DEF Operands
<1>9. Number(d) /\ Number(x) /\ Higher(d, x) = CRY_DOUBLE => zd = double
  BY <1>0, Codes DEF PowerSyms, Number, OneOf
<1>10. Number(d) /\ Number(x) /\ Higher(d, x) = CRY_INT => ci = int /\ zi = int
  <2> SUFFICES ASSUME Number(d) /\ Number(x) /\ Higher(d, x) = CRY_INT PROVE ci = int /\ zi = int
    OBVIOUS
  <2>1. Num(Rhs(d, x, left)) # 0 /\ ~(how = "constant" /\ ~left)
    <3>1. ~OneOf(d, x, CRY_NIL)
      BY Codes DEF Number, OneOf
    <3> QED  BY <3>1 DEF Differs
  <2>2. zi = int
    <3>1. CASE left
      <4>1. Ints("^", e, x) = int
        BY <1>1, <3>1, Swapped DEF Operands, Lhs, Rhs
      <4>2. Num(x) # 0
        BY <2>1, <3>1 DEF Rhs
      <4> QED  BY <1>5, <3>1, <4>1, <4>2 DEF PowerInts
    <3>2. CASE ~left
      <4>1. Ints("^", x, e) = int
        BY <1>1, <3>2, Swapped DEF Operands, Lhs, Rhs
      <4>2. Num(e) # 0
        BY <2>1, <3>2 DEF Rhs, Num, Operands, Twin
      <4> QED  BY <1>5, <3>2, <4>1, <4>2 DEF PowerInts
    <3> QED  BY <3>1, <3>2
  <2> QED  BY <1>4, <2>1, <2>2
<1>11. Agrees(p, c, z)
  BY <1>1, <1>2, <1>4, <1>8, <1>9, <1>10, Settles
<1> QED  BY <1>1, <1>2, <1>3, <1>6, <1>11

LEMMA Modulo ==
  ASSUME NEW f, NEW g, NEW d, NEW x, NEW e, NEW left \in BOOLEAN, NEW how, NEW ref \in BOOLEAN,
         Operands(f, g, d, x, e), Finite("%", Lhs(f, g, left), Rhs(f, g, left)),
         ~Differs("%", d, x, how, left, ref)
  PROVE  Agrees(Reduction("%", Lhs(f, g, left), Rhs(f, g, left)), Static("%", d, x, how = "constant", left),
                Obscure("%", e, x, left, Raw(e, x, how, ref), ref))
<1>1. PICK l, r, int : l = Lhs(f, g, left) /\ r = Rhs(f, g, left) /\ int = Ints("%", Lhs(d, x, left), Rhs(d, x, left))
  OBVIOUS
<1>2. PICK y : Reduction("%", l, r) = Folded(y) /\ y = Folds(Higher(l, r), Nil, int, Nil, l, r)
  <2>1. Ints("%", l, r) = int
    BY <1>1, SameNumbers
  <2> QED  BY <2>1 DEF Reduction, Reduce_Modulo
<1>3. PICK c : c = Static("%", d, x, how = "constant", left)
  OBVIOUS
<1>4. PICK z : z = Obscure("%", e, x, left, Raw(e, x, how, ref), ref)
  OBVIOUS
<1>5. c = IF Higher(d, x) # CRY_INT THEN Nil
          ELSE IF how = "constant" THEN CodedC("%", d, x, left) ELSE Coded("%", Nil, d, x, left)
  BY <1>3 DEF Static, Mod, ModC
<1>6. PICK zi : zi = IF left /\ ref THEN Unknown(CRY_INT) ELSE int
  OBVIOUS
<1>7. z = IF Higher(d, x) # CRY_INT THEN Nil ELSE Obscured(e, x, Raw(e, x, how, ref), Nil, zi, Nil)
  <2>1. Higher(e, x) = Higher(d, x)
    BY Views
  <2>2. CASE left
    <3>1. z = IF Higher(e, x) # CRY_INT THEN Nil
              ELSE Obscured(e, x, Raw(e, x, how, ref), Nil, IF ref THEN Unknown(CRY_INT) ELSE Ints("%", e, x), Nil)
      BY <1>4, <2>2 DEF Obscure, Obscure_Modulo
    <3>2. Ints("%", e, x) = int
      BY <1>1, <2>2, Swapped DEF Operands, Lhs, Rhs
    <3> QED  BY <1>6, <2>1, <2>2, <3>1, <3>2
  <2>3. CASE ~left
    <3>1. z = IF Higher(e, x) # CRY_INT THEN Nil ELSE Obscured(e, x, Raw(e, x, how, ref), Nil, Ints("%", x, e), Nil)
      BY <1>4, <2>3 DEF Obscure, Obscure_ModuloR
    <3>2. Ints("%", x, e) = int
      BY <1>1, <2>3, Swapped DEF Operands, Lhs, Rhs
    <3> QED  BY <1>6, <2>1, <2>3, <3>1, <3>2
  <2> QED  BY <2>2, <2>3
<1>8. CASE Higher(d, x) # CRY_INT
  <2>1. y = Nil
    <3>1. /\ (IsText(l) \/ IsText(r)) <=> Textual(d, x)
          /\ ~Textual(d, x) => Higher(l, r) = Higher(d, x)
      BY <1>1, Views DEF Textual
    <3> QED  BY <1>2, <1>8, <3>1, Codes DEF Folds, Select
  <2>2. c = Nil /\ z = Nil
    BY <1>5, <1>7, <1>8
  <2> QED  BY <1>1, <1>2, <1>3, <1>4, <2>1, <2>2, SameResults DEF Agrees
<1>9. CASE Higher(d, x) = CRY_INT
  <2>1. ~Textual(d, x) /\ Higher(l, r) = CRY_INT
    <3>1. ~Textual(d, x)
      BY <1>9, HigherOf, Codes DEF Operands
    <3> QED  BY <1>1, <1>9, <3>1, Views
  <2>2. ~(IsText(l) \/ IsText(r))
    BY <1>1, <2>1, Views DEF Textual
  <2>3. \A t \in {CRY_NIL, CRY_BOOL} : OneOf(l, r, t) <=> OneOf(d, x, t)
    BY <1>1, Views
  <2>4. y = IF OneOf(d, x, CRY_NIL) \/ OneOf(d, x, CRY_BOOL) THEN Nil ELSE int
    BY <1>2, <2>1, <2>2, <2>3, Codes DEF Folds, Select
  <2>5. ~OneOf(d, x, CRY_BOOL) /\ "%" \in Arithmetic \ {"+"} /\ CRY_INT \in SupportedBy("%")
    BY <1>9 DEF Differs, SupportedBy, Arithmetic
  <2>6. Settled(c, d, x, c, int, c)
    <3>1. Coded("%", Nil, d, x, left) = CodedC("%", d, x, left)
      <4>1. ~Chance(d, x) /\ ~Pooled(d, x)
        BY <1>9, <2>5, HigherOf, Codes DEF Chance, Pooled, Of, OneOf, Operands
      <4> QED  BY <4>1 DEF CodedC
    <3>2. c = Coded("%", Nil, d, x, left)
      BY <1>5, <1>9, <3>1
    <3>3. Settled(c, d, x, Nil, int, Doubles("%", Lhs(d, x, left), Rhs(d, x, left)))
      BY <1>1, <3>2, CodeIs DEF Operands
    <3> QED  BY <1>9, <3>3 DEF Settled
  <2>7. Ran(z, d, x, Nil, zi, Nil, how, ref)
    BY <1>7, <1>9, RunIs DEF Operands
  <2>8. CASE OneOf(d, x, CRY_NIL)
    <3>1. y = Nil /\ c = Nil
      BY <2>4, <2>6, <2>8 DEF Settled
    <3>2. ~Overlooked(d, x, how, ref)
      BY <1>9, <2>5 DEF Differs, Overlooked
    <3>3. z = Nil
      BY <2>7, <2>8, <3>2 DEF Ran
    <3> QED  BY <1>1, <1>2, <1>3, <1>4, <3>1, <3>3, SameResults DEF Agrees
  <2>9. CASE ~OneOf(d, x, CRY_NIL)
    <3>1. Number(d) /\ Number(x)
      BY <2>1, <2>5, <2>9, Kinds, Codes DEF Operands, Both, OneOf
    <3>2. y = int /\ c = int
      BY <1>9, <2>4, <2>5, <2>6, <2>9, <3>1 DEF Settled
    <3>3. ~(left /\ ref)
      BY <3>1, Codes DEF Differs, Number, Of
    <3>4. z = int
      BY <1>6, <1>9, <2>7, <3>1, <3>3 DEF Ran
    <3>5. IntResult(int)
      BY <1>1, <1>9, <2>5, <3>1, Numbers
    <3> QED  BY <1>1, <1>2, <1>3, <1>4, <3>2, <3>4, <3>5, SameResults DEF Agrees
  <2> QED  BY <2>8, <2>9
<1> QED  BY <1>8, <1>9

(* What a text is the text of. *)
LEMMA SameText ==
  ASSUME NEW v, NEW w, v.val = w.val, v.type = w.type \/ (IsText(v) /\ IsText(w))
  PROVE  Text(v) = Text(w)
<1>1. CASE IsText(v) /\ IsText(w)
  BY <1>1, Codes DEF Text, IsText
<1>2. CASE v.type = w.type
  BY <1>2 DEF Text
<1> QED  BY <1>1, <1>2

LEMMA JoinedResult ==
  ASSUME NEW t
  PROVE  Same(V(CRY_TEXT, t), StringOf(t), StringOf(t))
<1>1. PICK c : c = StringOf(t) /\ c = V(CRY_STRING, t)
  BY DEF StringOf
<1>2. PICK y : y = V(CRY_TEXT, t) /\ y = [type |-> CRY_TEXT, val |-> t, mark |-> FALSE]
  BY ValueIs
<1>3. y.type = CRY_TEXT /\ y.val = t /\ y = [type |-> y.type, val |-> y.val, mark |-> FALSE]
  BY <1>2
<1>4. CRY_STRING \in Scalars /\ CRY_STRING \notin {CRY_NIL, CRY_BOOL, CRY_INT, CRY_DOUBLE}
  BY Codes
<1>5. Shaped(c) /\ c.type = CRY_STRING
  BY <1>1, <1>4, Makes
<1>6. c.val = t
  <2>1. c = [type |-> CRY_STRING, val |-> t, mark |-> FALSE]
    BY <1>1 DEF V
  <2> QED  BY ONLY <2>1
<1>7. Twin(c, c)
  BY <1>5 DEF Shaped, Twin
<1> QED  BY <1>1, <1>2, <1>3, <1>5, <1>6, <1>7 DEF Same, Result

LEMMA Addition ==
  ASSUME NEW f, NEW g, NEW d, NEW x, NEW e, NEW left \in BOOLEAN, NEW how, NEW ref \in BOOLEAN,
         Operands(f, g, d, x, e), f = folded, Finite("+", Lhs(f, g, left), Rhs(f, g, left)),
         ~Differs("+", d, x, how, left, ref)
  PROVE  Agrees(Reduction("+", Lhs(f, g, left), Rhs(f, g, left)), Static("+", d, x, how = "constant", left),
                Obscure("+", e, x, left, Raw(e, x, how, ref), ref))
<1>1. PICK l, r, int, double : /\ l = Lhs(f, g, left) /\ r = Rhs(f, g, left)
                               /\ int = Ints("+", Lhs(d, x, left), Rhs(d, x, left))
                               /\ double = Doubles("+", Lhs(d, x, left), Rhs(d, x, left))
  OBVIOUS
<1>2. PICK y : Reduction("+", l, r) = Folded(y) /\ y = Reduce_Addition(l, r)
  BY DEF Reduction
<1>3. PICK c : c = Static("+", d, x, how = "constant", left) /\ c = IF how = "constant" THEN AddC(d, x, left) ELSE Add(d, x, left)
  BY DEF Static
<1>4. PICK z : /\ z = Obscure("+", e, x, left, Raw(e, x, how, ref), ref)
               /\ z = IF left THEN Obscure_Addition(e, x, ref) ELSE Obscure_AdditionR(e, x)
  BY DEF Obscure
<1>5. SUFFICES Same(y, c, z)
  BY <1>1, <1>2, <1>3, <1>4 DEF Agrees
<1>6. e.type = d.type /\ e.val = d.val
  BY DEF Operands, Twin
<1>7. (IsText(l) \/ IsText(r)) <=> Textual(d, x)
  BY <1>1, Views DEF Textual
<1>8. CASE Textual(d, x)
  <2>1. Text(f) = Text(d) /\ Text(g) = Text(x) /\ Text(e) = Text(d)
    <3>1. f.val = d.val /\ (f.type = d.type \/ (IsText(f) /\ IsText(d)))
      BY Codes DEF Operands, Alike, IsText
    <3>2. g.val = x.val /\ (g.type = x.type \/ (IsText(g) /\ IsText(x)))
      BY Codes DEF Operands, Alike, IsText
    <3> QED  BY <1>6, <3>1, <3>2, SameText
  <2>2. PICK t : t = Text(Lhs(d, x, left)) \o Text(Rhs(d, x, left))
    OBVIOUS
  <2>3. Text(l) \o Text(r) = t
    BY <1>1, <2>1, <2>2 DEF Lhs, Rhs
  <2>4. IsText(l) => Appended(r) = Text(r)
    <3>1. CASE left
      BY <1>1, <3>1 DEF Appended, Rhs, Operands
    <3>2. CASE ~left
      <4>1. IsText(l) => IsText(x)
        BY <1>1, <3>2, Codes DEF Lhs, IsText, Operands, Alike
      <4>2. IsText(x) => ~(f.mark /\ f.type \in {CRY_BOOL, CRY_INT})
        BY <3>2 DEF Differs
      <4> QED  BY <1>1, <3>2, <4>1, <4>2 DEF Appended, Rhs
    <3> QED  BY <3>1, <3>2
  <2>5. y = V(CRY_TEXT, t)
    BY <1>2, <1>7, <1>8, <2>3, <2>4 DEF Reduce_Addition
  <2>6. Joined(d, x, left) = StringOf(t)
    BY <2>2 DEF Joined
  <2>7. c = StringOf(t)
    <3>1. CASE how # "constant"
      <4>1. Both(d, x, CRY_TEXT) => left
        BY <3>1 DEF Differs
      <4>2. Both(d, x, CRY_TEXT) => c = Joined(d, x, left)
        BY <1>3, <3>1, <4>1 DEF Add, Joined, Lhs, Rhs
      <4>3. ~Both(d, x, CRY_TEXT) => c = Joined(d, x, left)
        BY <1>3, <1>8, <3>1 DEF Add, Textual
      <4> QED  BY <2>6, <4>2, <4>3
    <3>2. CASE how = "constant"
      <4>1. Of(d, CRY_TEXT)
        BY <1>8, <3>2 DEF Differs, Textual, IsText, Of
      <4> QED  BY <1>3, <2>6, <3>2, <4>1 DEF AddC
    <3> QED  BY <3>1, <3>2
  <2>8. z = StringOf(t)
    <3>1. IsText(e) \/ IsText(x)
      BY <1>6, <1>8 DEF Textual, IsText
    <3>2. z = Joined(e, x, left)
      BY <1>4, <3>1 DEF Obscure_Addition, Obscure_AdditionR
    <3> QED  BY <2>1, <2>2, <3>2 DEF Joined, Lhs, Rhs
  <2> QED  BY <2>5, <2>7, <2>8, JoinedResult
<1>9. CASE ~Textual(d, x)
  <2>1. ~IsText(d) /\ ~IsText(x) /\ ~IsText(e)
    BY <1>6, <1>9 DEF Textual, IsText
  <2>2. y = FoldsOf("+", Or(l, r), l, r)
    BY <1>2, <1>7, <1>9 DEF Reduce_Addition
  <2>3. Or(l, r) = Or(d, x) /\ Or(e, x) = Or(d, x)
    <3>1. T(l) = T(Lhs(d, x, left)) /\ T(r) = T(Rhs(d, x, left))
      BY <1>1, SameNumbers
    <3>2. T(e) = T(d)
      BY <1>6 DEF T
    <3>3. (T(Lhs(d, x, left)) \/ T(Rhs(d, x, left))) <=> (T(d) \/ T(x))
      BY DEF Lhs, Rhs
    <3>4. T(l) \in BOOLEAN /\ T(r) \in BOOLEAN
      BY DEF T
    <3> QED  BY <3>1, <3>2, <3>3, <3>4 DEF Or
  <2>4. Settled(y, d, x, Or(d, x), int, double)
    BY <1>1, <2>2, <2>3, FoldIs
  <2>5. ~(how = "constant" /\ Both(d, x, CRY_BOOL))
    BY DEF Differs
  <2>6. Settled(c, d, x, Or(d, x), int, double)
    <3>1. how # "constant" => c = Coded("+", Or(d, x), d, x, left)
      BY <1>3, <2>1, Codes DEF Add, Both, IsText
    <3>2. how = "constant" => c = CodedC("+", d, x, left) /\ ~Pooled(d, x)
      <4>1. how = "constant" => ~Pooled(d, x)
        BY NotPooled DEF Operands, Arithmetic
      <4>2. how = "constant" => c = CodedC("+", d, x, left)
        BY <1>3, <2>1 DEF AddC, IsText, Of
      <4> QED  BY <4>1, <4>2
    <3>3. \/ c = Coded("+", Or(d, x), d, x, left)
          \/ c = CodedC("+", d, x, left) /\ ~Pooled(d, x) /\ (Both(d, x, CRY_BOOL) => Or(d, x) = c)
      BY <2>5, <3>1, <3>2
    <3> QED  BY <1>1, <3>3, CodeIs DEF Operands
  <2>7. Higher(e, x) = Higher(d, x) /\ (OneOf(e, x, CRY_NIL) <=> OneOf(d, x, CRY_NIL)) /\ (Of(e, CRY_DOUBLE) <=> Of(d, CRY_DOUBLE))
    BY Views
  <2>8. CASE OneOf(d, x, CRY_NIL)
    <3>1. z = Nil
      BY <1>4, <2>1, <2>7, <2>8 DEF Obscure_Addition, Obscure_AdditionR
    <3> QED  BY <2>4, <2>6, <2>8, <3>1, SameResults DEF Settled
  <2>9. CASE Both(d, x, CRY_BOOL)
    <3>1. Higher(d, x) = CRY_BOOL /\ CRY_BOOL # CRY_INT /\ CRY_BOOL # CRY_DOUBLE
      BY <2>9, HigherOf, Codes DEF Operands
    <3>2. ~OneOf(d, x, CRY_NIL) /\ ~Of(d, CRY_DOUBLE) /\ ~Of(x, CRY_DOUBLE)
      BY <2>9, Codes DEF Both, OneOf, Of
    <3>3. z = Or(d, x)
      BY <1>4, <2>1, <2>3, <2>7, <3>1, <3>2 DEF Obscure_Addition, Obscure_AdditionR, Select
    <3>4. PICK b \in BOOLEAN : Or(d, x) = Bool(b)
      BY DEF Or, T
    <3> QED  BY <2>4, <2>6, <2>9, <3>3, <3>4, SameResults DEF Settled
  <2>10. CASE OneOf(d, x, CRY_BOOL) /\ (Number(d) \/ Number(x))
    <3>1. Higher(d, x) \in {CRY_INT, CRY_DOUBLE}
      BY <1>9, <2>10, HigherOf DEF Operands
    <3>2. "+" \in Arithmetic /\ SupportedBy("+") = {CRY_BOOL, CRY_INT, CRY_DOUBLE}
      BY DEF Arithmetic, SupportedBy
    <3> QED  BY <2>10, <3>1, <3>2 DEF Differs
  <2>11. CASE Number(d) /\ Number(x)
    <3>1. Higher(d, x) \in {CRY_INT, CRY_DOUBLE} /\ CRY_INT # CRY_DOUBLE /\ CRY_INT # CRY_BOOL /\ CRY_DOUBLE # CRY_BOOL
      BY <2>11, HigherOf, Codes DEF Operands
    <3>2. ~OneOf(d, x, CRY_NIL)
      BY <2>11, Codes DEF Number, OneOf
    <3>3. ~(ref /\ left)
      BY <3>1, <3>2 DEF Differs
    <3>4. z = IF Higher(d, x) = CRY_INT THEN int ELSE double
      <4>1. CASE left
        <5>1. Ints("+", e, x) = int /\ Doubles("+", e, x) = double
          BY <1>1, <4>1, Swapped DEF Operands, Lhs, Rhs
        <5> QED  BY <1>4, <2>1, <2>7, <3>1, <3>2, <3>3, <4>1, <5>1 DEF Obscure_Addition, Select
      <4>2. CASE ~left
        <5>1. Ints("+", x, e) = int /\ Doubles("+", x, e) = double
          BY <1>1, <4>2, Swapped DEF Operands, Lhs, Rhs
        <5> QED  BY <1>4, <2>1, <2>7, <3>1, <3>2, <4>2, <5>1 DEF Obscure_AdditionR, Select
      <4> QED  BY <4>1, <4>2
    <3>5. y = z /\ c = z
      BY <2>4, <2>6, <2>11, <3>4 DEF Settled
    <3>6. IntResult(z) \/ DoubleResult(z)
      <4>1. "+" \in Arithmetic /\ "+" # "%"
        BY DEF Arithmetic
      <4> QED  BY <1>1, <2>11, <3>4, <4>1, Numbers
    <3> QED  BY <3>5, <3>6, SameResults
  <2> QED  BY <1>9, <2>8, <2>9, <2>10, <2>11, Kinds DEF Operands
<1> QED  BY <1>8, <1>9

LEMMA Truth ==
  ASSUME NEW b \in BOOLEAN
  PROVE  T(Bool(b)) <=> b
<1>1. PICK n \in {0, 1} : n = IF b THEN 1 ELSE 0
  OBVIOUS
<1>2. PICK a : a = <<n>>
  OBVIOUS
<1>3. PICK y : y = Bool(b) /\ y = V(CRY_BOOL, a)
  BY <1>1, <1>2 DEF Bool
<1>4. y.val = a
  <2>1. y = [type |-> CRY_BOOL, val |-> a, mark |-> FALSE]
    BY <1>3 DEF V
  <2> QED  BY ONLY <2>1
<1>5. a = <<1>> <=> n = 1
  BY <1>2, Tuples
<1> QED  BY <1>1, <1>3, <1>4, <1>5 DEF T

(* Types are equal in the folds when they are in the program, but for      *)
(* texts; values always.                                                   *)
LEMMA SameTypes ==
  ASSUME NEW f, NEW g, NEW d, NEW x, NEW e, NEW left \in BOOLEAN, Operands(f, g, d, x, e), NEW l, NEW r,
         l = Lhs(f, g, left), r = Rhs(f, g, left)
  PROVE  /\ l.type = r.type <=> d.type = x.type \/ (IsText(d) /\ IsText(x))
         /\ l.val = r.val <=> d.val = x.val
         /\ \A t \in {CRY_BOOL, CRY_DOUBLE} : l.type = r.type => (Of(l, t) <=> Both(d, x, t))
<1>1. f.type = (IF d.type = CRY_STRING THEN CRY_TEXT ELSE d.type) /\ g.type = (IF x.type = CRY_STRING THEN CRY_TEXT ELSE x.type)
  BY DEF Operands, Alike
<1>2. f.val = d.val /\ g.val = x.val
  BY DEF Operands, Alike
<1>3. f.type = g.type <=> d.type = x.type \/ (IsText(d) /\ IsText(x))
  BY <1>1, Codes DEF IsText
<1>4. \A t \in {CRY_BOOL, CRY_DOUBLE} : f.type = g.type => ((Of(f, t) <=> Both(d, x, t)) /\ (Of(g, t) <=> Both(d, x, t)))
  BY <1>1, Codes DEF Of, Both
<1>5. (l = f /\ r = g) \/ (l = g /\ r = f)
  BY DEF Lhs, Rhs
<1>6. CASE l = f /\ r = g
  BY <1>2, <1>3, <1>4, <1>6
<1>7. CASE l = g /\ r = f
  BY <1>2, <1>3, <1>4, <1>7
<1> QED  BY <1>5, <1>6, <1>7

LEMMA Equality ==
  ASSUME NEW f, NEW g, NEW d, NEW x, NEW e, NEW left \in BOOLEAN, NEW how, NEW ref \in BOOLEAN, NEW raw,
         Operands(f, g, d, x, e), how = "constant" => x.type # CRY_STRING,
         ~Differs("==", d, x, how, left, ref)
  PROVE  Agrees(Reduction("==", Lhs(f, g, left), Rhs(f, g, left)), Static("==", d, x, how = "constant", left),
                Obscure("==", e, x, left, raw, ref))
<1>1. PICK l, r : l = Lhs(f, g, left) /\ r = Rhs(f, g, left)
  OBVIOUS
<1>2. PICK y : Reduction("==", l, r) = Folded(y) /\ y = Reduce_Equal(l, r)
  BY DEF Reduction
<1>3. PICK c : c = Static("==", d, x, how = "constant", left) /\ c = IF how = "constant" THEN EqlC(d, x) ELSE Eql(d, x)
  BY DEF Static
<1>4. PICK z : z = Obscure("==", e, x, left, raw, ref) /\ z = Crystal_Compare(e, x)
  BY DEF Obscure
<1>5. PICK b \in BOOLEAN : b = (d.type = x.type /\ d.val = x.val)
  OBVIOUS
<1>6. ~Both(d, x, CRY_BOOL)
  BY DEF Differs
<1>7. IsText(d) /\ IsText(x) => how = "constant" /\ d.type = x.type
  <2>1. IsText(d) /\ IsText(x) => how = "constant" /\ Of(d, CRY_TEXT)
    BY DEF Differs
  <2> QED  BY <2>1 DEF Of, IsText
<1>8. y = Bool(b)
  <2>1. (l.type = r.type <=> d.type = x.type) /\ (l.val = r.val <=> d.val = x.val) /\ (l.type = r.type => ~Of(l, CRY_BOOL))
    BY <1>1, <1>6, <1>7, SameTypes
  <2> QED  BY <1>2, <1>5, <2>1 DEF Reduce_Equal
<1>9. c = Bool(b)
  <2>1. how # "constant" => ~(IsText(d) /\ IsText(x)) /\ (d.type = x.type => (IsText(d) <=> IsText(x)))
    BY <1>7 DEF IsText
  <2>2. CASE how # "constant"
    <3>1. b = (d.type = x.type /\ ~IsText(d) /\ d.val = x.val)
      BY <1>5, <2>1, <2>2
    <3> QED  BY <1>3, <2>2, <3>1 DEF Eql
  <2>3. CASE how = "constant"
    BY <1>3, <1>5, <2>3 DEF EqlC
  <2> QED  BY <2>2, <2>3
<1>10. z = Bool(b)
  <2>1. e.type = d.type /\ e.val = d.val
    BY DEF Operands, Twin
  <2>2. b = ((e.type = x.type \/ (IsText(e) /\ IsText(x))) /\ e.val = x.val)
    BY <1>5, <1>7, <2>1 DEF IsText
  <2> QED  BY <1>4, <2>2 DEF Crystal_Compare
<1> QED  BY <1>1, <1>2, <1>3, <1>4, <1>8, <1>9, <1>10, SameResults DEF Agrees

LEMMA Difference ==
  ASSUME NEW f, NEW g, NEW d, NEW x, NEW e, NEW left \in BOOLEAN, NEW how, NEW ref \in BOOLEAN, NEW raw,
         Operands(f, g, d, x, e), f = folded, ~Differs("!=", d, x, how, left, ref)
  PROVE  Agrees(Reduction("!=", Lhs(f, g, left), Rhs(f, g, left)), Static("!=", d, x, how = "constant", left),
                Obscure("!=", e, x, left, raw, ref))
<1>1. PICK l, r : l = Lhs(f, g, left) /\ r = Rhs(f, g, left)
  OBVIOUS
<1>2. PICK y : Reduction("!=", l, r) = Folded(y) /\ y = Reduce_Diffrence(l, r)
  BY DEF Reduction
<1>3. PICK c : c = Static("!=", d, x, how = "constant", left) /\ c = IF how = "constant" THEN DifC(d, x) ELSE Dif(d, x)
  BY DEF Static
<1>4. PICK z : z = Obscure("!=", e, x, left, raw, ref) /\ z = Obscure_Diffrence(e, x)
  BY DEF Obscure
<1>5. PICK b \in BOOLEAN : b = (d.type # x.type \/ d.val # x.val)
  OBVIOUS
<1>6. ~Both(d, x, CRY_BOOL) /\ (Both(d, x, CRY_DOUBLE) => ~f.mark) /\ ~(IsText(d) /\ IsText(x))
  BY DEF Differs
<1>7. y = Bool(b)
  <2>1. /\ (l.type = r.type <=> d.type = x.type) /\ (l.val = r.val <=> d.val = x.val)
        /\ l.type = r.type => ~Of(l, CRY_BOOL) /\ (Of(l, CRY_DOUBLE) <=> Both(d, x, CRY_DOUBLE))
    BY <1>1, <1>6, SameTypes
  <2>2. Both(d, x, CRY_DOUBLE) => l.mark = FALSE /\ r.mark = FALSE
    BY <1>1, <1>6 DEF Lhs, Rhs, Operands, Alike
  <2>3. CASE l.type # r.type
    BY <1>2, <1>5, <2>1, <2>3 DEF Reduce_Diffrence
  <2>4. CASE l.type = r.type
    <3>1. b = (l.val # r.val)
      BY <1>5, <2>1, <2>4
    <3>2. Of(l, CRY_DOUBLE) => (l.mark # r.mark \/ (~l.mark /\ l.val # r.val)) = (l.val # r.val)
      BY <2>1, <2>2, <2>4
    <3> QED  BY <1>2, <2>1, <2>4, <3>1, <3>2 DEF Reduce_Diffrence
  <2> QED  BY <2>3, <2>4
<1>8. c = Bool(b)
  <2>1. d.type = x.type => ~IsText(d)
    BY <1>6 DEF IsText
  <2>2. CASE how # "constant"
    <3>1. b = (d.type # x.type \/ (~IsText(d) /\ d.val # x.val))
      BY <1>5, <2>1
    <3> QED  BY <1>3, <2>2, <3>1 DEF Dif
  <2>3. CASE how = "constant"
    <3>1. b = (d.type # x.type \/ (IF IsText(d) THEN d.val = x.val ELSE d.val # x.val))
      BY <1>5, <2>1
    <3> QED  BY <1>3, <2>3, <3>1 DEF DifC
  <2> QED  BY <2>2, <2>3
<1>9. z = Bool(b)
  <2>1. e.type = d.type /\ e.val = d.val
    BY DEF Operands, Twin
  <2>2. PICK q \in BOOLEAN : q = ((e.type = x.type \/ (IsText(e) /\ IsText(x))) /\ e.val = x.val)
    OBVIOUS
  <2>3. b = ~q
    BY <1>5, <1>6, <2>1, <2>2 DEF IsText
  <2>4. T(Crystal_Compare(e, x)) <=> q
    BY <2>2, Truth DEF Crystal_Compare
  <2>5. z = Bool(~T(Crystal_Compare(e, x)))
    BY <1>4 DEF Obscure_Diffrence
  <2>6. T(Crystal_Compare(e, x)) \in BOOLEAN
    BY DEF T
  <2> QED  BY <2>3, <2>4, <2>5, <2>6
<1> QED  BY <1>1, <1>2, <1>3, <1>4, <1>7, <1>8, <1>9, SameResults DEF Agrees

(***************************************************************************)
(* Comparisons.                                                            *)
(***************************************************************************)
LEMMA Mirrored ==
  ASSUME NEW op \in Comparisons, NEW l, NEW r, Numeric(l), Numeric(r)
  PROVE  Related(Mirror(op), l, r) = Related(op, r, l)
<1>1. PICK a \in Int, b \in Int : a = Num(l) * Denom(r) /\ b = Num(r) * Denom(l)
  BY DEF Numeric
<1>2. CASE op = "<"
  BY <1>1, <1>2 DEF Mirror, Related
<1>3. CASE op = "<="
  BY <1>1, <1>3 DEF Mirror, Related
<1>4. CASE op = ">"
  BY <1>1, <1>4 DEF Mirror, Related
<1>5. CASE op = ">="
  BY <1>1, <1>5 DEF Mirror, Related
<1> QED  BY <1>2, <1>3, <1>4, <1>5 DEF Comparisons

LEMMA RelatedIs ==
  ASSUME NEW op \in Comparisons, NEW l, NEW r, Numeric(l), Numeric(r)
  PROVE  \E b \in BOOLEAN : Related(op, l, r) = Bool(b)
<1>1. PICK m \in Int, n \in Int : m = Num(l) * Denom(r) /\ n = Num(r) * Denom(l)
  BY DEF Numeric
<1>2. CASE op = "<"
  <2>1. PICK b \in BOOLEAN : b <=> m < n
    OBVIOUS
  <2>2. Related(op, l, r) = Bool(m < n)
    BY <1>1, <1>2 DEF Related
  <2> QED  BY <2>1, <2>2 DEF Bool
<1>3. CASE op = "<="
  <2>1. PICK b \in BOOLEAN : b <=> m <= n
    OBVIOUS
  <2>2. Related(op, l, r) = Bool(m <= n)
    BY <1>1, <1>3 DEF Related
  <2> QED  BY <2>1, <2>2 DEF Bool
<1>4. CASE op = ">"
  <2>1. PICK b \in BOOLEAN : b <=> m > n
    OBVIOUS
  <2>2. Related(op, l, r) = Bool(m > n)
    BY <1>1, <1>4 DEF Related
  <2> QED  BY <2>1, <2>2 DEF Bool
<1>5. CASE op = ">="
  <2>1. PICK b \in BOOLEAN : b <=> m >= n
    OBVIOUS
  <2>2. Related(op, l, r) = Bool(m >= n)
    BY <1>1, <1>5 DEF Related
  <2> QED  BY <2>1, <2>2 DEF Bool
<1> QED  BY <1>2, <1>3, <1>4, <1>5 DEF Comparisons

LEMMA Comparison ==
  ASSUME NEW op \in Comparisons, NEW f, NEW g, NEW d, NEW x, NEW e, NEW left \in BOOLEAN, NEW how, NEW ref \in BOOLEAN, NEW raw,
         Operands(f, g, d, x, e), ~Differs(op, d, x, how, left, ref)
  PROVE  Agrees(Reduction(op, Lhs(f, g, left), Rhs(f, g, left)), Static(op, d, x, how = "constant", left),
                Obscure(op, e, x, left, raw, ref))
<1>1. PICK l, r, v : l = Lhs(f, g, left) /\ r = Rhs(f, g, left) /\ v = Related(op, Lhs(d, x, left), Rhs(d, x, left))
  OBVIOUS
<1>2. PICK y : Reduction(op, l, r) = Folded(y) /\ y = Reduce_Order(op, l, r)
  BY DEF Reduction, Comparisons
<1>3. PICK const \in BOOLEAN : const = (how = "constant")
  OBVIOUS
<1>4. PICK double : double = IF op \in {"<", ">"} THEN "<" ELSE "<="
  OBVIOUS
<1>5. PICK c : c = Static(op, d, x, const, left) /\ c = Compared(op, double, d, x, const, left)
  BY <1>4 DEF Static, Comparisons, Les, LesEql, Gtr, GtrEql
<1>6. PICK z : z = Obscure(op, e, x, left, raw, ref) /\ z = Obscure_Order(IF left THEN op ELSE Mirror(op), e, x)
  BY DEF Obscure, Comparisons
<1>7. SUFFICES Same(y, c, z)
  BY <1>1, <1>2, <1>3, <1>5, <1>6 DEF Agrees
<1>8. e.type = d.type
  BY DEF Operands, Twin
<1>9. d.type \in {0, 1, 2, 4, 5, 8} /\ x.type \in {0, 1, 2, 4, 5, 8}
  BY Codes DEF Operands, Shaped
<1>10. Higher(d, x) = IF d.type >= x.type THEN d.type ELSE x.type
  BY HigherOf DEF Operands
<1>11. /\ f.type = (IF d.type = 8 THEN 5 ELSE d.type) /\ g.type = (IF x.type = 8 THEN 5 ELSE x.type)
  BY Codes DEF Operands, Alike
<1>12. {l.type, r.type} = {f.type, g.type}
  BY <1>1 DEF Lhs, Rhs
<1>13. y = IF Number(d) /\ Number(x) THEN v ELSE Nil
  <2>1. Related(op, l, r) = v
    BY <1>1, SameNumbers
  <2>2. y = IF {f.type, g.type} \subseteq {2, 4} THEN v ELSE Nil
    BY <1>2, <1>12, <2>1, Codes DEF Reduce_Order
  <2>3. {f.type, g.type} \subseteq {2, 4} <=> Number(d) /\ Number(x)
    BY <1>9, <1>11, Codes DEF Number
  <2> QED  BY <2>2, <2>3
<1>14. CASE Higher(d, x) \in {CRY_INT, CRY_DOUBLE}
  <2>1. ~OneOf(d, x, CRY_NIL) /\ ~OneOf(d, x, CRY_BOOL)
    BY <1>14 DEF Differs
  <2>2. Number(d) /\ Number(x)
    BY <1>9, <1>10, <1>14, <2>1, Codes DEF Number, OneOf
  <2>3. ~(Mixed(d, x) /\ Of(d, CRY_INT)) /\ (Higher(d, x) = CRY_DOUBLE => op \notin {">", ">="})
    BY DEF Differs
  <2>4. y = v
    BY <1>13, <2>2
  <2>5. c = v
    <3>1. (IF Higher(d, x) = CRY_INT THEN op ELSE double) = op
      BY <1>4, <1>14, <2>3 DEF Comparisons
    <3>2. ~Of(x, CRY_BOOL)
      BY <2>1 DEF OneOf, Of
    <3>3. ~(const /\ Of(x, CRY_INT) /\ Pooled(d, x))
      BY <1>3 DEF Differs
    <3>4. c = Related(IF Higher(d, x) = CRY_INT THEN op ELSE double, Lhs(d, x, left), Rhs(d, x, left))
      BY <1>5, <1>14, <2>1, <3>2, <3>3 DEF Compared
    <3> QED  BY <1>1, <3>1, <3>4
  <2>6. z = v
    <3>1. (Of(e, CRY_INT) /\ Of(x, CRY_INT)) \/ (Of(e, CRY_DOUBLE) /\ ~Of(x, CRY_NIL) /\ x.type <= CRY_DOUBLE)
      BY <1>8, <1>9, <2>2, <2>3, Codes DEF Number, Mixed, Of
    <3>2. z = Related(IF left THEN op ELSE Mirror(op), e, x)
      BY <1>6, <3>1, Codes DEF Obscure_Order, Of
    <3>3. Numeric(d) /\ Numeric(x)
      BY <2>2, ShapedNumeric DEF Operands, Number
    <3>4. CASE left
      BY <1>1, <3>2, <3>4, Swapped DEF Operands, Lhs, Rhs
    <3>5. CASE ~left
      <4>1. z = Related(Mirror(op), d, x)
        BY <3>2, <3>5, Swapped DEF Operands
      <4> QED  BY <1>1, <3>3, <3>5, <4>1, Mirrored DEF Lhs, Rhs
    <3> QED  BY <3>4, <3>5
  <2>7. PICK b \in BOOLEAN : v = Bool(b)
    <3>1. Numeric(Lhs(d, x, left)) /\ Numeric(Rhs(d, x, left))
      BY <2>2, ShapedNumeric DEF Operands, Number, Lhs, Rhs
    <3> QED  BY <1>1, <3>1, RelatedIs
  <2> QED  BY <2>4, <2>5, <2>6, <2>7, SameResults
<1>15. CASE Higher(d, x) \notin {CRY_INT, CRY_DOUBLE}
  <2>1. ~const
    BY <1>3, <1>15 DEF Differs
  <2>2. y = Nil
    BY <1>9, <1>10, <1>13, <1>15, Codes DEF Number
  <2>3. c = Nil
    BY <1>5, <1>15, <2>1 DEF Compared
  <2>4. z = Nil
    <3>1. /\ ~(Of(e, CRY_INT) /\ Of(x, CRY_INT)) /\ ~(Of(e, CRY_DOUBLE) /\ Of(x, CRY_NIL))
          /\ ~(Of(e, CRY_DOUBLE) /\ x.type <= CRY_DOUBLE)
      BY <1>8, <1>9, <1>10, <1>15, Codes DEF Of
    <3> QED  BY <1>6, <3>1 DEF Obscure_Order
  <2> QED  BY <2>2, <2>3, <2>4, SameResults
<1> QED  BY <1>14, <1>15

(***************************************************************************)
(* The three agree, and the element is kept, over one operator.            *)
(***************************************************************************)
LEMMA Concluding ==
  ASSUME NEW p, NEW c, NEW z, Agrees(p, c, z)
  PROVE  Result(c) /\ Alike(p, c) /\ Twin(z, c)
<1>1. PICK y : p = Folded(y) /\ Same(y, c, z)
  BY DEF Agrees
<1>2. /\ Result(c) /\ Twin(z, c) /\ y.type = (IF c.type = CRY_STRING THEN CRY_TEXT ELSE c.type) /\ y.val = c.val
      /\ y = [type |-> y.type, val |-> y.val, mark |-> FALSE]
  BY <1>1 DEF Same
<1>3. y.mark = FALSE
  BY <1>2
<1>4. y.type # CRY_STRING
  BY <1>2, Codes
<1>5. CASE y.type = CRY_TEXT
  BY <1>1, <1>2, <1>5, <1>3, Codes DEF Folded, IsText, Alike
<1>6. CASE y.type # CRY_TEXT
  <2>1. ~IsText(y)
    BY <1>4, <1>6 DEF IsText
  <2>2. p = Marked(y)
    BY <1>1, <2>1 DEF Folded
  <2>3. p.type = y.type /\ p.val = y.val /\ p.mark \in BOOLEAN
    <3>1. PICK a, b : y = [type |-> a, val |-> b, mark |-> FALSE] /\ a = y.type /\ b = y.val
      BY <1>2
    <3>2. p = [[type |-> a, val |-> b, mark |-> FALSE] EXCEPT !.mark = TRUE]
      BY <2>2, <3>1 DEF Marked
    <3>3. p = [type |-> a, val |-> b, mark |-> TRUE]
      BY <3>2
    <3> QED  BY <3>1, <3>3
  <2> QED  BY <1>2, <1>6, <2>3 DEF Alike
<1> QED  BY <1>2, <1>5, <1>6

LEMMA OperateAgrees ==
  ASSUME NEW op \in Operations, NEW f, NEW g, NEW d, NEW x, NEW e, NEW left \in BOOLEAN, NEW how, NEW ref \in BOOLEAN,
         Operands(f, g, d, x, e), f = folded, Finite(op, Lhs(f, g, left), Rhs(f, g, left)),
         how = "constant" => x.type # CRY_STRING, ~Differs(op, d, x, how, left, ref),
         NEW p, NEW c, NEW z, p = Reduction(op, Lhs(f, g, left), Rhs(f, g, left)),
         c = Static(op, d, x, how = "constant", left), z = Obscure(op, e, x, left, Raw(e, x, how, ref), ref)
  PROVE  Result(c) /\ Alike(p, c) /\ Twin(z, c)
<1>1. SUFFICES Agrees(p, c, z)
  BY Concluding
<1>2. CASE op = "+"
  BY <1>2, Addition
<1>3. CASE op = "-"
  BY <1>3, Subtraction
<1>4. CASE op = "*"
  BY <1>4, Multiplication
<1>5. CASE op = "/"
  BY <1>5, Division
<1>6. CASE op = "%"
  BY <1>6, Modulo
<1>7. CASE op = "^"
  BY <1>7, Exponentiation
<1>8. CASE op = "=="
  BY <1>8, Equality
<1>9. CASE op = "!="
  BY <1>9, Difference
<1>10. CASE op \in {"&&", "||"}
  BY <1>10 DEF Differs
<1>11. CASE op \in Comparisons
  BY <1>11, Comparison
<1> QED  BY <1>2, <1>3, <1>4, <1>5, <1>6, <1>7, <1>8, <1>9, <1>10, <1>11 DEF Operations, Arithmetic

LEMMA NotAgrees ==
  ASSUME NEW f, NEW d, NEW e, Shaped(d), Alike(f, d), Twin(e, d), d.type \notin {CRY_DOUBLE, CRY_STRING},
         NEW p, NEW c, NEW z, p = Folded(Reduce_Not(f)), c = Obscure_Not(d, FALSE), z = Obscure_Not(e, FALSE)
  PROVE  Result(c) /\ Alike(p, c) /\ Twin(z, c)
<1>1. SUFFICES \E y : Reduce_Not(f) = y /\ c = y /\ z = y /\ (y = Nil \/ \E b \in BOOLEAN : y = Bool(b))
  <2>1. Agrees(p, c, z)
    BY <1>1, SameResults DEF Agrees
  <2> QED  BY <2>1, Concluding
<1>2. f.type = d.type /\ f.val = d.val /\ e.type = d.type /\ e.val = d.val /\ e.mark = FALSE /\ d.mark = FALSE
  BY Codes DEF Alike, Twin, Shaped
<1>3. CASE d.type = CRY_NIL
  <2>1. Reduce_Not(f) = Nil
    BY <1>2, <1>3, Codes DEF Reduce_Not, Of, IsText
  <2>2. c = Nil /\ z = Nil
    BY <1>2, <1>3, Codes DEF Obscure_Not, Of
  <2> QED  BY <2>1, <2>2
<1>4. CASE d.type = CRY_TEXT
  <2>1. PICK b \in BOOLEAN : b <=> d.val = <<>>
    OBVIOUS
  <2>2. Reduce_Not(f) = Bool(b)
    BY <1>2, <1>4, <2>1, Codes DEF Reduce_Not, Of, IsText
  <2>3. (~Parse_Bool(d) <=> b) /\ (~Parse_Bool(e) <=> b)
    BY <1>2, <1>4, <2>1, Codes DEF Parse_Bool, IsText
  <2>4. c = Bool(b) /\ z = Bool(b)
    BY <1>2, <1>4, <2>3, Codes DEF Obscure_Not, Of
  <2> QED  BY <2>2, <2>4
<1>5. CASE d.type \in {CRY_BOOL, CRY_INT}
  <2>1. PICK n \in Int : d.val = <<n>>
    BY <1>5, Limits, Codes DEF Shaped, IsInt
  <2>2. PICK b \in BOOLEAN : b <=> n = 0
    OBVIOUS
  <2>3. d.val[1] = n /\ (d.val = <<0>> <=> b)
    BY <2>1, <2>2, Tuples
  <2>4. Reduce_Not(f) = Bool(b)
    BY <1>2, <1>5, <2>2, <2>3, Codes DEF Reduce_Not, Of, IsText
  <2>5. (~Parse_Bool(d) <=> b) /\ (~Parse_Bool(e) <=> b)
    BY <1>2, <1>5, <2>3, Codes DEF Parse_Bool, IsText
  <2>6. c = Bool(b) /\ z = Bool(b)
    BY <1>2, <1>5, <2>5, Codes DEF Obscure_Not, Of
  <2> QED  BY <2>4, <2>6
<1> QED  BY <1>3, <1>4, <1>5, Codes DEF Shaped

(* The operands that expressions are made of. *)
LEMMA Operand ==
  ASSUME NEW x \in Values
  PROVE  Shaped(x) /\ x.mark = FALSE /\ (x \in Constants => x.type # CRY_STRING)
<1> DEFINE Sound(v) == Shaped(v) /\ v.mark = FALSE /\ v.type # CRY_STRING
<1>1. ASSUME NEW v, v \in {Nil, Bool(TRUE), Bool(FALSE)} PROVE Sound(v)
  <2>1. CASE v = Nil
    <3>1. PICK a : a = <<>> /\ v = V(CRY_NIL, a)
      BY <2>1 DEF Nil
    <3>2. CRY_NIL \in Scalars /\ CRY_NIL # CRY_STRING /\ CRY_NIL \notin {CRY_BOOL, CRY_INT, CRY_DOUBLE}
      BY Codes
    <3> QED  BY <3>1, <3>2, Makes
  <2>2. CASE v # Nil
    <3>1. PICK n \in {0, 1} : v = V(CRY_BOOL, <<n>>)
      BY <1>1, <2>2 DEF Bool
    <3>2. PICK a : a = <<n>>
      OBVIOUS
    <3>3. v = [type |-> CRY_BOOL, val |-> a, mark |-> FALSE] /\ (a = <<0>> \/ a = <<1>>)
      BY <3>1, <3>2 DEF V
    <3>4. v.type = CRY_BOOL /\ v.val = a /\ v.mark = FALSE /\ v = [type |-> v.type, val |-> v.val, mark |-> FALSE]
      BY <3>3
    <3> QED  BY <3>3, <3>4, Codes DEF Shaped
  <2> QED  BY <2>1, <2>2
<1>2. ASSUME NEW n \in Integer, NEW v, v = IntOf(n) PROVE Sound(v)
  <2>1. n \in Int
    BY Limits, OperatorsAssumption
  <2>2. IsInt(v.val) /\ v = V(CRY_INT, v.val)
    BY <1>2, <2>1, WrapIs
  <2>3. CRY_INT \in Scalars /\ CRY_INT # CRY_STRING /\ CRY_INT \notin {CRY_NIL, CRY_BOOL, CRY_DOUBLE}
    BY Codes
  <2> QED  BY <2>2, <2>3, Makes
<1>3. ASSUME NEW q \in Fractions, NEW v, v = Double(q[1], q[2]) PROVE Sound(v)
  <2>1. PICK a \in Int, b \in Int \ {0} : a = q[1] /\ b = q[2]
    BY OperatorsAssumption
  <2>2. DoubleResult(v)
    BY <1>3, <2>1, DoubleIs
  <2>3. CRY_DOUBLE \in Scalars /\ CRY_DOUBLE # CRY_STRING /\ CRY_DOUBLE \notin {CRY_NIL, CRY_BOOL, CRY_INT}
    BY Codes
  <2> QED  BY <2>2, <2>3, Makes DEF DoubleResult
<1>4. ASSUME NEW a, NEW v, v = V(CRY_TEXT, a) PROVE Sound(v)
  <2>1. CRY_TEXT \in Scalars /\ CRY_TEXT # CRY_STRING /\ CRY_TEXT \notin {CRY_NIL, CRY_BOOL, CRY_INT, CRY_DOUBLE}
    BY Codes
  <2> QED  BY <1>4, <2>1, Makes
<1>5. ASSUME NEW a, NEW v, v = StringOf(a) PROVE Shaped(v) /\ v.mark = FALSE /\ v.type = CRY_STRING
  <2>1. CRY_STRING \in Scalars /\ CRY_STRING \notin {CRY_NIL, CRY_BOOL, CRY_INT, CRY_DOUBLE}
    BY Codes
  <2>2. v = V(CRY_STRING, a)
    BY <1>5 DEF StringOf
  <2> QED  BY <2>1, <2>2, Makes
<1> HIDE DEF Sound
<1>6. CASE x \in Constants
  <2>1. \/ x \in {Nil, Bool(TRUE), Bool(FALSE)}
        \/ \E n \in Integer : x = IntOf(n)
        \/ \E q \in Fractions : x = Double(q[1], q[2])
        \/ \E t \in Texts : x = V(CRY_TEXT, <<t>>)
        \/ x = V(CRY_TEXT, <<>>)
    BY <1>6 DEF Constants
  <2>2. Sound(x)
    BY <1>1, <1>2, <1>3, <1>4, <2>1
  <2> QED  BY <2>2 DEF Sound
<1>7. CASE x \notin Constants
  <2>1. \E a : x = StringOf(a)
    BY <1>7 DEF Values
  <2> QED  BY <1>5, <1>7, <2>1
<1> QED  BY <1>6, <1>7

(* An operator that leaves its result to the element found nil in it. *)
Undisturbed(op, d, x, e, left, how) ==
  /\ op \in Operations /\ left \in BOOLEAN /\ Shaped(d) /\ Shaped(x) /\ Twin(e, d)
  /\ ~Differs(op, d, x, how, left, TRUE)
Keeps(op, e, x, left, raw) ==
  /\ ElementAfter(op, e, x, left, raw) = e
  /\ Missed(op, e, x, left, raw) => Obscure(op, e, x, left, raw, TRUE) = e

LEMMA ElementKept ==
  ASSUME NEW op, NEW d, NEW x, NEW e, NEW left, NEW how, Undisturbed(op, d, x, e, left, how)
  PROVE  Keeps(op, e, x, left, Raw(e, x, how, TRUE))
<1> SUFFICES ASSUME NEW raw, raw = Raw(e, x, how, TRUE), op \in Operations, left \in BOOLEAN,
                    Shaped(d), Shaped(x), Twin(e, d), ~Differs(op, d, x, how, left, TRUE)
             PROVE  /\ ElementAfter(op, e, x, left, raw) = e
                    /\ Missed(op, e, x, left, raw) => Obscure(op, e, x, left, raw, TRUE) = e
  BY DEF Undisturbed, Keeps
<1>1. e.type = d.type /\ e = [type |-> e.type, val |-> e.val, mark |-> FALSE]
  BY DEF Twin
<1>2. Shaped(e) /\ Higher(e, x) = Higher(d, x)
  <2>1. Shaped(e)
    BY <1>1 DEF Shaped, Twin
  <2> QED  BY <1>1, <2>1, HigherOf
<1>3. Of(e, CRY_NIL) => e = Nil
  <2>1. Of(e, CRY_NIL) => e.type = CRY_NIL /\ e.val = <<>>
    BY <1>2 DEF Shaped, Of
  <2> QED  BY <1>1, <2>1 DEF Nil, V
<1>4. raw <=> Of(x, CRY_NIL) /\ how # "element"
  BY DEF Raw
<1>5. CASE Missed(op, e, x, left, raw)
  <2>1. left
    BY <1>5 DEF Missed
  <2>2. CASE op = "+"
    <3>1. Higher(d, x) = CRY_NIL
      <4>1. Higher(e, x) = CRY_NIL \/ (Higher(e, x) = CRY_DOUBLE /\ ~OneOf(e, x, CRY_NIL))
        BY <1>5, <2>2 DEF Missed
      <4>2. OneOf(e, x, CRY_NIL) <=> OneOf(d, x, CRY_NIL)
        BY <1>1 DEF OneOf
      <4> QED  BY <1>2, <2>1, <2>2, <4>1, <4>2 DEF Differs
    <3>2. Of(e, CRY_NIL) /\ ~IsText(e) /\ ~IsText(x) /\ OneOf(e, x, CRY_NIL)
      BY <1>1, <3>1, HigherOf, Codes DEF Shaped, Of, IsText, OneOf
    <3>3. Obscure_Addition(e, x, TRUE) = Nil
      BY <3>2 DEF Obscure_Addition
    <3> QED  BY <1>3, <1>5, <2>1, <2>2, <3>2, <3>3 DEF ElementAfter, Obscure
  <2>3. CASE op = "-"
    <3>1. ~raw /\ Higher(d, x) \notin {CRY_BOOL, CRY_INT, CRY_DOUBLE}
      BY <1>2, <1>5, <2>3 DEF Missed
    <3>2. Of(d, CRY_NIL) \/ ~(IsText(d) \/ IsText(x))
      BY <1>4, <2>1, <2>3, <3>1 DEF Differs
    <3>3. Of(e, CRY_NIL)
      BY <1>1, <3>1, <3>2, HigherOf, Codes DEF Shaped, Of, IsText
    <3>4. Obscure(op, e, x, left, raw, TRUE) = Nil
      <4>1. OneOf(e, x, CRY_NIL) /\ Higher(e, x) \notin {CRY_BOOL, CRY_INT, CRY_DOUBLE}
        BY <1>2, <3>1, <3>3 DEF OneOf, Of
      <4>2. Obscure_Subtraction(e, x, raw, TRUE) = Nil
        BY <3>1, <4>1 DEF Obscure_Subtraction, Obscured, Select
      <4> QED  BY <2>1, <2>3, <4>2 DEF Obscure
    <3> QED  BY <1>3, <1>5, <2>3, <3>3, <3>4 DEF ElementAfter
  <2>4. CASE op = "%"
    <3>1. ~raw /\ Higher(e, x) # CRY_INT
      BY <1>5, <2>4 DEF Missed
    <3>2. Of(e, CRY_NIL)
      BY <1>1, <1>4, <2>1, <2>4, <3>1 DEF Differs, Of
    <3>3. Obscure(op, e, x, left, raw, TRUE) = Nil
      BY <2>1, <2>4, <3>1 DEF Obscure, Obscure_Modulo
    <3> QED  BY <1>3, <1>5, <2>4, <3>2, <3>3 DEF ElementAfter
  <2> QED  BY <1>5, <2>2, <2>3, <2>4 DEF Missed
<1>6. CASE ~Missed(op, e, x, left, raw)
  <2>1. ~(op = "+" /\ left /\ Higher(e, x) = CRY_INT /\ ~OneOf(e, x, CRY_NIL))
    BY <1>1, <1>2 DEF Differs, OneOf
  <2> QED  BY <1>6, <2>1 DEF ElementAfter
<1> QED  BY <1>5, <1>6

(***************************************************************************)
(* The invariant: until an operator is used that is known to differ, the   *)
(* three values are the same, with all bytes written; the element is what  *)
(* it was; and what dest still refers to is its value.                     *)
(***************************************************************************)
IInv ==
  /\ excused \in BOOLEAN /\ refers \in BOOLEAN
  /\ ~excused => /\ Result(compiled) /\ Alike(folded, compiled) /\ Twin(dynamic, compiled)
                 /\ element = origin /\ (refers => dynamic = element)

LEMMA PlainOperand ==
  ASSUME NEW x, Shaped(x), NEW g, g = V(Plain(x).type, x.val)
  PROVE  Alike(g, x) /\ g.mark = FALSE
<1>1. PICK t, a : t = (IF x.type = CRY_STRING THEN CRY_TEXT ELSE x.type) /\ a = x.val
  OBVIOUS
<1>2. Plain(x).type = t
  BY <1>1 DEF Plain
<1>3. g = V(t, a)
  BY <1>1, <1>2
<1>4. g.type = t /\ g.val = a /\ g.mark = FALSE
  BY ONLY <1>3, ValueIs
<1> QED  BY <1>1, <1>4 DEF Alike

(* What is not a trap has all its bytes. *)
LEMMA NoTrap == ASSUME NEW v, Result(v), v.type # CRY_SYMS PROVE Shaped(v)
<1>1. PICK t, a : t = CRY_SYMS /\ a = <<>>
  OBVIOUS
<1>2. V(t, a).type = t
  BY ONLY ValueIs
<1> QED  BY <1>1, <1>2 DEF Result, Trap

LEMMA InitIInv == Init => IInv
<1> SUFFICES ASSUME Init PROVE IInv
  OBVIOUS
<1>1. PICK v \in Values : folded = V(Plain(v).type, v.val) /\ compiled = v /\ dynamic = v /\ element = v /\ origin = v
  BY DEF Init
<1>2. refers \in BOOLEAN /\ excused = FALSE
  BY DEF Init
<1>3. Shaped(v) /\ v.mark = FALSE
  BY Operand
<1>4. Alike(folded, v)
  BY <1>1, <1>3, PlainOperand
<1>5. Twin(v, v)
  BY <1>3 DEF Shaped, Twin
<1> QED  BY <1>1, <1>2, <1>3, <1>4, <1>5 DEF IInv, Result

LEMMA OperateIInv ==
  ASSUME IInv, NEW op \in Operations, NEW x \in Values, NEW how \in {"constant", "symbol", "element"}, NEW left \in BOOLEAN,
         Operate(op, x, how, left)
  PROVE  IInv'
<1>1. PICK f, g, d, e, ref, raw :
        /\ f = folded /\ g = V(Plain(x).type, x.val) /\ d = compiled /\ e = dynamic /\ ref = refers /\ raw = Raw(e, x, how, ref)
  OBVIOUS
<1>2. raw = ((Of(dynamic, CRY_NIL) /\ ~refers) \/ (Of(x, CRY_NIL) /\ how # "element"))
  BY <1>1 DEF Raw
<1>3. /\ folded' = Reduction(op, Lhs(f, g, left), Rhs(f, g, left))
      /\ compiled' = Static(op, d, x, how = "constant", left)
      /\ dynamic' = Obscure(op, e, x, left, raw, ref)
  BY <1>1, <1>2 DEF Operate
<1>4. /\ element' = IF ref THEN ElementAfter(op, e, x, left, raw) ELSE element
      /\ refers' = (ref /\ Missed(op, e, x, left, raw))
      /\ excused' = Differs(op, d, x, how, left, ref) /\ origin' = origin
  BY <1>1, <1>2 DEF Operate
<1>5. ~excused /\ d.type # CRY_SYMS /\ (how = "constant" => x \in Constants) /\ Finite(op, Lhs(f, g, left), Rhs(f, g, left))
  BY <1>1 DEF Operate, Of
<1>6. /\ ref \in BOOLEAN /\ Result(d) /\ Alike(f, d) /\ Twin(e, d) /\ element = origin /\ (ref => e = element)
  BY <1>1, <1>5 DEF IInv
<1>7. Shaped(d)
  BY <1>5, <1>6, NoTrap
<1>8. Shaped(x) /\ x.mark = FALSE /\ (how = "constant" => x.type # CRY_STRING)
  BY <1>5, Operand
<1>9. Operands(f, g, d, x, e)
  BY <1>1, <1>6, <1>7, <1>8, PlainOperand DEF Operands
<1>10. excused' \in BOOLEAN /\ refers' \in BOOLEAN
  BY <1>4, <1>6 DEF Differs, Missed
<1>11. ~excused' => Result(compiled') /\ Alike(folded', compiled') /\ Twin(dynamic', compiled')
  <2> SUFFICES ASSUME ~Differs(op, d, x, how, left, ref)
               PROVE  Result(compiled') /\ Alike(folded', compiled') /\ Twin(dynamic', compiled')
    BY <1>4
  <2>1. PICK p, c, z : p = folded' /\ c = compiled' /\ z = dynamic'
    OBVIOUS
  <2>2. Result(c) /\ Alike(p, c) /\ Twin(z, c)
    BY <1>1, <1>3, <1>5, <1>6, <1>8, <1>9, <2>1, OperateAgrees
  <2> QED  BY <2>1, <2>2
<1>12. ~excused' => element' = origin' /\ (refers' => dynamic' = element')
  <2>1. CASE ref = TRUE
    <3>1. ASSUME ~Differs(op, d, x, how, left, TRUE)
          PROVE  /\ ElementAfter(op, e, x, left, raw) = e
                 /\ Missed(op, e, x, left, raw) => Obscure(op, e, x, left, raw, TRUE) = e
      <4>1. raw = Raw(e, x, how, TRUE)
        BY <1>1, <2>1
      <4>2. Undisturbed(op, d, x, e, left, how)
        BY <1>6, <1>7, <1>8, <3>1 DEF Undisturbed
      <4>3. Keeps(op, e, x, left, Raw(e, x, how, TRUE))
        BY ONLY <4>2, ElementKept
      <4> QED  BY <4>1, <4>3 DEF Keeps
    <3> QED  BY <1>3, <1>4, <1>6, <2>1, <3>1
  <2>2. CASE ref = FALSE
    BY <1>4, <1>6, <2>2
  <2> QED  BY <1>6, <2>1, <2>2
<1> QED  BY <1>10, <1>11, <1>12 DEF IInv, Result, Shaped, Alike, Twin, Trap

LEMMA NotIInv == IInv /\ Not => IInv'
<1> SUFFICES ASSUME IInv, Not PROVE IInv'
  OBVIOUS
<1>1. PICK f, d, e, ref : f = folded /\ d = compiled /\ e = dynamic /\ ref = refers
  OBVIOUS
<1>2. /\ folded' = Folded(Reduce_Not(f)) /\ compiled' = Obscure_Not(d, FALSE) /\ dynamic' = Obscure_Not(e, ref)
      /\ refers' = FALSE /\ excused' = (ref \/ Of(d, CRY_DOUBLE) \/ Of(d, CRY_STRING)) /\ element' = element /\ origin' = origin
      /\ ~excused /\ d.type # CRY_SYMS
  BY <1>1 DEF Not, Of
<1>3. ref \in BOOLEAN /\ Result(d) /\ Alike(f, d) /\ Twin(e, d) /\ element = origin
  BY <1>1, <1>2 DEF IInv
<1>4. Shaped(d)
  BY <1>2, <1>3, NoTrap
<1>5. excused' \in BOOLEAN
  BY <1>2, <1>3 DEF Of
<1>6. ~excused' => Result(compiled') /\ Alike(folded', compiled') /\ Twin(dynamic', compiled')
  <2> SUFFICES ASSUME ref = FALSE, d.type \notin {CRY_DOUBLE, CRY_STRING}
               PROVE  Result(compiled') /\ Alike(folded', compiled') /\ Twin(dynamic', compiled')
    BY <1>2, <1>3 DEF Of
  <2>1. PICK p, c, z : p = folded' /\ c = compiled' /\ z = dynamic'
    OBVIOUS
  <2>2. Result(c) /\ Alike(p, c) /\ Twin(z, c)
    BY <1>2, <1>3, <1>4, <2>1, NotAgrees
  <2> QED  BY <2>1, <2>2
<1> QED  BY <1>2, <1>3, <1>5, <1>6 DEF IInv

LEMMA NextIInv == IInv /\ [Next]_vars => IInv'
<1> SUFFICES ASSUME IInv, [Next]_vars PROVE IInv'
  OBVIOUS
<1>1. ASSUME NEW op \in Operations, NEW x \in Values, NEW how \in {"constant", "symbol", "element"}, NEW left \in BOOLEAN,
             Operate(op, x, how, left)
      PROVE  IInv'
  BY <1>1, OperateIInv
<1>2. CASE Not
  BY <1>2, NotIInv
<1>3. CASE UNCHANGED vars
  BY <1>3 DEF vars, IInv, Result, Shaped, Alike, Twin
<1> QED  BY <1>1, <1>2, <1>3 DEF Next

LEMMA Inductive == Spec => []IInv
BY InitIInv, NextIInv, PTL DEF Spec

(* Whichever of the three implementations evaluates an expression, folding *)
(* in Reductions.cpp, the code of Compiler.cpp for known types or the      *)
(* runtime's Obscure functions, its value is the same, and none of it is   *)
(* bytes that nobody wrote: for integers of any width, any operands and    *)
(* any number of operators, until one of the listed differences is met.    *)
THEOREM ImplementationsAgree == Spec => []Agreed
<1>1. IInv => Agreed
  <2> SUFFICES ASSUME IInv, ~excused
               PROVE  ~Unspecified(compiled) /\ Plain(folded) = Plain(compiled) /\ Plain(dynamic) = Plain(compiled)
    BY DEF Agreed
  <2>1. Result(compiled) /\ Alike(folded, compiled) /\ Twin(dynamic, compiled)
    BY DEF IInv
  <2>2. ~Unspecified(compiled)
    <3>1. CASE compiled.type = CRY_SYMS
      BY <3>1, Codes DEF Unspecified
    <3>2. CASE Shaped(compiled)
      <4>1. compiled.type = CRY_BOOL => compiled.val # <<>>
        BY <3>2, Tuples DEF Shaped
      <4>2. compiled.type = CRY_INT => compiled.val # <<>>
        BY <3>2, Tuples DEF Shaped, IsInt
      <4>3. compiled.type = CRY_DOUBLE => compiled.val # <<>>
        BY <3>2, Tuples DEF Shaped, IsRatio
      <4> QED  BY <4>1, <4>2, <4>3 DEF Unspecified
    <3> QED  BY <2>1, <3>1, <3>2, NoTrap
  <2>3. Plain(folded) = Plain(compiled)
    BY <2>1, Codes DEF Alike, Plain
  <2>4. Plain(dynamic) = Plain(compiled)
    BY <2>1 DEF Twin, Plain
  <2> QED  BY <2>2, <2>3, <2>4
<1> QED  BY <1>1, Inductive, PTL

(* Evaluating an expression does not change the array that an operand was  *)
(* read from: the runtime writes through the reference in dest, or clears  *)
(* what it refers to, only in the listed differences.                      *)
THEOREM ElementsStay == Spec => []ElementsKept
<1>1. IInv => ElementsKept
  BY DEF IInv, ElementsKept
<1> QED  BY <1>1, Inductive, PTL

(***************************************************************************)
(* What values can be, in the listed differences too: bytes that nobody    *)
(* wrote, and code that was not linked, included.                          *)
(***************************************************************************)
Clean(v) ==
  v.mark = FALSE /\ (Result(v) \/ v = Unlinked \/ \E t \in {CRY_BOOL, CRY_INT, CRY_DOUBLE} : v = Unknown(t))

LEMMA CleanWell == ASSUME NEW v, NEW w, Clean(v), w.type = v.type, w.val = v.val PROVE WellFormed(w)
<1>0. v = Unlinked => v.type = CRY_SYMS
  BY DEF Unlinked, V
<1>1. CASE v.type = CRY_SYMS
  BY <1>1, Codes DEF WellFormed
<1>2. CASE \E t \in {CRY_BOOL, CRY_INT, CRY_DOUBLE} : v = Unknown(t)
  <2>1. PICK t \in {CRY_BOOL, CRY_INT, CRY_DOUBLE} : v = Unknown(t)
    BY <1>2
  <2>2. v.type = t /\ v.val = <<>>
    BY <2>1 DEF Unknown, V
  <2> QED  BY <2>1, <2>2, Codes DEF WellFormed
<1>3. CASE Shaped(v)
  <2>1. CASE v.type = CRY_BOOL
    <3>1. w.val \in {<<>>, <<0>>, <<1>>}
      BY <1>3, <2>1 DEF Shaped
    <3>2. w.type = CRY_BOOL /\ CRY_BOOL # CRY_INT /\ CRY_BOOL # CRY_DOUBLE
      BY <2>1, Codes
    <3> QED  BY <3>1, <3>2 DEF WellFormed
  <2>2. CASE v.type = CRY_INT
    <3>1. PICK n \in MinInt .. MaxInt : v.val = <<n>>
      BY <1>3, <2>2 DEF Shaped, IsInt
    <3>2. Num(w) = n
      BY <3>1, Tuples DEF Num
    <3> QED  BY <2>2, <3>2, Codes DEF WellFormed
  <2>3. CASE v.type = CRY_DOUBLE
    <3>1. PICK n \in Int, m \in Nat \ {0} : v.val = <<n, m>> /\ Lowest(n, m) = <<n, m>>
      BY <1>3, <2>3 DEF Shaped, IsRatio
    <3>2. w.val[1] = n /\ w.val[2] = m
      BY <3>1, Tuples
    <3>3. w.val = Lowest(w.val[1], w.val[2])
      BY <3>1, <3>2
    <3> QED  BY <2>3, <3>3, Codes DEF WellFormed
  <2>4. CASE v.type \notin {CRY_BOOL, CRY_INT, CRY_DOUBLE}
    BY <1>3, <2>4 DEF Shaped, Scalars, WellFormed
  <2> QED  BY <2>1, <2>2, <2>3, <2>4
<1> QED  BY <1>0, <1>1, <1>2, <1>3, NoTrap DEF Clean

LEMMA CleanResults ==
  /\ Clean(Nil) /\ Clean(Trap) /\ Clean(Unlinked) /\ \A t \in {CRY_BOOL, CRY_INT, CRY_DOUBLE} : Clean(Unknown(t))
  /\ \A n \in {0, 1} : Clean(V(CRY_BOOL, <<n>>))
  /\ \A y : IntResult(y) \/ DoubleResult(y) => Clean(y)
  /\ \A a : Clean(V(CRY_TEXT, a)) /\ Clean(StringOf(a)) /\ StringOf(a).type = CRY_STRING /\ V(CRY_TEXT, a).type = CRY_TEXT
<1>1. ASSUME NEW y, Same(y, y, y) PROVE Clean(y)
  BY <1>1 DEF Clean, Same
<1>2. Clean(Nil)
  BY <1>1, SameResults
<1>3. \A y : IntResult(y) \/ DoubleResult(y) => Clean(y)
  BY <1>1, SameResults
<1>4. Clean(Trap)
  BY <1>3 DEF IntResult
<1>5. ASSUME NEW t \in {CRY_BOOL, CRY_INT, CRY_DOUBLE} PROVE Clean(Unknown(t))
  BY ValueIs DEF Clean, Unknown
<1>6. ASSUME NEW n \in {0, 1} PROVE Clean(V(CRY_BOOL, <<n>>))
  <2>1. PICK b \in BOOLEAN : n = IF b THEN 1 ELSE 0
    <3>1. n = 0 => n = IF FALSE THEN 1 ELSE 0
      OBVIOUS
    <3>2. n = 1 => n = IF TRUE THEN 1 ELSE 0
      OBVIOUS
    <3> QED  BY <3>1, <3>2
  <2>2. Bool(b) = V(CRY_BOOL, <<n>>)
    BY <2>1 DEF Bool
  <2> QED  BY <1>1, <2>2, SameResults
<1>7. ASSUME NEW a PROVE Clean(V(CRY_TEXT, a)) /\ V(CRY_TEXT, a).type = CRY_TEXT
  <2>1. PICK y : y = V(CRY_TEXT, a)
    OBVIOUS
  <2>2. CRY_TEXT \in Scalars /\ CRY_TEXT \notin {CRY_NIL, CRY_BOOL, CRY_INT, CRY_DOUBLE}
    BY Codes
  <2>3. Shaped(y) /\ y.type = CRY_TEXT /\ y.mark = FALSE
    BY <2>1, <2>2, Makes
  <2> QED  BY <2>1, <2>3 DEF Clean, Result
<1>8. ASSUME NEW a PROVE Clean(StringOf(a)) /\ StringOf(a).type = CRY_STRING
  <2>1. PICK y : y = StringOf(a) /\ y = V(CRY_STRING, a)
    BY DEF StringOf
  <2>2. CRY_STRING \in Scalars /\ CRY_STRING \notin {CRY_NIL, CRY_BOOL, CRY_INT, CRY_DOUBLE}
    BY Codes
  <2>3. Shaped(y) /\ y.type = CRY_STRING /\ y.mark = FALSE
    BY <2>1, <2>2, Makes
  <2> QED  BY <2>1, <2>3 DEF Clean, Result
<1>9. Clean(Unlinked)
  BY ValueIs DEF Clean, Unlinked
<1> QED  BY <1>2, <1>3, <1>4, <1>5, <1>6, <1>7, <1>8, <1>9

(* Operations on what are numbers or booleans. *)
Runs(op, d, x, left) ==
  ~Textual(d, x) /\ ~OneOf(d, x, CRY_NIL) =>
    /\ Higher(d, x) = CRY_INT => Clean(Ints(op, d, x)) /\ Clean(Ints(op, x, d))
    /\ Higher(d, x) = CRY_DOUBLE /\ op # "%" =>
         /\ Clean(Doubles(op, Lhs(d, x, left), Rhs(d, x, left)))
         /\ op # "^" => Clean(Doubles(op, d, x)) /\ Clean(Doubles(op, x, d))

LEMMA Computes ==
  ASSUME NEW op \in Arithmetic, NEW f, NEW g, NEW d, NEW x, NEW e, NEW left \in BOOLEAN, Operands(f, g, d, x, e),
         Finite(op, Lhs(f, g, left), Rhs(f, g, left))
  PROVE  Runs(op, d, x, left)
<1> SUFFICES ASSUME ~Textual(d, x), ~OneOf(d, x, CRY_NIL)
             PROVE  /\ Higher(d, x) = CRY_INT => Clean(Ints(op, d, x)) /\ Clean(Ints(op, x, d))
                    /\ Higher(d, x) = CRY_DOUBLE /\ op # "%" =>
                         /\ Clean(Doubles(op, Lhs(d, x, left), Rhs(d, x, left)))
                         /\ op # "^" => Clean(Doubles(op, d, x)) /\ Clean(Doubles(op, x, d))
  BY DEF Runs
<1>1. Shaped(d) /\ Shaped(x)
  BY DEF Operands
<1>2. d.type \in {CRY_BOOL, CRY_INT, CRY_DOUBLE} /\ x.type \in {CRY_BOOL, CRY_INT, CRY_DOUBLE}
  BY <1>1 DEF Shaped, Scalars, Textual, IsText, OneOf
<1>3. Numeric(d) /\ Numeric(x)
  BY <1>1, <1>2, ShapedNumeric
<1>4. CASE Higher(d, x) = CRY_INT
  <2>1. d.type # CRY_DOUBLE /\ x.type # CRY_DOUBLE
    BY <1>1, <1>2, <1>4, HigherOf, Codes
  <2>2. Num(d) \in MinInt .. MaxInt /\ Num(x) \in MinInt .. MaxInt
    BY <1>1, <1>2, <2>1, ShapedNumeric
  <2>3. IntResult(Ints(op, d, x)) /\ IntResult(Ints(op, x, d))
    BY <2>2, IntsIs
  <2> QED  BY <1>4, <2>3, CleanResults, Codes
<1>5. CASE Higher(d, x) = CRY_DOUBLE /\ op # "%"
  <2>1. SameNumber(f, d) /\ SameNumber(g, x)
    BY Codes DEF Operands, Alike, SameNumber, Shaped
  <2>2. Num(f) = Num(d) /\ Num(g) = Num(x) /\ Denom(f) = Denom(d) /\ Denom(g) = Denom(x)
    BY <2>1 DEF SameNumber, Num, Denom
  <2>3. /\ Higher(Lhs(f, g, left), Rhs(f, g, left)) = CRY_DOUBLE
        /\ ~OneOf(Lhs(f, g, left), Rhs(f, g, left), CRY_NIL)
    BY <1>5, Views
  <2>4. op = "/" => Num(d) # 0 /\ Num(x) # 0
    BY <2>2, <2>3 DEF Finite, Lhs, Rhs
  <2>5. Defined(op, Lhs(d, x, left), Rhs(d, x, left))
    BY <2>2, <2>3, <2>4 DEF Finite, Defined, Lhs, Rhs
  <2>6. Numeric(Lhs(d, x, left)) /\ Numeric(Rhs(d, x, left))
    BY <1>3 DEF Lhs, Rhs
  <2>7. DoubleResult(Doubles(op, Lhs(d, x, left), Rhs(d, x, left)))
    BY <1>5, <2>5, <2>6, DoublesIs
  <2>8. op # "^" => Defined(op, d, x) /\ Defined(op, x, d)
    BY <2>4 DEF Defined
  <2>9. op # "^" => DoubleResult(Doubles(op, d, x)) /\ DoubleResult(Doubles(op, x, d))
    BY <1>3, <1>5, <2>8, DoublesIs
  <2> QED  BY <1>5, <2>7, <2>9, CleanResults, Codes
<1> QED  BY <1>4, <1>5

LEMMA Selects ==
  ASSUME NEW t, NEW bool, NEW int, NEW double, t = CRY_BOOL => Clean(bool), t = CRY_INT => Clean(int), t = CRY_DOUBLE => Clean(double)
  PROVE  Clean(Select(t, bool, int, double))
BY CleanResults, Codes DEF Select

LEMMA BoolClean == \A b : Clean(Bool(b))
<1> SUFFICES ASSUME NEW b PROVE Clean(Bool(b))
  OBVIOUS
<1>1. PICK n \in {0, 1} : n = IF b THEN 1 ELSE 0
  OBVIOUS
<1>2. Bool(b) = V(CRY_BOOL, <<n>>)
  BY <1>1 DEF Bool
<1> QED  BY <1>2, CleanResults

LEMMA RelatedClean == ASSUME NEW op, NEW l, NEW r PROVE Clean(Related(op, l, r))
BY BoolClean DEF Related

(* When they are folded. *)
LEMMA FoldsClean ==
  ASSUME NEW t, NEW bool, NEW int, NEW double, NEW l, NEW r, Clean(bool),
         ~Textual(l, r) /\ ~OneOf(l, r, CRY_NIL) => (t = CRY_INT => Clean(int)) /\ (t = CRY_DOUBLE => Clean(double))
  PROVE  Clean(Folds(t, bool, int, double, l, r))
<1>1. Textual(l, r) \/ OneOf(l, r, CRY_NIL) => Folds(t, bool, int, double, l, r) = Nil
  BY DEF Folds, Textual
<1>2. ~Textual(l, r) /\ ~OneOf(l, r, CRY_NIL) =>
        Folds(t, bool, int, double, l, r) \in {bool, Unknown(CRY_BOOL), Select(t, bool, int, double)}
  BY DEF Folds, Textual
<1>3. ~Textual(l, r) /\ ~OneOf(l, r, CRY_NIL) => Clean(Select(t, bool, int, double))
  BY Selects
<1> QED  BY <1>1, <1>2, <1>3, CleanResults

LEMMA ReductionClean ==
  ASSUME NEW op \in Operations, NEW f, NEW g, NEW d, NEW x, NEW e, NEW left \in BOOLEAN, Operands(f, g, d, x, e),
         Finite(op, Lhs(f, g, left), Rhs(f, g, left))
  PROVE  \E y : Reduction(op, Lhs(f, g, left), Rhs(f, g, left)) = Folded(y) /\ Clean(y)
<1>1. PICK l, r : l = Lhs(f, g, left) /\ r = Rhs(f, g, left)
  OBVIOUS
<1>2. ASSUME op \in Arithmetic, ~Textual(l, r), ~OneOf(l, r, CRY_NIL)
      PROVE  /\ Higher(l, r) = CRY_INT => Clean(Ints(op, l, r))
             /\ Higher(l, r) = CRY_DOUBLE /\ op # "%" => Clean(Doubles(op, l, r))
  <2>1. Runs(op, d, x, left)
    BY <1>2, Computes
  <2>2. Higher(l, r) = Higher(d, x) /\ ~Textual(d, x) /\ ~OneOf(d, x, CRY_NIL)
    BY <1>1, <1>2, Views
  <2>3. /\ Ints(op, l, r) = Ints(op, Lhs(d, x, left), Rhs(d, x, left))
        /\ Doubles(op, l, r) = Doubles(op, Lhs(d, x, left), Rhs(d, x, left))
    BY <1>1, SameNumbers
  <2>4. Ints(op, l, r) \in {Ints(op, d, x), Ints(op, x, d)}
    BY <2>3 DEF Lhs, Rhs
  <2> QED  BY <2>1, <2>2, <2>3, <2>4 DEF Runs
<1>3. ASSUME op \in Arithmetic \ {"%"}, NEW bool, Clean(bool) PROVE Clean(FoldsOf(op, bool, l, r))
  BY <1>2, <1>3, FoldsClean DEF FoldsOf
<1>4. CASE op = "+"
  <2>1. PICK a : a = Text(l) \o (IF IsText(l) THEN Appended(r) ELSE Text(r))
    OBVIOUS
  <2>2. Reduce_Addition(l, r) \in {V(CRY_TEXT, a), FoldsOf("+", Or(l, r), l, r)}
    BY <2>1 DEF Reduce_Addition
  <2>3. Clean(FoldsOf("+", Or(l, r), l, r))
    BY <1>3, <1>4, BoolClean DEF Or, Arithmetic
  <2>4. Reduction(op, l, r) = Folded(Reduce_Addition(l, r))
    BY <1>4 DEF Reduction
  <2> QED  BY <1>1, <2>2, <2>3, <2>4, CleanResults
<1>5. CASE op \in {"-", "*", "^"}
  <2>1. PICK bool : bool = IF op = "-" THEN Xor(l, r) ELSE Equal(l, r)
    OBVIOUS
  <2>2. Clean(bool)
    BY <2>1, BoolClean DEF Xor, Equal
  <2>3. Clean(FoldsOf(op, bool, l, r))
    BY <1>3, <1>5, <2>2 DEF Arithmetic
  <2>4. Reduction(op, l, r) = Folded(FoldsOf(op, bool, l, r))
    BY <1>5, <2>1 DEF Reduction, Reduce_Subtraction, Reduce_Multiplication, Reduce_Power
  <2> QED  BY <1>1, <2>3, <2>4
<1>6. CASE op = "/"
  <2>1. Clean(FoldsOf("/", Nil, l, r))
    BY <1>3, <1>6, CleanResults DEF Arithmetic
  <2>2. Reduction(op, l, r) = Folded(FoldsOf("/", Nil, l, r))
    BY <1>6 DEF Reduction, Reduce_Division
  <2> QED  BY <1>1, <2>1, <2>2
<1>7. CASE op = "%"
  <2>1. PICK y : y = Folds(Higher(l, r), Nil, Ints("%", l, r), Nil, l, r)
    OBVIOUS
  <2>2. Clean(y)
    BY <1>2, <1>7, <2>1, FoldsClean, CleanResults DEF Arithmetic
  <2>3. Reduction(op, l, r) = Folded(y)
    BY <1>7, <2>1 DEF Reduction, Reduce_Modulo
  <2> QED  BY <1>1, <2>2, <2>3
<1>8. CASE op \in {"==", "!="}
  <2>1. PICK y : y = IF op = "==" THEN Reduce_Equal(l, r) ELSE Reduce_Diffrence(l, r)
    OBVIOUS
  <2>2. Clean(y)
    BY <2>1, BoolClean, CleanResults DEF Reduce_Equal, Reduce_Diffrence
  <2>3. Reduction(op, l, r) = Folded(y)
    BY <1>8, <2>1 DEF Reduction
  <2> QED  BY <1>1, <2>2, <2>3
<1>9. CASE op \in {"&&", "||"}
  <2>1. \A s : Clean(Fold_Logic(s))
    BY BoolClean, CleanResults DEF Fold_Logic
  <2>2. PICK y : y = IF op = "&&" THEN Reduce_And(l, r) ELSE Reduce_Or(l, r)
    OBVIOUS
  <2>3. Clean(y)
    <3>1. Clean(Reduce_And(l, r))
      BY <2>1 DEF Reduce_And
    <3>2. Clean(Reduce_Or(l, r))
      BY <2>1 DEF Reduce_Or
    <3> QED  BY <2>2, <3>1, <3>2
  <2>4. Reduction(op, l, r) = Folded(y)
    BY <1>9, <2>2 DEF Reduction
  <2> QED  BY <1>1, <2>3, <2>4
<1>10. CASE op \in Comparisons
  <2>1. Clean(Reduce_Order(op, l, r))
    BY RelatedClean, CleanResults DEF Reduce_Order
  <2>2. Reduction(op, l, r) = Folded(Reduce_Order(op, l, r))
    BY <1>10 DEF Reduction, Comparisons
  <2> QED  BY <1>1, <2>1, <2>2
<1> QED  BY <1>4, <1>5, <1>6, <1>7, <1>8, <1>9, <1>10 DEF Operations, Arithmetic

(* The result of a fold differs in its mark at most. *)
LEMMA FoldedWell == ASSUME NEW y, Clean(y) PROVE WellFormed(Folded(y))
<1>1. y = [type |-> y.type, val |-> y.val, mark |-> FALSE]
  <2>1. CASE Shaped(y)
    BY <2>1 DEF Clean, Shaped
  <2>2. CASE \E t, a : y = V(t, a)
    <3>1. PICK t, a : y = V(t, a)
      BY <2>2
    <3> QED  BY <3>1 DEF V
  <2> QED  BY <2>1, <2>2 DEF Clean, Result, Trap, Unknown, Unlinked
<1>2. PICK p : p = Folded(y)
  OBVIOUS
<1>3. p.type = y.type /\ p.val = y.val
  <2>1. PICK a, b : y = [type |-> a, val |-> b, mark |-> FALSE] /\ a = y.type /\ b = y.val
    BY <1>1
  <2>2. p = y \/ p = [[type |-> a, val |-> b, mark |-> FALSE] EXCEPT !.mark = TRUE]
    BY <1>2, <2>1 DEF Folded, Marked
  <2>3. p = y \/ p = [type |-> a, val |-> b, mark |-> TRUE]
    BY <2>2
  <2> QED  BY <2>1, <2>3
<1> QED  BY <1>2, <1>3, CleanWell

(* In static code; only ^ keeps the order of its operands on doubles. *)
LEMMA CodedClean ==
  ASSUME NEW op, NEW bool, NEW d, NEW x, Shaped(d), Shaped(x), NEW left \in BOOLEAN, NEW way \in BOOLEAN, Runs(op, d, x, left),
         Clean(bool), op = "%" => Higher(d, x) = CRY_INT, op = "^" => way = left
  PROVE  Clean(Coded(op, bool, d, x, way)) /\ (op # "^" => Clean(CodedC(op, d, x, way)))
<1>1. PICK i, w : i = Ints(op, Lhs(d, x, way), Rhs(d, x, way)) /\ w = Doubles(op, Lhs(d, x, way), Rhs(d, x, way))
  OBVIOUS
<1>2. Textual(d, x) => Higher(d, x) \notin {CRY_BOOL, CRY_INT, CRY_DOUBLE}
  BY HigherOf, Codes
<1>3. ~Textual(d, x) /\ ~OneOf(d, x, CRY_NIL) =>
        (Higher(d, x) = CRY_INT => Clean(i)) /\ (Higher(d, x) = CRY_DOUBLE => Clean(w))
  <2>1. i \in {Ints(op, d, x), Ints(op, x, d)}
    BY <1>1 DEF Lhs, Rhs
  <2>2. op # "^" => w \in {Doubles(op, d, x), Doubles(op, x, d)}
    BY <1>1 DEF Lhs, Rhs
  <2>3. op = "^" => w = Doubles(op, Lhs(d, x, left), Rhs(d, x, left))
    BY <1>1
  <2>4. Higher(d, x) = CRY_DOUBLE => op # "%"
    BY Codes
  <2> QED  BY <2>1, <2>2, <2>3, <2>4 DEF Runs
<1>4. ASSUME NEW b, Clean(b) PROVE Clean(Coded(op, b, d, x, way))
  <2>1. ~OneOf(d, x, CRY_NIL) => Clean(Select(Higher(d, x), b, i, w))
    BY <1>2, <1>3, <1>4, Selects
  <2> QED  BY <1>1, <2>1, CleanResults DEF Coded
<1>5. Chance(d, x) => Higher(d, x) \in {CRY_BOOL, CRY_INT, CRY_DOUBLE}
  BY HigherOf, Codes DEF Chance, Of
<1>6. Clean(CodedC(op, d, x, way))
  BY <1>4, <1>5, CleanResults DEF CodedC
<1> QED  BY <1>4, <1>6

LEMMA JoinedClean == ASSUME NEW d, NEW x, NEW left PROVE Clean(Joined(d, x, left))
BY CleanResults DEF Joined

LEMMA StaticClean ==
  ASSUME NEW op \in Operations, NEW d, NEW x, NEW const, NEW left \in BOOLEAN, Shaped(d), Shaped(x),
         op \in Arithmetic => Runs(op, d, x, left)
  PROVE  Clean(Static(op, d, x, const, left))
<1>1. PICK c : c = Static(op, d, x, const, left)
  OBVIOUS
<1>2. CASE op = "+"
  <2>1. Clean(Coded("+", Or(d, x), d, x, left)) /\ Clean(CodedC("+", d, x, left))
    BY <1>2, CodedClean, BoolClean DEF Or, Arithmetic
  <2>2. Clean(AddC(d, x, left))
    BY <2>1, JoinedClean, CleanResults DEF AddC
  <2>3. Clean(Add(d, x, left))
    BY <2>1, JoinedClean DEF Add
  <2>4. c = AddC(d, x, left) \/ c = Add(d, x, left)
    BY <1>1, <1>2 DEF Static
  <2> QED  BY <1>1, <2>2, <2>3, <2>4
<1>3. CASE op \in {"-", "*"}
  <2>1. PICK bool : bool = IF op = "-" THEN And(d, x) ELSE Or(d, x)
    OBVIOUS
  <2>2. Clean(bool)
    BY <2>1, BoolClean DEF Or, And
  <2>3. Clean(Coded(op, bool, d, x, left)) /\ Clean(CodedC(op, d, x, left))
    BY <1>3, <2>2, CodedClean DEF Arithmetic
  <2>4. c = Coded(op, bool, d, x, left) \/ c = CodedC(op, d, x, left)
    BY <1>1, <1>3, <2>1 DEF Static, Sub, SubC, Mul, MulC
  <2> QED  BY <1>1, <2>3, <2>4
<1>4. CASE op = "/"
  <2>1. \A way \in BOOLEAN : Clean(Coded("/", Nil, d, x, way)) /\ Clean(CodedC("/", d, x, way))
    BY <1>4, CodedClean, CleanResults DEF Arithmetic
  <2>2. c = DivC(d, x, left) \/ c = Div(d, x, left)
    BY <1>1, <1>4 DEF Static
  <2>3. Clean(DivC(d, x, left)) /\ Clean(Div(d, x, left))
    BY <2>1, CleanResults DEF Div, DivC
  <2> QED  BY <1>1, <2>2, <2>3
<1>5. CASE op = "%"
  <2>1. Higher(d, x) = CRY_INT => Clean(Coded("%", Nil, d, x, left)) /\ Clean(CodedC("%", d, x, left))
    BY <1>5, CodedClean, CleanResults DEF Arithmetic
  <2>2. c = ModC(d, x, left) \/ c = Mod(d, x, left)
    BY <1>1, <1>5 DEF Static
  <2>3. Clean(ModC(d, x, left)) /\ Clean(Mod(d, x, left))
    BY <2>1, CleanResults DEF Mod, ModC
  <2> QED  BY <1>1, <2>2, <2>3
<1>6. CASE op = "^"
  <2>1. Clean(Coded("^", Nil, d, x, left)) /\ Clean(Coded("^", Or(d, x), d, x, left))
    BY <1>6, CodedClean, CleanResults, BoolClean DEF Arithmetic, Or
  <2>2. c = PowC(d, x, left) \/ c = Pow(d, x, left)
    BY <1>1, <1>6 DEF Static
  <2>3. Clean(x)
    BY DEF Clean, Result, Shaped
  <2>4. Clean(PowC(d, x, left)) /\ Clean(Pow(d, x, left))
    BY <2>1, <2>3, CleanResults DEF Pow, PowC
  <2> QED  BY <1>1, <2>2, <2>4
<1>7. CASE op \in {"==", "!="}
  <2>1. Clean(EqlC(d, x)) /\ Clean(Eql(d, x)) /\ Clean(DifC(d, x)) /\ Clean(Dif(d, x))
    BY BoolClean DEF Eql, EqlC, Dif, DifC
  <2>2. c \in {EqlC(d, x), Eql(d, x), DifC(d, x), Dif(d, x)}
    BY <1>1, <1>7 DEF Static
  <2> QED  BY <1>1, <2>1, <2>2
<1>8. CASE op \in {"&&", "||"}
  BY <1>1, <1>8, CleanResults DEF Static, Logic
<1>9. CASE op \in Comparisons
  <2>1. \A a, b : Clean(Compared(a, b, d, x, const, left))
    BY RelatedClean, CleanResults DEF Compared
  <2>2. \E a, b : c = Compared(a, b, d, x, const, left)
    BY <1>1, <1>9 DEF Static, Comparisons, Les, LesEql, Gtr, GtrEql
  <2> QED  BY <1>1, <2>1, <2>2
<1> QED  BY <1>2, <1>3, <1>4, <1>5, <1>6, <1>7, <1>8, <1>9 DEF Operations, Arithmetic

(* In the runtime. *)
LEMMA ObscuredClean ==
  ASSUME NEW d, NEW x, NEW raw, NEW bool, NEW int, NEW double, Shaped(d), Shaped(x), Clean(bool),
         ~Textual(d, x) /\ ~OneOf(d, x, CRY_NIL) =>
           (Higher(d, x) = CRY_INT => Clean(int)) /\ (Higher(d, x) = CRY_DOUBLE => Clean(double))
  PROVE  Clean(Obscured(d, x, raw, bool, int, double))
<1>1. PICK t : t = Higher(d, x) /\ (Textual(d, x) => t \notin {CRY_BOOL, CRY_INT, CRY_DOUBLE})
  BY HigherOf, Codes
<1>2. ~OneOf(d, x, CRY_NIL) => Clean(Select(t, bool, int, double))
  BY <1>1, Selects
<1>3. PICK b : b = IF bool = Nil THEN Nil ELSE Unknown(CRY_BOOL)
  OBVIOUS
<1>4. Clean(b)
  BY <1>3, CleanResults
<1>5. Clean(Select(t, b, Unknown(CRY_INT), Unknown(CRY_DOUBLE)))
  BY <1>4, Selects, CleanResults
<1>6. Obscured(d, x, raw, bool, int, double) = IF raw THEN Nil
        ELSE IF OneOf(d, x, CRY_NIL) THEN Select(t, b, Unknown(CRY_INT), Unknown(CRY_DOUBLE))
        ELSE Select(t, bool, int, double)
  BY <1>1, <1>3 DEF Obscured
<1> QED  BY <1>2, <1>5, <1>6, CleanResults

LEMMA AdditionClean ==
  ASSUME NEW d, NEW x, NEW ref, Shaped(d), Shaped(x), NEW left \in BOOLEAN, Runs("+", d, x, left)
  PROVE  Clean(Obscure_Addition(d, x, ref)) /\ Clean(Obscure_AdditionR(d, x))
<1>1. Clean(d)
  BY DEF Clean, Result, Shaped
<1>2. CASE Textual(d, x) \/ OneOf(d, x, CRY_NIL)
  BY <1>2, JoinedClean, CleanResults DEF Obscure_Addition, Obscure_AdditionR, Textual
<1>3. CASE ~Textual(d, x) /\ ~OneOf(d, x, CRY_NIL)
  <2>1. PICK t : t = Higher(d, x)
    OBVIOUS
  <2>2. /\ t = CRY_INT => Clean(Ints("+", d, x)) /\ Clean(Ints("+", x, d))
        /\ t = CRY_DOUBLE => Clean(Doubles("+", d, x)) /\ Clean(Doubles("+", x, d))
    BY <1>3, <2>1 DEF Runs
  <2>3. Clean(Or(d, x))
    BY BoolClean DEF Or
  <2>4. Clean(Select(t, Or(d, x), Ints("+", d, x), Doubles("+", d, x)))
    BY <2>2, <2>3, Selects
  <2>5. Clean(Select(t, Or(d, x), Ints("+", x, d), Doubles("+", x, d)))
    BY <2>2, <2>3, Selects
  <2>6. Obscure_AdditionR(d, x) = Select(t, Or(d, x), Ints("+", x, d), Doubles("+", x, d))
    BY <1>3, <2>1 DEF Obscure_AdditionR, Textual
  <2>7. Obscure_Addition(d, x, ref) \in
          {Unknown(CRY_INT), d, Unknown(CRY_DOUBLE), Select(t, Or(d, x), Ints("+", d, x), Doubles("+", d, x))}
    BY <1>3, <2>1 DEF Obscure_Addition, Textual
  <2> QED  BY <1>1, <2>4, <2>5, <2>6, <2>7, CleanResults
<1> QED  BY <1>2, <1>3

LEMMA ObscureClean ==
  ASSUME NEW op \in Operations, NEW d, NEW x, NEW left \in BOOLEAN, NEW raw, NEW ref, Shaped(d), Shaped(x),
         op \in Arithmetic => Runs(op, d, x, left)
  PROVE  Clean(Obscure(op, d, x, left, raw, ref))
<1>1. PICK z : z = Obscure(op, d, x, left, raw, ref)
  OBVIOUS
<1>2. CASE op = "+"
  <2>1. z = Obscure_Addition(d, x, ref) \/ z = Obscure_AdditionR(d, x)
    BY <1>1, <1>2 DEF Obscure
  <2>2. Runs("+", d, x, left)
    BY <1>2 DEF Arithmetic
  <2> QED  BY <1>1, <2>1, <2>2, AdditionClean
<1>3. CASE op \in {"-", "*", "/", "%", "^"}
  <2>1. Runs(op, d, x, left)
    BY <1>3 DEF Arithmetic
  <2>2. PICK bool, int, double :
          /\ bool = (CASE op = "-" -> (IF left THEN And(d, x) ELSE Xor(d, x)) [] op = "*" -> Equal(d, x)
                       [] op = "^" -> Xor(d, x) [] OTHER -> Nil)
          /\ int = (CASE op = "-" -> (IF left THEN Ints("-", d, x) ELSE Ints("-", x, d)) [] op = "*" -> Ints("*", d, x)
                      [] op = "/" -> (IF left THEN Ints("/", d, x) ELSE Ints("/", x, d))
                      [] op = "%" -> (IF left THEN IF ref THEN Unknown(CRY_INT) ELSE Ints("%", d, x) ELSE Ints("%", x, d))
                      [] op = "^" -> IF left THEN PowerInts(d, x) ELSE PowerInts(x, d))
          /\ double = (CASE op = "-" -> (IF left THEN InPlace(d, ref, Doubles("-", d, x)) ELSE Doubles("-", x, d))
                         [] op = "*" -> InPlace(d, ref, Doubles("*", d, x))
                         [] op = "/" -> (IF left THEN InPlace(d, ref, Doubles("/", d, x)) ELSE Reversed(d, x, Doubles("/", x, d)))
                         [] op = "%" -> Nil
                         [] op = "^" -> IF left THEN Doubles("^", d, x) ELSE Reversed(d, x, Doubles("^", x, d)))
    OBVIOUS
  <2>3. z = Obscured(d, x, raw, bool, int, double) \/ (op = "%" /\ z = Nil)
    BY <1>1, <1>3, <2>2 DEF Obscure, Obscure_Subtraction, Obscure_SubtractionR, Obscure_Multiplication, Obscure_Division,
       Obscure_DivisionR, Obscure_Modulo, Obscure_ModuloR, Obscure_Power, Obscure_PowerR
  <2>4. Clean(bool)
    BY <2>2, BoolClean, CleanResults DEF And, Xor, Equal
  <2>5. Clean(IntOf(1))
    BY WrapIs, CleanResults DEF IntResult
  <2>6. ASSUME ~Textual(d, x), ~OneOf(d, x, CRY_NIL), Higher(d, x) = CRY_INT PROVE Clean(int)
    <3>1. Clean(Ints(op, d, x)) /\ Clean(Ints(op, x, d))
      BY <2>1, <2>6 DEF Runs
    <3>2. int \in {Ints(op, d, x), Ints(op, x, d), Unknown(CRY_INT), IntOf(1)}
      BY <1>3, <2>2 DEF PowerInts
    <3> QED  BY <2>5, <3>1, <3>2, CleanResults
  <2>7. ASSUME ~Textual(d, x), ~OneOf(d, x, CRY_NIL), Higher(d, x) = CRY_DOUBLE PROVE Clean(double)
    <3>1. op # "%" => Clean(Doubles(op, Lhs(d, x, left), Rhs(d, x, left)))
      BY <2>1, <2>7 DEF Runs
    <3>2. op \notin {"%", "^"} => Clean(Doubles(op, d, x)) /\ Clean(Doubles(op, x, d))
      BY <2>1, <2>7 DEF Runs
    <3>3. CASE op \in {"-", "*", "/"}
      <4>1. double \in {Doubles(op, d, x), Doubles(op, x, d), Unknown(CRY_DOUBLE)}
        BY <2>2, <3>3 DEF InPlace, Reversed
      <4> QED  BY <3>2, <3>3, <4>1, CleanResults
    <3>4. CASE op = "%"
      BY <2>2, <3>4, CleanResults
    <3>5. CASE op = "^"
      <4>1. double \in {Doubles(op, Lhs(d, x, left), Rhs(d, x, left)), Unknown(CRY_DOUBLE)}
        BY <2>2, <3>5 DEF Reversed, Lhs, Rhs
      <4> QED  BY <3>1, <3>5, <4>1, CleanResults
    <3> QED  BY <1>3, <3>3, <3>4, <3>5
  <2>8. Clean(Obscured(d, x, raw, bool, int, double))
    BY <2>4, <2>6, <2>7, ObscuredClean
  <2> QED  BY <1>1, <2>3, <2>8, CleanResults
<1>4. CASE op \in {"==", "!="}
  <2>1. z \in {Crystal_Compare(d, x), Obscure_Diffrence(d, x)}
    BY <1>1, <1>4 DEF Obscure
  <2> QED  BY <1>1, <2>1, BoolClean DEF Crystal_Compare, Obscure_Diffrence
<1>5. CASE op \in {"&&", "||"}
  BY <1>1, <1>5, CleanResults DEF Obscure, Logic
<1>6. CASE op \in Comparisons
  <2>1. PICK a : z = Obscure_Order(a, d, x)
    BY <1>1, <1>6 DEF Obscure, Comparisons
  <2> QED  BY <1>1, <2>1, RelatedClean, CleanResults DEF Obscure_Order
<1> QED  BY <1>2, <1>3, <1>4, <1>5, <1>6 DEF Operations, Arithmetic

LEMMA ElementClean ==
  ASSUME NEW op \in Operations, NEW d, NEW x, NEW left \in BOOLEAN, NEW raw, Shaped(d), Shaped(x),
         op \in Arithmetic => Runs(op, d, x, left)
  PROVE  Clean(ElementAfter(op, d, x, left, raw))
<1>1. PICK z : z = ElementAfter(op, d, x, left, raw)
  OBVIOUS
<1>2. Clean(d)
  BY DEF Clean, Result, Shaped
<1>3. CASE op = "+"
  <2>1. Runs("+", d, x, left)
    BY <1>3 DEF Arithmetic
  <2>2. Clean(Obscure_Addition(d, x, TRUE))
    BY <2>1, AdditionClean
  <2>3. Higher(d, x) = CRY_INT => ~Textual(d, x)
    BY HigherOf, Codes
  <2>4. Higher(d, x) = CRY_INT /\ ~OneOf(d, x, CRY_NIL) => Clean(Ints("+", d, x))
    BY <2>1, <2>3 DEF Runs
  <2>5. \/ z = Obscure_Addition(d, x, TRUE) \/ z = d
        \/ Higher(d, x) = CRY_INT /\ ~OneOf(d, x, CRY_NIL) /\ z = Ints("+", d, x)
    BY <1>1, <1>3 DEF ElementAfter
  <2> QED  BY <1>1, <1>2, <2>2, <2>4, <2>5
<1>4. CASE op # "+"
  <2>1. z \in {Nil, d}
    BY <1>1, <1>4 DEF ElementAfter
  <2> QED  BY <1>1, <1>2, <2>1, CleanResults
<1> QED  BY <1>3, <1>4

(* What a step leaves in the variables. *)
Step(p, c, z, m) == WellFormed(p) /\ Clean(c) /\ Clean(z) /\ (m # element => Clean(m))

LEMMA StepTyped ==
  ASSUME TypeOK, Step(folded', compiled', dynamic', element'), origin' = origin,
         refers' \in BOOLEAN, excused' \in BOOLEAN, count' \in 0 .. MaxOperators
  PROVE  TypeOK'
<1>1. PICK p, c, z, m : p = folded' /\ c = compiled' /\ z = dynamic' /\ m = element'
  OBVIOUS
<1>2. WellFormed(p) /\ Clean(c) /\ Clean(z) /\ (m # element => Clean(m))
  BY <1>1 DEF Step
<1>3. WellFormed(c) /\ ~c.mark
  BY <1>2, CleanWell DEF Clean
<1>4. WellFormed(z) /\ ~z.mark
  BY <1>2, CleanWell DEF Clean
<1>5. WellFormed(m) /\ ~m.mark
  <2>1. CASE m = element
    BY <2>1 DEF TypeOK
  <2>2. CASE m # element
    BY <1>2, <2>2, CleanWell DEF Clean
  <2> QED  BY <2>1, <2>2
<1>6. WellFormed(origin)
  BY DEF TypeOK
<1>7. WellFormed(folded') /\ WellFormed(compiled') /\ WellFormed(dynamic') /\ WellFormed(element') /\ WellFormed(origin')
  BY <1>1, <1>2, <1>3, <1>4, <1>5, <1>6
<1>8. ~dynamic'.mark /\ ~element'.mark /\ ~compiled'.mark
  BY <1>1, <1>3, <1>4, <1>5
<1> QED  BY <1>7, <1>8 DEF TypeOK, WellFormed, Of, Num

LEMMA OperateTyped ==
  ASSUME IInv, TypeOK, NEW op \in Operations, NEW x \in Values, NEW how \in {"constant", "symbol", "element"}, NEW left \in BOOLEAN,
         Operate(op, x, how, left)
  PROVE  TypeOK'
<1>1. PICK f, g, d, e, ref, raw :
        /\ f = folded /\ g = V(Plain(x).type, x.val) /\ d = compiled /\ e = dynamic /\ ref = refers /\ raw = Raw(e, x, how, ref)
  OBVIOUS
<1>2. raw = ((Of(dynamic, CRY_NIL) /\ ~refers) \/ (Of(x, CRY_NIL) /\ how # "element"))
  BY <1>1 DEF Raw
<1>3. /\ folded' = Reduction(op, Lhs(f, g, left), Rhs(f, g, left))
      /\ compiled' = Static(op, d, x, how = "constant", left)
      /\ dynamic' = Obscure(op, e, x, left, raw, ref)
  BY <1>1, <1>2 DEF Operate
<1>4. /\ element' = IF ref THEN ElementAfter(op, e, x, left, raw) ELSE element
      /\ refers' = (ref /\ Missed(op, e, x, left, raw))
      /\ excused' = Differs(op, d, x, how, left, ref) /\ origin' = origin
  BY <1>1, <1>2 DEF Operate
<1>5. /\ ~excused /\ d.type # CRY_SYMS /\ Finite(op, Lhs(f, g, left), Rhs(f, g, left))
      /\ count < MaxOperators /\ count' = count + 1
  BY <1>1 DEF Operate, Of
<1>6. ref \in BOOLEAN /\ Result(d) /\ Alike(f, d) /\ Twin(e, d)
  BY <1>1, <1>5 DEF IInv
<1>7. Shaped(d) /\ Shaped(x)
  BY <1>5, <1>6, NoTrap, Operand
<1>8. Operands(f, g, d, x, e)
  BY <1>1, <1>6, <1>7, PlainOperand DEF Operands
<1>9. Shaped(e) /\ Operands(f, g, e, x, e)
  <2>1. e.type = d.type /\ e.val = d.val /\ e.mark = FALSE /\ e = [type |-> e.type, val |-> e.val, mark |-> FALSE]
    BY <1>6 DEF Twin
  <2>2. Shaped(e) /\ Twin(e, e)
    BY <1>7, <2>1 DEF Shaped, Twin
  <2> QED  BY <1>8, <2>1, <2>2 DEF Operands, Alike
<1>10. op \in Arithmetic => Runs(op, d, x, left) /\ Runs(op, e, x, left)
  BY <1>5, <1>8, <1>9, Computes
<1>11. WellFormed(folded')
  <2>1. PICK y : Reduction(op, Lhs(f, g, left), Rhs(f, g, left)) = Folded(y) /\ Clean(y)
    BY <1>5, <1>8, ReductionClean
  <2> QED  BY <1>3, <2>1, FoldedWell DEF WellFormed, Num
<1>12. PICK c, z, m : /\ c = compiled' /\ z = dynamic' /\ m = element'
                      /\ c = Static(op, d, x, how = "constant", left) /\ z = Obscure(op, e, x, left, raw, ref)
                      /\ m = IF ref THEN ElementAfter(op, e, x, left, raw) ELSE element
  BY <1>3, <1>4
<1>13. Clean(c)
  BY <1>7, <1>10, <1>12, StaticClean
<1>14. Clean(z)
  BY <1>7, <1>9, <1>10, <1>12, ObscureClean
<1>15. m # element => Clean(m)
  BY <1>7, <1>9, <1>10, <1>12, ElementClean
<1>16. Step(folded', compiled', dynamic', element')
  BY <1>11, <1>12, <1>13, <1>14, <1>15 DEF Step
<1>17. refers' \in BOOLEAN /\ excused' \in BOOLEAN
  BY <1>4, <1>6 DEF Differs, Missed
<1>18. count' \in 0 .. MaxOperators
  BY <1>5, OperatorsAssumption DEF TypeOK
<1> QED  BY <1>4, <1>16, <1>17, <1>18, StepTyped

LEMMA NotTyped == ASSUME IInv, TypeOK, Not PROVE TypeOK'
<1>1. PICK f, d, e, ref : f = folded /\ d = compiled /\ e = dynamic /\ ref = refers
  OBVIOUS
<1>2. /\ folded' = Folded(Reduce_Not(f)) /\ compiled' = Obscure_Not(d, FALSE) /\ dynamic' = Obscure_Not(e, ref)
      /\ refers' = FALSE /\ excused' = (ref \/ Of(d, CRY_DOUBLE) \/ Of(d, CRY_STRING)) /\ element' = element /\ origin' = origin
      /\ ~excused /\ count < MaxOperators /\ count' = count + 1
  BY <1>1 DEF Not
<1>3. ref \in BOOLEAN
  BY <1>1 DEF IInv
<1>4. Clean(Reduce_Not(f))
  BY BoolClean, CleanResults DEF Reduce_Not
<1>5. \A v, b : Clean(Obscure_Not(v, b))
  BY BoolClean, CleanResults DEF Obscure_Not
<1>6. Step(folded', compiled', dynamic', element')
  <2>1. PICK p, c, z, m : p = folded' /\ c = compiled' /\ z = dynamic' /\ m = element'
    OBVIOUS
  <2>2. WellFormed(p) /\ Clean(c) /\ Clean(z) /\ m = element
    BY <1>2, <1>4, <1>5, <2>1, FoldedWell
  <2> QED  BY <2>1, <2>2 DEF Step, WellFormed, Num
<1>7. refers' \in BOOLEAN /\ excused' \in BOOLEAN
  BY <1>2, <1>3 DEF Of
<1>8. count' \in 0 .. MaxOperators
  BY <1>2, OperatorsAssumption DEF TypeOK
<1> QED  BY <1>2, <1>6, <1>7, <1>8, StepTyped

LEMMA InitTyped == Init => TypeOK
<1> SUFFICES ASSUME Init PROVE TypeOK
  OBVIOUS
<1>1. PICK v \in Values : folded = V(Plain(v).type, v.val) /\ compiled = v /\ dynamic = v /\ element = v /\ origin = v
  BY DEF Init
<1>2. refers \in BOOLEAN /\ excused = FALSE /\ count \in 0 .. MaxOperators
  BY OperatorsAssumption DEF Init
<1>3. Shaped(v) /\ v.mark = FALSE
  BY Operand
<1>4. Clean(v) /\ WellFormed(v)
  BY <1>3, CleanWell DEF Clean, Result
<1>5. Alike(folded, v)
  BY <1>1, <1>3, PlainOperand
<1>6. WellFormed(folded)
  <2>1. CASE v.type = CRY_STRING
    <3>1. folded.type = CRY_TEXT
      BY <1>5, <2>1 DEF Alike
    <3> QED  BY <3>1, Codes DEF WellFormed
  <2>2. CASE v.type # CRY_STRING
    BY <1>4, <1>5, <2>2, CleanWell DEF Alike
  <2> QED  BY <2>1, <2>2
<1> QED  BY <1>1, <1>2, <1>3, <1>4, <1>6 DEF TypeOK

LEMMA NextTyped == IInv /\ TypeOK /\ [Next]_vars => TypeOK'
<1> SUFFICES ASSUME IInv, TypeOK, [Next]_vars PROVE TypeOK'
  OBVIOUS
<1>1. ASSUME NEW op \in Operations, NEW x \in Values, NEW how \in {"constant", "symbol", "element"}, NEW left \in BOOLEAN,
             Operate(op, x, how, left)
      PROVE  TypeOK'
  BY <1>1, OperateTyped
<1>2. CASE Not
  BY <1>2, NotTyped
<1>3. CASE UNCHANGED vars
  BY <1>3 DEF vars, TypeOK, WellFormed, Num, Of
<1> QED  BY <1>1, <1>2, <1>3 DEF Next

(* Whatever is evaluated, on the excused paths too: integers fit their     *)
(* width, fractions are in lowest terms, and only a folded value keeps a   *)
(* token that is not its text.                                             *)
THEOREM TypeCorrect == Spec => []TypeOK
BY Inductive, InitTyped, NextTyped, PTL DEF Spec
=============================================================================
