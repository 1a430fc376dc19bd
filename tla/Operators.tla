-------------------------------- MODULE Operators --------------------------------
(***************************************************************************)
(* The three implementations of the operators.  An operator on constants   *)
(* is folded while the syntax tree is reduced (Reductions.cpp); on symbols *)
(* of known types the compiler emits code for these types (the static half *)
(* of Add ... GtrEqlC in Compiler.cpp); on all others it emits a call of   *)
(* the runtime (Obscure.cpp).  Which one runs depends on what the compiler *)
(* happens to know, so they should agree.                                  *)
(*                                                                         *)
(* A program evaluates one expression, operator by operator, in the three  *)
(* ways at once.  The accumulator is the register that holds the result so *)
(* far: dest.  The other operand x, source, is a constant (the methods     *)
(* whose names end in C), a symbol of known type, or, for the runtime, an  *)
(* element of an array; left says that dest is the left operand.           *)
(*                                                                         *)
(* Integers have Width bits.  Doubles are fractions in lowest terms:       *)
(* rounding, infinities and irrational powers are left out.  A text is the *)
(* sequence of values it is the text of.  The upper bytes of a boolean     *)
(* symbol are zero.                                                        *)
(***************************************************************************)
EXTENDS ClarityFilter, Sequences

CONSTANTS
  Width,          (* bits of an integer, 32 in the program                  *)
  Integer,        (* the integers, doubles (pairs: numerator, denominator)  *)
  Fractions,      (* and texts (numbers) that operands are chosen from      *)
  Texts,
  MaxOperators    (* bound on the operators of the expression               *)

MaxInt == 2 ^ (Width - 1) - 1
MinInt == -MaxInt - 1

ASSUME OperatorsAssumption ==
  /\ Width \in Nat \ {0, 1} /\ MaxOperators \in Nat
  /\ Integer \subseteq MinInt .. MaxInt /\ Texts \subseteq Nat
  /\ Fractions \subseteq (Int \ {0}) \X (Nat \ {0})

(* Facts of arithmetic that the proofs need, for the powers that operands  *)
(* can have: the prover knows nothing of them.                             *)
ASSUME PowersAssumption ==
  /\ 2 ^ (Width - 1) \in Nat \ {0, 1} /\ 2 ^ Width = 2 * 2 ^ (Width - 1)
  /\ \A a \in MinInt .. MaxInt, n \in 2 .. MaxInt : a ^ n \in Int
  /\ \A a \in 1 .. 2 ^ Width, n \in 0 .. Width : a ^ n \in Nat \ {0} /\ (-a) ^ n \in Int \ {0}

VARIABLES
  folded, compiled, dynamic,  (* the value of dest, each way                *)
  element,    (* dynamic: the element that dest was read from,              *)
  origin,     (* what it was at that time,                                  *)
  refers,     (* and whether dest still refers to it                        *)
  excused,    (* an operator was used that is known to differ               *)
  count       (* operators evaluated                                        *)

vars == <<folded, compiled, dynamic, element, origin, refers, excused, count>>
-----------------------------------------------------------------------------
(* Values.  mark is set in a folded value whose str is not its text but    *)
(* still the operator's token.                                             *)
V(t, x) == [type |-> t, val |-> x, mark |-> FALSE]

(* Contents that the code leaves to chance.                                *)
Unknown(t)     == V(t, <<>>)
Unspecified(v) == v.type \in {CRY_BOOL, CRY_INT, CRY_DOUBLE} /\ v.val = <<>>

Nil     == V(CRY_NIL, <<>>)
Trap    == V(CRY_SYMS, <<>>)

(* A call of a helper that Crystal_Library does not register, or a load    *)
(* from a pool that the linker is not given: the code keeps address 0, or  *)
(* gets that of the byte before the program, and ends there.               *)
Unlinked == V(CRY_SYMS, <<0>>)

Bool(b) == V(CRY_BOOL, <<IF b THEN 1 ELSE 0>>)

(* Faulty: the integers of the model do not overflow.                      *)
Wrap_none(n) == n

Wrap(n) == ((n - MinInt) % (2 ^ Width)) + MinInt
IntOf(n) == V(CRY_INT, <<Wrap(n)>>)

Lowest(n, d) ==
  LET g == Max({k \in 1 .. d : n % k = 0 /\ d % k = 0}) IN <<n \div g, d \div g>>
Double(n, d) == V(CRY_DOUBLE, IF d < 0 THEN Lowest(-n, -d) ELSE Lowest(n, d))

(* Conversion of a number or a boolean to double.                          *)
Num(v)   == v.val[1]
Denom(v) == IF v.type = CRY_DOUBLE THEN v.val[2] ELSE 1

(* b_to_str, i_to_str, d_to_str: i_to_str finds no digits in MinInt, whose *)
(* negation is negative.                                                   *)
Minus == <<CRY_SYMS>>
Text(v) ==
  CASE v.type \in {CRY_TEXT, CRY_STRING}        -> v.val
    [] v.type = CRY_INT /\ v.val = <<MinInt>>   -> Minus
    [] OTHER                                    -> <<v.type>> \o v.val
StringOf(p) == V(CRY_STRING, p)
Marked(v)   == [v EXCEPT !.mark = TRUE]

Of(v, t)      == v.type = t
OneOf(v, w, t) == t \in {v.type, w.type}
Both(v, w, t) == v.type = t /\ w.type = t
Mixed(v, w)   == {v.type, w.type} = {CRY_INT, CRY_DOUBLE}
IsText(v)     == v.type \in {CRY_TEXT, CRY_STRING}

(* The higher one of two types.                                            *)
Higher(v, w) == Reduce(Set(v.type), Set(w.type))

(* bool values as C conditions.                                            *)
T(v) == v.val = <<1>>
Abs(n) == IF n < 0 THEN -n ELSE n

(* Integer division truncates; it traps on zero and when the quotient does *)
(* not fit.                                                                *)
Quotient(a, b) == IF (a < 0) = (b < 0) THEN Abs(a) \div Abs(b) ELSE -(Abs(a) \div Abs(b))
Traps(a, b)    == b = 0 \/ (a = MinInt /\ b = -1)

(* l^1 for any exponent below 1, as the loops of the code compute it.      *)
Power(a, n) == IF n <= 1 THEN a ELSE a ^ n

(* The operation on machine integers.                                      *)
Ints(op, l, r) ==
  LET a == Num(l)
      b == Num(r)
  IN CASE op = "+" -> IntOf(a + b)
       [] op = "-" -> IntOf(a - b)
       [] op = "*" -> IntOf(a * b)
       [] op = "/" -> IF Traps(a, b) THEN Trap ELSE IntOf(Quotient(a, b))
       [] op = "%" -> IF Traps(a, b) THEN Trap ELSE IntOf(a - b * Quotient(a, b))
       [] op = "^" -> IntOf(Power(a, b))

(* The operation on doubles; for ^ the right operand is integral.          *)
Doubles(op, l, r) ==
  LET a == Num(l)  p == Denom(l)
      b == Num(r)  q == Denom(r)
  IN CASE op = "+" -> Double(a * q + b * p, p * q)
       [] op = "-" -> Double(a * q - b * p, p * q)
       [] op = "*" -> Double(a * b, p * q)
       [] op = "/" -> Double(a * q, p * b)
       [] op = "^" -> IF b >= 0 THEN Double(a ^ b, p ^ b) ELSE Double(p ^ (-b), a ^ (-b))

Related(op, l, r) ==
  LET a == Num(l) * Denom(r)
      b == Num(r) * Denom(l)
  IN Bool(CASE op = "<" -> a < b [] op = "<=" -> a <= b [] op = ">" -> a > b [] op = ">=" -> a >= b)

Arithmetic  == {"+", "-", "*", "/", "%", "^"}
Comparisons == {"<", "<=", ">", ">="}
Operations  == Arithmetic \cup Comparisons \cup {"==", "!=", "&&", "||"}

Or(l, r)    == Bool(T(l) \/ T(r))
And(l, r)   == Bool(T(l) /\ T(r))
Xor(l, r)   == Bool(T(l) # T(r))
Equal(l, r) == Bool(T(l) = T(r))

(* What an operator makes of two booleans, integers or doubles, when a     *)
(* type that is not supported gives nil.                                   *)
Select(t, bool, int, double) ==
  CASE t = CRY_BOOL -> bool [] t = CRY_INT -> int [] t = CRY_DOUBLE -> double [] OTHER -> Nil
-----------------------------------------------------------------------------
(* Constant folding.  Data_Type orders the types otherwise than            *)
(* Symbol_Type: booleans come after the numbers.                           *)

Folds(t, bool, int, double, l, r) ==
  IF OneOf(l, r, CRY_NIL) \/ IsText(l) \/ IsText(r) THEN Nil
  ELSE IF OneOf(l, r, CRY_BOOL) THEN IF Both(l, r, CRY_BOOL) \/ bool = Nil THEN bool
                                     ELSE Unknown(CRY_BOOL)
  ELSE Select(t, bool, int, double)

FoldsOf(op, bool, l, r) ==
  Folds(Higher(l, r), bool, Ints(op, l, r), Doubles(op, l, r), l, r)

(* On the right, booleans and integers are appended by their str.          *)
Appended(r) == IF r.mark /\ r.type \in {CRY_BOOL, CRY_INT} THEN <<-CRY_SYMS>> ELSE Text(r)

Reduce_Addition(l, r) ==
  IF IsText(l) \/ IsText(r)
  THEN V(CRY_TEXT, Text(l) \o (IF IsText(l) THEN Appended(r) ELSE Text(r)))
  ELSE FoldsOf("+", Or(l, r), l, r)
Reduce_Subtraction(l, r)    == FoldsOf("-", Xor(l, r), l, r)
Reduce_Multiplication(l, r) == FoldsOf("*", Equal(l, r), l, r)
Reduce_Division(l, r)       == FoldsOf("/", Nil, l, r)
Reduce_Modulo(l, r) ==
  Folds(Higher(l, r), Nil, Ints("%", l, r), Nil, l, r)
Reduce_Power(l, r)          == FoldsOf("^", Equal(l, r), l, r)

(* i32 # 0: of a boolean only the byte b was written, of a text nothing.   *)
Fold_Truths(v) ==
  CASE v.type = CRY_NIL    -> {FALSE}
    [] v.type = CRY_INT    -> {v.val # <<0>>}
    [] v.type = CRY_BOOL   -> IF T(v) THEN {TRUE} ELSE BOOLEAN
    [] v.type = CRY_DOUBLE -> {Denom(v) \notin {2 ^ k : k \in 0 .. Width}}
    [] OTHER               -> BOOLEAN
Fold_Logic(results) ==
  IF results = {TRUE} THEN Bool(TRUE) ELSE IF results = {FALSE} THEN Bool(FALSE) ELSE Unknown(CRY_BOOL)
Reduce_And(l, r) ==
  Fold_Logic({t \in BOOLEAN : \E a \in Fold_Truths(l), b \in Fold_Truths(r) : t = (a /\ b)})
Reduce_Or(l, r) ==
  Fold_Logic({t \in BOOLEAN : \E a \in Fold_Truths(l), b \in Fold_Truths(r) : t = (a \/ b)})

(* Booleans are compared by i32, of which only b is theirs: unequal ones   *)
(* differ in any case.                                                     *)
Reduce_Equal(l, r) ==
  IF l.type # r.type THEN Bool(FALSE)
  ELSE IF Of(l, CRY_BOOL) /\ l.val = r.val THEN Unknown(CRY_BOOL)
  ELSE Bool(l.val = r.val)

(* The case of doubles falls through to that of strings and compares str.  *)
Reduce_Diffrence(l, r) ==
  IF l.type # r.type THEN Bool(TRUE)
  ELSE IF Of(l, CRY_BOOL) /\ l.val = r.val THEN Unknown(CRY_BOOL)
  ELSE IF Of(l, CRY_DOUBLE) THEN Bool(l.mark # r.mark \/ (~l.mark /\ l.val # r.val))
  ELSE Bool(l.val # r.val)

(* Reduce_Less, Reduce_Less_Equal, Reduce_Greater, Reduce_Greater_Equal.   *)
Reduce_Order(op, l, r) ==
  IF {l.type, r.type} = {CRY_INT} \/ ({l.type, r.type} \subseteq {CRY_INT, CRY_DOUBLE})
  THEN Related(op, l, r) ELSE Nil

Reduce_Not(v) ==
  CASE Of(v, CRY_NIL)  -> Nil
    [] IsText(v)       -> Bool(v.val = <<>>)
    [] OTHER           -> Bool(v.val[1] = 0)

(* The result keeps the str of the operator, unless it is a text.          *)
Folded(v) == IF IsText(v) THEN v ELSE Marked(v)

Reduction(op, l, r) ==
  Folded(CASE op = "+"  -> Reduce_Addition(l, r)
           [] op = "-"  -> Reduce_Subtraction(l, r)
           [] op = "*"  -> Reduce_Multiplication(l, r)
           [] op = "/"  -> Reduce_Division(l, r)
           [] op = "%"  -> Reduce_Modulo(l, r)
           [] op = "^"  -> Reduce_Power(l, r)
           [] op = "==" -> Reduce_Equal(l, r)
           [] op = "!=" -> Reduce_Diffrence(l, r)
           [] op = "&&" -> Reduce_And(l, r)
           [] op = "||" -> Reduce_Or(l, r)
           [] OTHER     -> Reduce_Order(op, l, r))
-----------------------------------------------------------------------------
(* Static code.                                                            *)
Lhs(d, s, left) == IF left THEN d ELSE s
Rhs(d, s, left) == IF left THEN s ELSE d

(* Null_Op, then the switch over the resolved type.                        *)
Coded(op, bool, d, s, left) ==
  IF OneOf(d, s, CRY_NIL) THEN Nil
  ELSE Select(Higher(d, s), bool,
              Ints(op, Lhs(d, s, left), Rhs(d, s, left)),
              Doubles(op, Lhs(d, s, left), Rhs(d, s, left)))

(* A boolean constant: of the union only bol_ was written, and             *)
(* Load_Register has no case for it, so that EAX keeps what it held.       *)
Chance(d, c) == Of(c, CRY_BOOL) /\ d.type \in {CRY_BOOL, CRY_INT}

(* What is no double is loaded for the FPU from the pool of floats, which  *)
(* Crystal_Compiler::Linker does not hand to the linker.                   *)
Pooled(d, c) == Of(d, CRY_DOUBLE) /\ c.type \in {CRY_BOOL, CRY_INT}

CodedC(op, d, c, left) ==
  IF Pooled(d, c) THEN Unlinked
  ELSE IF Chance(d, c) THEN Unknown(Higher(d, c)) ELSE Coded(op, Nil, d, c, left)

Joined(d, s, left) == StringOf(Text(Lhs(d, s, left)) \o Text(Rhs(d, s, left)))

(* Two texts are joined dest first.                                        *)
Add(d, s, left) ==
  IF Both(d, s, CRY_TEXT) THEN Joined(d, s, TRUE)
  ELSE IF IsText(d) \/ IsText(s) THEN Joined(d, s, left)
  ELSE Coded("+", Or(d, s), d, s, left)

(* A text is joined in place.  A constant appended to a string, or a text  *)
(* to anything else, is a call of Crystal_Text_Append_C, which Call looks  *)
(* for among the functions of the program, or of Crystal_Const_Append_T.   *)
AddC(d, c, left) ==
  IF Of(d, CRY_TEXT) THEN Joined(d, c, left)
  ELSE IF Of(d, CRY_STRING) \/ IsText(c) THEN Unlinked
  ELSE CodedC("+", d, c, left)

(* Faulty: subtracts source from dest on either side.                      *)
Sub_unordered(d, s, left) == Coded("-", And(d, s), d, s, TRUE)

Sub(d, s, left)  == Coded("-", And(d, s), d, s, left)
SubC(d, c, left) == CodedC("-", d, c, left)
Mul(d, s, left)  == Coded("*", Or(d, s), d, s, left)
MulC(d, c, left) == CodedC("*", d, c, left)

(* Doubles are divided dest by source on either side, and constants by     *)
(* dest.                                                                   *)
Div(d, s, left) ==
  IF Higher(d, s) = CRY_DOUBLE THEN Coded("/", Nil, d, s, TRUE) ELSE Coded("/", Nil, d, s, left)
DivC(d, c, left) ==
  CASE Both(d, c, CRY_BOOL)        -> Nil
    [] Higher(d, c) = CRY_DOUBLE   -> CodedC("/", d, c, FALSE)
    [] OTHER                       -> CodedC("/", d, c, left)

Mod(d, s, left) == IF Higher(d, s) = CRY_INT THEN Coded("%", Nil, d, s, left) ELSE Nil
ModC(d, c, left) == IF Higher(d, c) = CRY_INT THEN CodedC("%", d, c, left) ELSE Nil

(* Powers of doubles are left to Power_Syms, which is not registered.      *)
PowerSyms(d, s) == Higher(d, s) = CRY_DOUBLE /\ ~OneOf(d, s, CRY_NIL)

Pow(d, s, left) == IF PowerSyms(d, s) THEN Unlinked ELSE Coded("^", Or(d, s), d, s, left)

(* A constant base is multiplied by a register that nothing was loaded to; *)
(* as an exponent it is loaded as a symbol.                                *)
PowC(d, c, left) ==
  CASE Both(d, c, CRY_BOOL)                        -> Unknown(CRY_BOOL)
    [] PowerSyms(d, c)                             -> Unlinked
    [] Higher(d, c) = CRY_INT /\ ~left /\ ~OneOf(d, c, CRY_NIL) ->
         IF Of(c, CRY_BOOL) \/ Num(d) > 1 THEN Unknown(CRY_INT) ELSE c
    [] OTHER                                       -> Coded("^", Nil, d, c, left)

(* Parse_Bool: a double by its lower word, a text by its size.             *)
Parse_Bool(v) ==
  CASE v.type = CRY_NIL    -> FALSE
    [] v.type = CRY_DOUBLE -> Denom(v) \notin {2 ^ k : k \in 0 .. Width}
    [] IsText(v)           -> v.val # <<>>
    [] OTHER               -> v.val # <<0>>

(* And, AndC, Or and OrC call Crystal_And and Crystal_Or whatever is known *)
(* of the types.  Neither is registered.                                   *)
Logic == Unlinked

(* Two texts of one type are never equal, and never different.             *)
Eql(d, s)  == Bool(d.type = s.type /\ ~IsText(d) /\ d.val = s.val)
EqlC(d, c) == Bool(d.type = c.type /\ d.val = c.val)
Dif(d, s)  == Bool(d.type # s.type \/ (~IsText(d) /\ d.val # s.val))

(* The result of Fast_strcmp is not negated.                               *)
DifC(d, c) == Bool(d.type # c.type \/ (IF IsText(d) THEN d.val = c.val ELSE d.val # c.val))

(* The comparisons: with a constant they resolve to a boolean whatever the *)
(* types are, and an integer is Pooled.  Nil and booleans are loaded as if *)
(* they were doubles.                                                      *)
Compared(int, double, d, s, const, left) ==
  LET t == Higher(d, s) IN
  IF t \notin {CRY_INT, CRY_DOUBLE} THEN IF const THEN Unknown(CRY_BOOL) ELSE Nil
  ELSE IF const /\ Of(s, CRY_INT) /\ Pooled(d, s) THEN Unlinked
  ELSE IF \/ OneOf(d, s, CRY_NIL)
          \/ OneOf(d, s, CRY_BOOL) /\ t = CRY_DOUBLE
          \/ Of(s, CRY_BOOL) /\ const THEN Unknown(CRY_BOOL)
  ELSE Related(IF t = CRY_INT THEN int ELSE double, Lhs(d, s, left), Rhs(d, s, left))

(* Gtr and GtrEql test the flags for below.                                *)
Les(d, s, const, left)    == Compared("<", "<", d, s, const, left)
LesEql(d, s, const, left) == Compared("<=", "<=", d, s, const, left)
Gtr(d, s, const, left)    == Compared(">", "<", d, s, const, left)
GtrEql(d, s, const, left) == Compared(">=", "<=", d, s, const, left)

Static(op, d, s, const, left) ==
  CASE op = "+"  -> IF const THEN AddC(d, s, left) ELSE Add(d, s, left)
    [] op = "-"  -> IF const THEN SubC(d, s, left) ELSE Sub(d, s, left)
    [] op = "*"  -> IF const THEN MulC(d, s, left) ELSE Mul(d, s, left)
    [] op = "/"  -> IF const THEN DivC(d, s, left) ELSE Div(d, s, left)
    [] op = "%"  -> IF const THEN ModC(d, s, left) ELSE Mod(d, s, left)
    [] op = "^"  -> IF const THEN PowC(d, s, left) ELSE Pow(d, s, left)
    [] op = "==" -> IF const THEN EqlC(d, s) ELSE Eql(d, s)
    [] op = "!=" -> IF const THEN DifC(d, s) ELSE Dif(d, s)
    [] op \in {"&&", "||"} -> Logic
    [] op = "<"  -> Les(d, s, const, left)
    [] op = "<=" -> LesEql(d, s, const, left)
    [] op = ">"  -> Gtr(d, s, const, left)
    [] op = ">=" -> GtrEql(d, s, const, left)
-----------------------------------------------------------------------------
(* The runtime.  dest may refer to an element (ref); d and s are the       *)
(* values behind the references.  raw: a nil operand is in plain sight.    *)
(* The value is read from dest afterwards.                                 *)
Obscured(d, s, raw, bool, int, double) ==
  IF raw THEN Nil
  ELSE IF OneOf(d, s, CRY_NIL)
       THEN Select(Higher(d, s), IF bool = Nil THEN Nil ELSE Unknown(CRY_BOOL),
                   Unknown(CRY_INT), Unknown(CRY_DOUBLE))
  ELSE Select(Higher(d, s), bool, int, double)

(* Integers are added in the element, doubles change its type: dest does   *)
(* not get the sum.                                                        *)
Obscure_Addition(d, s, ref) ==
  IF IsText(d) \/ IsText(s) THEN Joined(d, s, TRUE)
  ELSE IF OneOf(d, s, CRY_NIL) THEN Nil
  ELSE IF ref /\ Higher(d, s) = CRY_INT THEN Unknown(CRY_INT)
  ELSE IF ref /\ Of(d, CRY_DOUBLE) THEN d
  ELSE IF ref /\ Of(s, CRY_DOUBLE) THEN Unknown(CRY_DOUBLE)
  ELSE Select(Higher(d, s), Or(d, s), Ints("+", d, s), Doubles("+", d, s))
Obscure_AdditionR(d, s) ==
  IF IsText(d) \/ IsText(s) THEN Joined(d, s, FALSE)
  ELSE IF OneOf(d, s, CRY_NIL) THEN Nil
  ELSE Select(Higher(d, s), Or(d, s), Ints("+", s, d), Doubles("+", s, d))

(* result->d -= ... works on the bits of dest, not on the element's.       *)
InPlace(d, ref, v) == IF ref /\ Of(d, CRY_DOUBLE) THEN Unknown(CRY_DOUBLE) ELSE v

(* A mix of integer and double is read by the wrong members.               *)
Reversed(d, s, v) == IF d.type = s.type THEN v ELSE Unknown(CRY_DOUBLE)

Obscure_Subtraction(d, s, raw, ref) ==
  Obscured(d, s, raw, And(d, s), Ints("-", d, s), InPlace(d, ref, Doubles("-", d, s)))
Obscure_SubtractionR(d, s, raw) ==
  Obscured(d, s, raw, Xor(d, s), Ints("-", s, d), Doubles("-", s, d))

Obscure_Multiplication(d, s, raw, ref) ==
  Obscured(d, s, raw, Equal(d, s), Ints("*", d, s), InPlace(d, ref, Doubles("*", d, s)))

Obscure_Division(d, s, raw, ref) ==
  Obscured(d, s, raw, Nil, Ints("/", d, s), InPlace(d, ref, Doubles("/", d, s)))
Obscure_DivisionR(d, s, raw) ==
  Obscured(d, s, raw, Nil, Ints("/", s, d), Reversed(d, s, Doubles("/", s, d)))

Obscure_Modulo(d, s, raw, ref) ==
  IF Higher(d, s) # CRY_INT THEN Nil
  ELSE Obscured(d, s, raw, Nil, IF ref THEN Unknown(CRY_INT) ELSE Ints("%", d, s), Nil)
Obscure_ModuloR(d, s, raw) ==
  IF Higher(d, s) # CRY_INT THEN Nil ELSE Obscured(d, s, raw, Nil, Ints("%", s, d), Nil)

(* Only here is anything to the power of 0 one.                            *)
PowerInts(l, r) == IF Num(r) = 0 THEN IntOf(1) ELSE Ints("^", l, r)
Obscure_Power(d, s, raw) ==
  Obscured(d, s, raw, Xor(d, s), PowerInts(d, s), Doubles("^", d, s))
Obscure_PowerR(d, s, raw) ==
  Obscured(d, s, raw, Xor(d, s), PowerInts(s, d), Reversed(d, s, Doubles("^", s, d)))

Crystal_Compare(d, s) ==
  Bool((d.type = s.type \/ (IsText(d) /\ IsText(s))) /\ d.val = s.val)
Obscure_Diffrence(d, s) == Bool(~T(Crystal_Compare(d, s)))

(* The type of dest decides.  op is what dest is to be to source.  Less    *)
(* or equal is the negation of greater.                                    *)
Obscure_Order(op, d, s) ==
  CASE Of(d, CRY_INT) /\ Of(s, CRY_INT)                    -> Related(op, d, s)
    [] Of(d, CRY_DOUBLE) /\ Of(s, CRY_NIL)                 -> Unknown(CRY_BOOL)
    [] Of(d, CRY_DOUBLE) /\ s.type <= CRY_DOUBLE           -> Related(op, d, s)
    [] OTHER                                               -> Nil

Mirror(op) == CASE op = "<" -> ">" [] op = ">" -> "<" [] op = "<=" -> ">=" [] op = ">=" -> "<="

Obscure(op, d, s, left, raw, ref) ==
  CASE op = "+"  -> IF left THEN Obscure_Addition(d, s, ref) ELSE Obscure_AdditionR(d, s)
    [] op = "-"  -> IF left THEN Obscure_Subtraction(d, s, raw, ref) ELSE Obscure_SubtractionR(d, s, raw)
    [] op = "*"  -> Obscure_Multiplication(d, s, raw, ref)
    [] op = "/"  -> IF left THEN Obscure_Division(d, s, raw, ref) ELSE Obscure_DivisionR(d, s, raw)
    [] op = "%"  -> IF left THEN Obscure_Modulo(d, s, raw, ref) ELSE Obscure_ModuloR(d, s, raw)
    [] op = "^"  -> IF left THEN Obscure_Power(d, s, raw) ELSE Obscure_PowerR(d, s, raw)
    [] op = "==" -> Crystal_Compare(d, s)
    [] op = "!=" -> Obscure_Diffrence(d, s)
    [] op \in {"&&", "||"} -> Logic
    [] OTHER     -> Obscure_Order(IF left THEN op ELSE Mirror(op), d, s)

(* ! tests i32 of the symbol itself, not of what it refers to, and calls   *)
(* it a boolean.                                                           *)
Obscure_Not(d, ref) ==
  IF ref \/ Of(d, CRY_STRING) THEN Unknown(CRY_BOOL)
  ELSE IF Of(d, CRY_NIL) THEN Nil
  ELSE Bool(~Parse_Bool(d))

(* Faulty: the default case of every operation clears the element.         *)
Missed_always(op, d, s, left, raw) ==
  left /\ ~raw /\ Higher(d, s) \notin {CRY_BOOL, CRY_INT, CRY_DOUBLE}

(* The cases that set the type of dest after it was dereferenced: dest     *)
(* still is a reference, the element has the type.                         *)
Missed(op, d, s, left, raw) ==
  /\ left
  /\ \/ op = "+" /\ Higher(d, s) = CRY_NIL
     \/ op = "+" /\ Higher(d, s) = CRY_DOUBLE /\ ~OneOf(d, s, CRY_NIL)
     \/ op = "-" /\ ~raw /\ Higher(d, s) \notin {CRY_BOOL, CRY_INT, CRY_DOUBLE}
     \/ op = "%" /\ ~raw /\ Higher(d, s) # CRY_INT

ElementAfter(op, d, s, left, raw) ==
  IF Missed(op, d, s, left, raw)
  THEN IF op = "+" THEN Obscure_Addition(d, s, TRUE) ELSE Nil
  ELSE IF op = "+" /\ left /\ Higher(d, s) = CRY_INT /\ ~OneOf(d, s, CRY_NIL)
  THEN Ints("+", d, s)
  ELSE d
-----------------------------------------------------------------------------
(* Operands and the guard that keeps doubles finite and rational.          *)
Constants == {Nil, Bool(TRUE), Bool(FALSE)} \cup {IntOf(n) : n \in Integer}
             \cup {Double(q[1], q[2]) : q \in Fractions} \cup {V(CRY_TEXT, <<t>>) : t \in Texts}
             \cup {V(CRY_TEXT, <<>>)}
Values    == Constants \cup {StringOf(<<t>>) : t \in Texts}

Finite(op, l, r) ==
  Higher(l, r) = CRY_DOUBLE /\ ~OneOf(l, r, CRY_NIL) =>
    /\ op = "/" => Num(l) # 0 /\ Num(r) # 0
    /\ op = "^" => /\ Num(l) # 0 /\ Denom(r) = 1 /\ Abs(Num(r)) <= Width
                   /\ Abs(Num(l)) <= 2 ^ Width /\ Denom(l) <= 2 ^ Width

(* Values a program can tell apart.                                        *)
Plain(v) == [type |-> IF v.type = CRY_STRING THEN CRY_TEXT ELSE v.type, val |-> v.val]

SupportedBy(op) ==
  {CRY_INT} \cup (IF op = "%" THEN {} ELSE {CRY_DOUBLE}) \cup (IF op \in {"/", "%"} THEN {} ELSE {CRY_BOOL})

(* Where the three are known to differ, in the order of the code that is   *)
(* the odd one.  d is dest before the operator, ref: it refers to an       *)
(* element, how: what x is.                                                *)
Differs(op, d, x, how, left, ref) ==
  LET const  == how = "constant"
      t      == Higher(d, x)
      number == t \in {CRY_INT, CRY_DOUBLE}
      r      == Rhs(d, x, left)
      nil    == OneOf(d, x, CRY_NIL)
      bool   == OneOf(d, x, CRY_BOOL)
  IN
  \* Folding ranks booleans above the numbers.
  \/ op \in Arithmetic /\ bool /\ number /\ t \in SupportedBy(op)
  \* Folding appends the token of what was folded before.
  \/ op = "+" /\ folded.mark /\ folded.type \in {CRY_BOOL, CRY_INT} /\ IsText(x) /\ ~left
  \* Folding compares booleans by bytes nobody wrote.
  \/ op \in {"==", "!="} /\ Both(d, x, CRY_BOOL)
  \* Folding compares the str of doubles that differ from nothing else.
  \/ op = "!=" /\ Both(d, x, CRY_DOUBLE) /\ folded.mark
  \* Three opinions on what -, * and ^ do to booleans, and code for a
  \* boolean constant that leaves it out.
  \/ op \in {"-", "*", "^"} /\ Both(d, x, CRY_BOOL)
  \/ op = "+" /\ Both(d, x, CRY_BOOL) /\ const
  \* Static code is not linked: logic; constants with texts; powers of
  \* doubles; integer constants with doubles.
  \/ op \in {"&&", "||"}
  \/ op = "+" /\ const /\ ~Of(d, CRY_TEXT) /\ (Of(d, CRY_STRING) \/ IsText(x))
  \/ op = "^" /\ PowerSyms(d, x)
  \/ op \in (Arithmetic \ {"%"}) \cup Comparisons /\ const /\ Of(x, CRY_INT) /\ Pooled(d, x)
  \* Static code joins texts in the wrong order.
  \/ op = "+" /\ Both(d, x, CRY_TEXT) /\ ~left /\ ~const
  \* Static code divides doubles in the wrong order, the runtime a mix of
  \* integer and double.
  \/ op = "/" /\ t = CRY_DOUBLE /\ ~nil /\ (const = left \/ (~left /\ Mixed(d, x)))
  \* The power of 0; a constant base.
  \/ op = "^" /\ t = CRY_INT /\ ~nil /\ (Num(r) = 0 \/ (const /\ ~left))
  \* Static code cannot compare texts.
  \/ op \in {"==", "!="} /\ IsText(d) /\ IsText(x)
     /\ ~(op = "==" /\ const /\ Of(d, CRY_TEXT))
  \* Static code compares what is no number; in the runtime the type of
  \* dest decides; > and >= of doubles are < and <=.
  \/ op \in Comparisons /\ (nil \/ bool) /\ number
  \/ op \in Comparisons /\ ~number /\ const
  \/ op \in Comparisons /\ Mixed(d, x) /\ Of(d, CRY_INT)
  \/ op \in {">", ">="} /\ t = CRY_DOUBLE
  \* The runtime does not see that an element is nil.
  \/ op \in Arithmetic \ {"+"} /\ t \in SupportedBy(op) /\ ((ref /\ Of(d, CRY_NIL)) \/ (how = "element" /\ Of(x, CRY_NIL)))
  \* The runtime leaves the result in the element, or works on the bits of
  \* the reference.
  \/ ref /\ left /\ op = "+" /\ number /\ ~nil
  \/ ref /\ Of(d, CRY_DOUBLE) /\ t = CRY_DOUBLE /\ ~nil /\ (op = "*" \/ (left /\ op \in {"-", "/"}))
  \/ /\ ref /\ left /\ ~Of(d, CRY_NIL) /\ (Of(x, CRY_NIL) => how = "element")
     /\ op = "%" \/ (op = "-" /\ (IsText(d) \/ IsText(x)))

Init ==
  \E v \in Values, ref \in BOOLEAN :
    /\ folded = V(Plain(v).type, v.val)
    /\ compiled = v /\ dynamic = v /\ element = v /\ origin = v
    /\ refers = ref /\ excused = FALSE /\ count = 0

Operate(op, x, how, left) ==
  LET f == V(Plain(x).type, x.val)
      raw == (Of(dynamic, CRY_NIL) /\ ~refers) \/ (Of(x, CRY_NIL) /\ how # "element")
  IN
  /\ count < MaxOperators /\ ~excused /\ ~Of(compiled, CRY_SYMS)
  /\ how = "constant" => x \in Constants
  /\ Finite(op, Lhs(folded, f, left), Rhs(folded, f, left))
  /\ folded' = Reduction(op, Lhs(folded, f, left), Rhs(folded, f, left))
  /\ compiled' = Static(op, compiled, x, how = "constant", left)
  /\ dynamic' = Obscure(op, dynamic, x, left, raw, refers)
  /\ element' = IF refers THEN ElementAfter(op, dynamic, x, left, raw) ELSE element
  /\ refers' = (refers /\ Missed(op, dynamic, x, left, raw))
  /\ excused' = Differs(op, compiled, x, how, left, refers)
  /\ count' = count + 1
  /\ UNCHANGED origin

Not ==
  /\ count < MaxOperators /\ ~excused /\ ~Of(compiled, CRY_SYMS)
  /\ folded' = Folded(Reduce_Not(folded))
  /\ compiled' = Obscure_Not(compiled, FALSE)
  /\ dynamic' = Obscure_Not(dynamic, refers)
  /\ refers' = FALSE
  /\ excused' = (refers \/ Of(compiled, CRY_DOUBLE) \/ Of(compiled, CRY_STRING))
  /\ count' = count + 1
  /\ UNCHANGED <<element, origin>>

Next ==
  \/ \E op \in Operations, x \in Values, how \in {"constant", "symbol", "element"}, left \in BOOLEAN :
       Operate(op, x, how, left)
  \/ Not

Spec == Init /\ [][Next]_vars
-----------------------------------------------------------------------------
(* Values are well formed: integers fit their width, fractions are in      *)
(* lowest terms, and only what folding can mark is marked.                 *)
WellFormed(v) ==
  CASE v.type = CRY_BOOL   -> v.val \in {<<>>, <<0>>, <<1>>}
    [] v.type = CRY_INT    -> v.val = <<>> \/ Num(v) \in MinInt .. MaxInt
    [] v.type = CRY_DOUBLE -> v.val = <<>> \/ v.val = Lowest(v.val[1], v.val[2])
    [] OTHER               -> v.type \in {CRY_NIL, CRY_TEXT, CRY_STRING, CRY_SYMS}
TypeOK ==
  /\ \A v \in {folded, compiled, dynamic, element, origin} : WellFormed(v)
  /\ ~dynamic.mark /\ ~element.mark /\ ~compiled.mark
  /\ refers \in BOOLEAN /\ excused \in BOOLEAN /\ count \in 0 .. MaxOperators

(* Which of the three implementations evaluates an expression makes no     *)
(* difference to its value, and none of them reads bytes that were never   *)
(* written, outside of the differences listed above: after every chain of  *)
(* operators, on either side, with constants, symbols and elements.        *)
Agreed ==
  excused \/ (/\ ~Unspecified(compiled)
              /\ Plain(folded) = Plain(compiled) /\ Plain(dynamic) = Plain(compiled))

(* Evaluating an expression does not change the array an operand was read  *)
(* from, again outside of the listed differences.                          *)
ElementsKept == excused \/ element = origin
=============================================================================
