----------------------------- MODULE Evaluator -----------------------------
(***************************************************************************)
(* Values and operators of the interpreter (src/interpreter.cpp,           *)
(* interpret_expr): what a BoolOp, BinOp, UnaryOp, Compare, Subscript,     *)
(* str(), int(), float() and print() do with operands of every type,       *)
(* inside the width of an ssize_t and outside it, and what happens to      *)
(* lists.                                                                  *)
(*                                                                         *)
(* An operator gives the set of its possible outcomes.  An outcome is a    *)
(* value or the way evaluation ends without one:                           *)
(*   thrown    std::runtime_error, which nothing catches in a worker       *)
(*   trap      SIGFPE of an integer division                               *)
(*   wild      an object is read as if it had another type                 *)
(*   runaway   a loop that only exhausts the memory                        *)
(* Integers are two's complement of Width bits; where C++ leaves overflow, *)
(* shift counts and out-of-range conversions undefined, the outcome is     *)
(* that of x86-64, for which the operands are not known before run time.   *)
(* Of a float only its type is kept.  A string is a sequence of            *)
(* characters, in which "." stands for the fraction of a float, "T" and    *)
(* "F" for the words True and False, and "a" for any other text.  inf and  *)
(* nan are left out.                                                       *)
(*                                                                         *)
(* A value of the type list is the list itself, not what it contains: two  *)
(* variables or two lists may have the same one.                           *)
(***************************************************************************)
EXTENDS Integers, SequencesExt, FiniteSets

CONSTANTS
  Names,                 \* variables of the program
  Constants,             \* the constants in its text
  Width,                 \* bits of an ssize_t; a power of two, as in the machine
  Mantissa,              \* bits of a double's mantissa
  MaxLen,                \* bound: strings longer than this are not computed
  Lists,                 \* objects of the type list
  MaxElements,           \* bound: the length of a list
  Kept                   \* bound: what is put in a list, beside lists

VARIABLES
  env,                   \* env[x]: the value of x, or Unset
  lists,                 \* lists[l]: the elements of l
  status,                \* running, or how evaluation ended
  did                    \* the last operation: its name, operands and outcome

evars == <<env, lists, status, did>>

BoolV(b) == [type |-> "bool", val |-> b]
IntV(n) == [type |-> "int", val |-> n]
FloatV == [type |-> "float", val |-> "some"]
StrV(s) == [type |-> "string", val |-> s]
ListV(l) == [type |-> "list", val |-> l]
Unset == [type |-> "unset", val |-> "none"]

Ok(v) == [kind |-> "value", value |-> v]
Fail(how) == [kind |-> how]

Digits == <<"0", "1", "2", "3", "4", "5", "6", "7", "8", "9">>
\* The characters in the order of their codes.
Alphabet == <<"-", ".", "0", "1", "2", "3", "4", "5", "6", "7", "8", "9",
              "F", "T", "a">>

-----------------------------------------------------------------------------
(* Machine integers.                                                       *)

Pow2[n \in Nat] == IF n = 0 THEN 1 ELSE 2 * Pow2[n - 1]

MinInt == -Pow2[Width - 1]
MaxInt == Pow2[Width - 1] - 1
Fits(n) == n \in MinInt..MaxInt

\* What the text of a program may stand for.
Literal ==
  [type : {"bool"}, val : BOOLEAN] \cup [type : {"int"}, val : MinInt..MaxInt] \cup
  {FloatV} \cup [type : {"string"}, val : Seq(ToSet(Alphabet))]

\* A sum of two booleans is an integer, and must fit.
ASSUME EvaluatorAssumption ==
  /\ Width \in Nat /\ Width > 2
  /\ Mantissa \in Nat \ {0}
  /\ Constants \subseteq Literal

\* Mutation: the result keeps its carry.
Wrap_not(n) == n
Wrap(n) == ((n - MinInt) % Pow2[Width]) + MinInt

Abs(n) == IF n < 0 THEN -n ELSE n
\* >> on a negative number shifts in its sign.
\* Mutation: the shift is written as a division.
ShiftRight_divides(n, k) == IF n < 0 THEN -((-n) \div Pow2[k]) ELSE n \div Pow2[k]
ShiftRight(n, k) == n \div Pow2[k]

\* The processor divides, or raises an exception.
Traps(l, r) == r = 0 \/ (l = MinInt /\ r = -1)
\* C++ division truncates.
Quotient(l, r) == IF l * r < 0 THEN -(Abs(l) \div Abs(r)) ELSE Abs(l) \div Abs(r)
Remainder(l, r) == l - r * Quotient(l, r)

\* The double nearest to an integer of the machine; of two, the even one.
Exact(n) == Abs(n) <= Pow2[Mantissa]
Double(n) ==
  LET e == CHOOSE k \in 1..Width :
             Pow2[Mantissa + k - 1] <= Abs(n) /\ Abs(n) < Pow2[Mantissa + k]
      q == Abs(n) \div Pow2[e]
      rest == 2 * (Abs(n) % Pow2[e])
      up == rest > Pow2[e] \/ (rest = Pow2[e] /\ q % 2 = 1)
      near == Pow2[e] * IF up THEN q + 1 ELSE q
  IN IF Exact(n) THEN n ELSE IF n < 0 THEN -near ELSE near

\* std::pow on doubles, converted back: out of range gives the least integer.
Power(l, r) ==
  LET base == Double(l)
      exponent == Double(r)
      power == base^exponent
  IN CASE r = 0 -> 1
       [] r > 0 -> IF Fits(power) /\ Fits(Double(power)) THEN Double(power) ELSE MinInt
       [] r < 0 /\ l = 0 -> MinInt
       [] r < 0 /\ l \in {1, -1} -> IF exponent % 2 = 0 THEN 1 ELSE l
       [] OTHER -> 0

\* Bitwise operators, bit by bit on the two's complement.
Bit(n, k) == ((n % Pow2[Width]) \div Pow2[k]) % 2
FromBits(bits) ==
  LET sum[n \in 0..Width] ==
        IF n = 0 THEN 0 ELSE sum[n - 1] + bits[n - 1] * Pow2[n - 1]
  IN Wrap(sum[Width])
AndBits(l, r) == FromBits([k \in 0..(Width - 1) |-> Bit(l, k) * Bit(r, k)])
XorBits(l, r) == FromBits([k \in 0..(Width - 1) |-> (Bit(l, k) + Bit(r, k)) % 2])
OrBits(l, r) ==
  FromBits([k \in 0..(Width - 1) |-> IF Bit(l, k) + Bit(r, k) > 0 THEN 1 ELSE 0])

-----------------------------------------------------------------------------
(* BinOp.                                                                  *)

IntArith(op, l, r) ==
  CASE op = "Add" -> Ok(IntV(Wrap(l + r)))
    [] op = "Sub" -> Ok(IntV(Wrap(l - r)))
    [] op = "Mult" -> Ok(IntV(Wrap(l * r)))
    [] op = "Div" -> Ok(FloatV)
    [] op \in {"Mod", "FloorDiv"} /\ Traps(l, r) -> Fail("trap")
    [] op = "Mod" /\ ~Traps(l, r) -> Ok(IntV(Remainder(l, r)))
    [] op = "FloorDiv" /\ ~Traps(l, r) -> Ok(IntV(Quotient(l, r)))
    [] op = "Pow" -> Ok(IntV(Power(l, r)))
    [] op = "LShift" -> Ok(IntV(Wrap(l * Pow2[r % Width])))
    [] op = "RShift" -> Ok(IntV(ShiftRight(l, r % Width)))
    [] op = "BitOr" -> Ok(IntV(OrBits(l, r)))
    [] op = "BitXor" -> Ok(IntV(XorBits(l, r)))
    [] op = "BitAnd" -> Ok(IntV(AndBits(l, r)))

BoolArith(op, l, r) ==
  LET n(b) == IF b THEN 1 ELSE 0
  IN CASE op = "Add" -> Ok(IntV(n(l) + n(r)))
       [] op = "Sub" -> Ok(IntV(n(l) - n(r)))
       [] op \in {"Mult", "Mod", "Pow"} -> Ok(IntV(n(l /\ r)))
       [] OTHER -> Fail("thrown")

FloatArith(op) ==
  IF op \in {"Add", "Sub", "Mult", "Div", "Pow"} THEN Ok(FloatV)
  ELSE Fail("thrown")

Repeat(s, times) ==
  LET repeated[n \in 0..times] == IF n = 0 THEN <<>> ELSE repeated[n - 1] \o s
  IN repeated[times]

\* The loop of a string multiplication compares its unsigned counter with the
\* signed number of times.
StringArith(op, l, r) ==
  CASE op = "Add" /\ r.type = "string" -> Ok(StrV(l \o r.val))
    [] op = "Add" /\ r.type # "string" -> Fail("wild")
    [] op = "Mult" /\ r.type = "int" ->
         IF r.val < 0 THEN Fail("runaway")
         ELSE Ok(StrV(Repeat(l, r.val)))
    [] OTHER -> Fail("thrown")

BinOp(op, l, r) ==
  IF l.type # r.type /\ l.type # "string" THEN Fail("thrown")
  ELSE CASE l.type = "bool" -> BoolArith(op, l.val, r.val)
         [] l.type = "int" -> IntArith(op, l.val, r.val)
         [] l.type = "float" -> FloatArith(op)
         [] l.type = "string" -> StringArith(op, l.val, r)
         [] l.type = "list" -> Fail("thrown")

-----------------------------------------------------------------------------
(* UnaryOp, Compare, BoolOp.                                               *)

UnaryOp(op, v) ==
  CASE op = "Not" /\ v.type = "bool" -> Ok(BoolV(~v.val))
    [] op = "USub" /\ v.type = "int" -> Ok(IntV(Wrap(-v.val)))
    [] op = "USub" /\ v.type = "float" -> Ok(FloatV)
    [] OTHER -> Fail("thrown")

Code(c) == CHOOSE n \in DOMAIN Alphabet : Alphabet[n] = c

\* Mutation: a prefix is not less than the whole.
Below_noPrefix(s, t) ==
  \E k \in 1..Len(t) :
    /\ k <= Len(s) /\ Code(s[k]) < Code(t[k])
    /\ \A j \in 1..(k - 1) : s[j] = t[j]
Below(s, t) ==
  \E k \in 1..Len(t) :
    /\ \A j \in 1..(k - 1) : j <= Len(s) /\ s[j] = t[j]
    /\ k = Len(s) + 1 \/ (k <= Len(s) /\ Code(s[k]) < Code(t[k]))

Less(l, r) ==
  CASE l.type = "bool" -> ~l.val /\ r.val
    [] l.type = "int" -> l.val < r.val
    [] l.type = "string" -> Below(l.val, r.val)

\* Values of two types are never equal, less or greater - nor unequal.  "Is"
\* stands for the four operators that are parsed and not supported.  A list is
\* equal to itself only.
Compare(op, l, r) ==
  CASE l.type # r.type -> {Ok(BoolV(FALSE))}
    [] l.type = r.type /\ op = "Is" -> {Fail("thrown")}
    [] l.type = r.type /\ op # "Is" /\ l.type = "float" ->
         {Ok(BoolV(b)) : b \in BOOLEAN}
    [] l.type = r.type /\ l.type = "list" /\ op \notin {"Is", "Eq", "NotEq"} ->
         {Fail("thrown")}
    [] OTHER ->
         {Ok(BoolV(CASE op = "Eq" -> l = r
                     [] op = "NotEq" -> l # r
                     [] op = "Lt" -> Less(l, r)
                     [] op = "LtE" -> ~Less(r, l)
                     [] op = "Gt" -> Less(r, l)
                     [] op = "GtE" -> ~Less(l, r)))}

\* Both operands are evaluated, whatever the first one is.
BoolOp(op, l, r) ==
  IF l.type = "bool" /\ r.type = "bool"
  THEN Ok(BoolV(IF op = "And" THEN l.val /\ r.val ELSE l.val \/ r.val))
  ELSE Fail("thrown")

-----------------------------------------------------------------------------
(* str(), int() and float().                                               *)

Numeral[n \in Nat] ==
  IF n < 10 THEN <<Digits[n + 1]>>
  ELSE Append(Numeral[n \div 10], Digits[(n % 10) + 1])

\* std::to_string
\* Mutation: the sign is lost.
Decimal_unsigned(n) == Numeral[Abs(n)]
Decimal(n) == IF n < 0 THEN <<"-">> \o Numeral[-n] ELSE Numeral[n]

\* from_str: a stringstream reads the longest prefix that is a number, gives 0
\* if there is none, and the nearest integer if the number is out of range.  It
\* leaves the result of an empty text alone, which nothing has initialized.
DigitOf(c) == (CHOOSE n \in DOMAIN Digits : Digits[n] = c) - 1
NumberOf(digits) ==
  LET number[n \in 0..Len(digits)] ==
        IF n = 0 THEN 0 ELSE 10 * number[n - 1] + DigitOf(digits[n])
  IN number[Len(digits)]

Leading(s) ==
  LET negative == s[1] = "-"
      rest == IF negative THEN Tail(s) ELSE s
      stop == CHOOSE n \in 0..Len(rest) :
                /\ \A k \in 1..n : Contains(Digits, rest[k])
                /\ n < Len(rest) => ~Contains(Digits, rest[n + 1])
      n == NumberOf(SubSeq(rest, 1, stop))
  IN IF negative THEN -n ELSE n

FromStr(s) ==
  IF s = <<>> THEN MinInt..MaxInt
  ELSE LET n == Leading(s)
       IN {CASE Fits(n) -> n [] n < MinInt -> MinInt [] n > MaxInt -> MaxInt}

ToStr(v) ==
  CASE v.type = "string" -> {Ok(v)}
    [] v.type = "int" -> {Ok(StrV(Decimal(v.val)))}
    [] v.type = "float" ->
         {Ok(StrV(Append(Decimal(n), "."))) : n \in MinInt..MaxInt}
    [] v.type = "bool" -> {Ok(StrV(IF v.val THEN <<"T">> ELSE <<"F">>))}
    [] v.type = "list" -> {Fail("thrown")}

\* The integral part of a float may be any integer.
ToInt(v) ==
  CASE v.type = "string" -> {Ok(IntV(n)) : n \in FromStr(v.val)}
    [] v.type = "int" -> {Ok(v)}
    [] v.type = "float" -> {Ok(IntV(n)) : n \in MinInt..MaxInt}
    [] v.type = "bool" -> {Ok(IntV(IF v.val THEN 1 ELSE 0))}
    [] v.type = "list" -> {Fail("thrown")}

ToFloat(v) == IF v.type \in {"bool", "list"} THEN Fail("thrown") ELSE Ok(FloatV)

-----------------------------------------------------------------------------
(* Lists.                                                                  *)

IsList(v) == v.type = "list"

\* value[key].  For a negative key the interpreter takes the length of the key,
\* an integer, as if that were a list: any index may come out of it, and at()
\* refuses those that are not in the list.
Element(s, k) ==
  CASE Abs(k) >= Len(s) -> {Fail("thrown")}
    [] 0 <= k /\ k < Len(s) -> {Ok(s[k + 1])}
    [] k < 0 /\ -k < Len(s) -> {Fail("thrown")} \cup {Ok(s[n]) : n \in DOMAIN s}

-----------------------------------------------------------------------------
(* A program: assignments of one operation each.                           *)

BinOps == {"Add", "Sub", "Mult", "Div", "Mod", "Pow", "LShift", "RShift",
           "BitOr", "BitXor", "BitAnd", "FloorDiv"}
CmpOps == {"Eq", "NotEq", "Lt", "LtE", "Gt", "GtE", "Is"}
UnaryOps == {"Not", "USub", "Invert"}

Nothing == [op |-> "none"]

EInit ==
  /\ env = [x \in Names |-> Unset]
  /\ lists = [l \in Lists |-> <<>>]
  /\ status = "running"
  /\ did = Nothing

TooLong(out) ==
  out.kind = "value" /\ out.value.type = "string" /\ Len(out.value.val) > MaxLen

\* The lists that the variables of e reach when the elements are those of s.
Reached(e, s) ==
  LET within[n \in 0..Cardinality(Lists)] ==
        IF n = 0 THEN {e[x].val : x \in {y \in Names : IsList(e[y])}}
        ELSE within[n - 1] \cup
               {v.val : v \in UNION {ToSet(SelectSeq(s[l], IsList)) : l \in within[n - 1]}}
  IN within[Cardinality(Lists)]

\* The elements are those of s; of a list nobody reaches they do not matter.
HaveElements(s) ==
  LET reached == Reached(env', s)
  IN lists' = [l \in Lists |-> IF l \in reached THEN s[l] ELSE <<>>]

\* An operation ends; one that has no value ends the program.
Done(op, args, out) ==
  /\ did' = [op |-> op, args |-> args, out |-> out]
  /\ status' = IF out.kind = "value" THEN status ELSE out.kind

\* The value of an expression becomes the value of x.
Store(x, op, args, out) ==
  /\ ~TooLong(out)
  /\ Done(op, args, out)
  /\ env' = IF out.kind = "value" THEN [env EXCEPT ![x] = out.value] ELSE env
  /\ HaveElements(lists)

Bound == {y \in Names : env[y] # Unset}

AssignConstant(x) ==
  \E c \in Constants : Store(x, "Constant", <<c>>, Ok(c))

AssignName(x) ==
  \E y \in Bound : Store(x, "Name", <<env[y]>>, Ok(env[y]))

AssignBinOp(x) ==
  \E op \in BinOps, y, z \in Bound :
    Store(x, op, <<env[y], env[z]>>, BinOp(op, env[y], env[z]))

AssignUnaryOp(x) ==
  \E op \in UnaryOps, y \in Bound :
    Store(x, op, <<env[y]>>, UnaryOp(op, env[y]))

AssignCompare(x) ==
  \E op \in CmpOps, y, z \in Bound :
    \E out \in Compare(op, env[y], env[z]) :
      Store(x, op, <<env[y], env[z]>>, out)

AssignBoolOp(x) ==
  \E op \in {"And", "Or"}, y, z \in Bound :
    Store(x, op, <<env[y], env[z]>>, BoolOp(op, env[y], env[z]))

AssignConversion(x) ==
  \E y \in Bound :
    \/ \E out \in ToStr(env[y]) : Store(x, "str", <<env[y]>>, out)
    \/ Store(x, "float", <<env[y]>>, ToFloat(env[y]))
    \/ \E out \in ToInt(env[y]) : Store(x, "int", <<env[y]>>, out)

\* print writes a string, and the value of the call is that string.
AssignPrint(x) ==
  \E y \in Bound :
    Store(x, "print", <<env[y]>>,
          IF env[y].type = "string" THEN Ok(env[y]) ELSE Fail("thrown"))

-----------------------------------------------------------------------------
(* Expressions and statements on lists.                                    *)

\* list()
AssignList(x) ==
  \E l \in Lists \ Reached(env, lists) : Store(x, "list", <<>>, Ok(ListV(l)))

\* A list as an operand: the elements it has.
Contents(v) == IF IsList(v) THEN [type |-> "list", val |-> lists[v.val]] ELSE v

\* x = y[z]
AssignElement(x) ==
  \E y, z \in Bound :
    \E out \in IF IsList(env[y]) /\ env[z].type = "int"
               THEN Element(lists[env[y].val], env[z].val) ELSE {Fail("thrown")} :
      Store(x, "element", <<Contents(env[y]), env[z]>>, out)

\* y.append(z), the value of which is z, and y += z: the list has one more
\* element, whatever it is.
Added(y, z) ==
  /\ Len(lists[env[y].val]) < MaxElements
  /\ IsList(env[z]) \/ env[z] \in Kept
  /\ HaveElements([lists EXCEPT ![env[y].val] = Append(@, env[z])])

AddElement ==
  \E y, z \in Bound, op \in {"append"} \cup BinOps :
    /\ UNCHANGED env
    /\ IF IsList(env[y]) /\ op \in {"append", "Add"}
       THEN Added(y, z) /\ Done("extend", <<Contents(env[y]), env[z]>>, Ok(env[z]))
       ELSE UNCHANGED lists /\ Done("extend", <<Contents(env[y]), env[z]>>, Fail("thrown"))

\* y[z] = w.  The key is converted to an unsigned index.
SetElement ==
  \E y, z, w \in Bound :
    LET args == <<Contents(env[y]), env[z]>>
    IN /\ UNCHANGED env
       /\ IF IsList(env[y]) /\ env[z].type = "int"
              /\ env[z].val + 1 \in DOMAIN lists[env[y].val]
          THEN /\ IsList(env[w]) \/ env[w] \in Kept
               /\ HaveElements([lists EXCEPT ![env[y].val][env[z].val + 1] = env[w]])
               /\ Done("set", args, Ok(env[w]))
          ELSE UNCHANGED lists /\ Done("set", args, Fail("thrown"))

Ended == status # "running" /\ UNCHANGED evars

ENext ==
  \/ /\ status = "running"
     /\ \/ \E x \in Names :
             \/ AssignConstant(x) \/ AssignName(x) \/ AssignBinOp(x)
             \/ AssignUnaryOp(x) \/ AssignCompare(x) \/ AssignBoolOp(x)
             \/ AssignConversion(x) \/ AssignPrint(x) \/ AssignList(x)
             \/ AssignElement(x)
        \/ AddElement \/ SetElement
  \/ Ended

ESpec == EInit /\ [][ENext]_evars
=============================================================================
