---------------------------- MODULE EvaluatorInv ----------------------------
(***************************************************************************)
(* What the operators of the interpreter promise to a Python program: the  *)
(* values Python gives, wherever the result is an integer of the machine   *)
(* and Python raises no exception.                                         *)
(***************************************************************************)
EXTENDS Evaluator

Value == Literal \cup [type : {"list"}, val : Lists]

\* Type invariant: every variable and every element is a value, integers inside
\* the machine's range (BinOp, interpreter.cpp 100-306, stores no other).
ETypeOK ==
  /\ env \in [Names -> Value \cup {Unset}]
  /\ lists \in [Lists -> Seq(Value)]
  /\ status \in {"running", "thrown", "trap", "wild", "runaway"}
  /\ (status = "running") = (did = Nothing \/ did.out.kind = "value")

\* What did records is what the operators say of its operands.
DidInv ==
  LET l == did.args[1]
      r == did.args[2]
  IN /\ did.op \in BinOps =>
          l \in Value /\ r \in Value /\ did.out = BinOp(did.op, l, r)
     /\ did.op \in {"element", "set"} /\ l.type = "list" /\ r.type = "int" =>
          /\ l.val \in Seq(Value) /\ r.val \in Int
          /\ did.op = "element" => did.out \in Element(l.val, r.val)
          /\ did.op = "set" /\ r.val + 1 \notin DOMAIN l.val => did.out = Fail("thrown")

-----------------------------------------------------------------------------
(* Python's own operators, on unbounded integers.                          *)

FloorQuotient(l, r) == CHOOSE q \in -Abs(l)..Abs(l) :
  IF r > 0 THEN q * r <= l /\ l < (q + 1) * r ELSE q * r >= l /\ l > (q + 1) * r

\* A bit of the infinite two's complement of n.
PyBit(n, k) == (n \div Pow2[k]) % 2
PyBits(n) == {k \in 0..Width : PyBit(n, k) = 1}
\* The integer whose two's complement has exactly these bits.
OfBits(B) == CHOOSE n \in -Pow2[Width]..(Pow2[Width] - 1) : PyBits(n) = B

PyInt(op, l, r) ==
  CASE op = "Add" -> l + r
    [] op = "Sub" -> l - r
    [] op = "Mult" -> l * r
    [] op = "Mod" -> l - r * FloorQuotient(l, r)
    [] op = "FloorDiv" -> FloorQuotient(l, r)
    [] op = "Pow" -> IF r = 0 THEN 1 ELSE l^r
    [] op = "LShift" -> l * Pow2[r]
    [] op = "RShift" -> FloorQuotient(l, Pow2[r])
    [] op = "BitOr" -> OfBits(PyBits(l) \cup PyBits(r))
    [] op = "BitAnd" -> OfBits(PyBits(l) \cap PyBits(r))
    [] op = "BitXor" -> OfBits((PyBits(l) \cup PyBits(r)) \ (PyBits(l) \cap PyBits(r)))

\* Where Python raises no exception and gives an integer.
PyDefined(op, l, r) ==
  CASE op \in {"Mod", "FloorDiv"} -> r # 0
    [] op \in {"Pow", "LShift", "RShift"} -> r >= 0
    [] op = "Div" -> FALSE
    [] OTHER -> TRUE

\* The operations on which the interpreter follows Python: integers whose
\* result fits, powers that a double holds exactly, division with operands of
\* one sign and a quotient that fits, shifts inside the word.
Portable(op, l, r) ==
  /\ PyDefined(op, l, r)
  /\ op \in {"LShift", "RShift"} => r < Width
  /\ op = "Pow" => Exact(l) /\ Exact(r) /\ Exact(PyInt(op, l, r))
  /\ op \in {"Mod", "FloorDiv"} => l * r >= 0 /\ Fits(FloorQuotient(l, r))
  /\ Fits(PyInt(op, l, r))

Both(type) == \A k \in 1..2 : did.args[k].type = type
Result(v) == did.out = Ok(v)

\* A BinOp on integers gives Python's value wherever that value fits in an
\* ssize_t, a power needs no rounding, the operands of // and % have one sign and
\* a shift stays inside the word; a BinOp on booleans counts True as 1 and a string is repeated and
\* joined as in Python (interpreter.cpp 113-303).
BinOpAgrees ==
  LET l == did.args[1].val
      r == did.args[2].val
      n(b) == IF b THEN 1 ELSE 0
  IN /\ Both("int") /\ Portable(did.op, l, r)
          => Result(IntV(PyInt(did.op, l, r)))
     /\ Both("bool") /\ did.op \in {"Add", "Sub", "Mult"}
          => Result(IntV(PyInt(did.op, n(l), n(r))))
     /\ Both("string") /\ did.op = "Add" => Result(StrV(l \o r))
     /\ /\ did.op = "Mult" /\ did.args[1].type = "string"
        /\ did.args[2].type = "int" /\ r >= 0
        => /\ did.out.kind = "value" /\ Len(did.out.value.val) = r * Len(l)
           /\ \A k \in 1..(r * Len(l)) :
                did.out.value.val[k] = l[((k - 1) % Len(l)) + 1]

\* int(str(n)) = n: from_str reads back what std::to_string wrote
\* (interpreter.cpp 610 and 637, utils.h 27-33).
StrAgrees ==
  \A x \in Bound :
    env[x].type = "int" => FromStr(Decimal(env[x].val)) = {env[x].val}

\* An index gives the element Python gives, and is refused when it is out of
\* range, unless it is negative and in Python's range (interpreter.cpp 748-773,
\* 832-843; std::vector::at).
ElementAgrees ==
  LET s == did.args[1].val
      k == did.args[2].val
  IN did.args[1].type = "list" /\ did.args[2].type = "int" /\ (k >= 0 \/ k < -Len(s)) =>
       IF k + 1 \in DOMAIN s
       THEN did.op = "element" => did.out = Ok(s[k + 1])
       ELSE did.out.kind = "thrown"

\* Where the operators, conversions and indices are defined alike they give what
\* Python gives: see BinOpAgrees, StrAgrees and ElementAgrees.
AgreesWithPython ==
  /\ did.op \in BinOps => BinOpAgrees
  /\ did.op \in {"element", "set"} => ElementAgrees
  /\ StrAgrees

\* The comparisons of two values of one type are those of one total order:
\* exactly one of <, == and > holds, and <=, >= and != say the opposite of >,
\* < and == (interpreter.cpp 357-458, a branch for each operator and type).
OneOrder ==
  \A x, y \in Bound :
    LET l == env[x]
        r == env[y]
        Says(op) == Compare(op, l, r) = {Ok(BoolV(TRUE))}
    IN l.type = r.type /\ l.type \notin {"float", "list"} =>
         /\ Cardinality({op \in {"Lt", "Eq", "Gt"} : Says(op)}) = 1
         /\ Says("LtE") = ~Says("Gt")
         /\ Says("GtE") = ~Says("Lt")
         /\ Says("NotEq") = ~Says("Eq")
=============================================================================
