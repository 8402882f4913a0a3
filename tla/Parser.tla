------------------------------- MODULE Parser -------------------------------
(***************************************************************************)
(* The parser (src/parser.cpp, include/ast.h, src/utils.cpp): a recursive  *)
(* descent over the text that Python's ast.dump prints for a program.      *)
(*                                                                         *)
(* The text is a sequence of tokens.  Those of a literal the code compares *)
(* with the text are its pieces: "While(test=" is "While(" and "test=".    *)
(* A quoted text, a run of digits and an operator are one token each; that *)
(* a literal and its length, which the code writes apart, fit each other   *)
(* is taken from the source.                                               *)
(*                                                                         *)
(* The functions generate_... are forms: what each one expects, in order,  *)
(* literals and parts, a part being what another function generates.  The  *)
(* variable stack is the C++ stack: each activation has the rest of its    *)
(* form and the parts it has so far.                                       *)
(***************************************************************************)
EXTENDS Naturals, SequencesExt

CONSTANTS
  Printed,               \* what Python may print
  Quoted, Apostrophe,    \* texts between ' and between "
  Digits,                \* runs of digits
  Huge                   \* those that are too long for ssize_t and double

VARIABLES
  text,                  \* input
  pos,
  stack,                 \* activations, the running one last
  status,                \* parsing, accepted or rejected
  module                 \* the result of generate_ast

pvars == <<text, pos, stack, status, module>>

-----------------------------------------------------------------------------
(* The syntax tree (include/ast.h).                                        *)

CmpOpKind == {"Eq()", "NotEq()", "Lt()", "LtE()", "Gt()", "GtE()", "Is()",
              "IsNot()", "In()", "NotIn()"}
UnaryOpKind == {"Invert()", "Not()", "USub()"}
BinOpKind == {"Add()", "Sub()", "Mult()", "Div()", "Mod()", "Pow()", "LShift()",
              "RShift()", "BitOr()", "BitXor()", "BitAnd()", "FloorDiv()"}
BoolOpKind == {"And()", "Or()"}
OperatorKind == CmpOpKind \cup UnaryOpKind \cup BinOpKind \cup BoolOpKind
ExprContext == {"Load()", "Store()", "Del()"}

\* An object of a class of ast.h, with the values of its fields in their order;
\* a vector, with its elements; an operator, a context or a string.
Node(kind, parts) == [kind |-> kind, parts |-> parts]
Word(token) == Node(token, <<>>)

-----------------------------------------------------------------------------
(* The forms.                                                              *)

generate_module == <<"Module(", "body=", "stmts", ", ", "type_ignores=", "[", "]",
                     ")">>

generate_import == <<"Import(", "names=", "[", "alias(", "name=", "identifier",
                     ")", "]", ")">>
generate_function_def ==
  <<"FunctionDef(", "name=", "identifier", ", ",
    "args=", "arguments(", "posonlyargs=", "[", "]", ", ", "args=", "args", ", ",
    "kwonlyargs=", "[", "]", ", ", "kw_defaults=", "[", "]", ", ",
    "defaults=", "[", "]", ")", ", ", "body=", "stmts", "endOfDef">>
generate_class_def ==
  <<"ClassDef(", "name=", "identifier", ", ", "bases=", "[", "]", ", ",
    "keywords=", "[", "]", ", ", "body=", "stmts", ", ",
    "decorator_list=", "[", "]", ", ", "type_params=", "[", "]", ")">>
generate_return == <<"Return(", "returned">>
generate_assign == <<"Assign(", "targets=", "exprs", ", ", "value=", "expr", ")">>
generate_aug_assign == <<"AugAssign(", "target=", "expr", ", ", "op=", "binop",
                         ", ", "value=", "expr", ")">>
generate_while == <<"While(", "test=", "expr", ", ", "body=", "stmts", ", ",
                    "orelse=", "[", "]", ")">>
generate_for == <<"For(", "target=", "expr", ", ", "iter=", "expr", ", ",
                  "body=", "stmts", ", ", "orelse=", "[", "]", ")">>
generate_with == <<"With(", "items=", "withitems", ", ", "body=", "stmts", ")">>
generate_if == <<"If(", "test=", "expr", ", ", "body=", "stmts", ", ",
                 "orelse=", "stmts", ")">>
generate_expr_stmt == <<"Expr(", "value=", "expr", ")">>

generate_stmt ==
  [Import |-> generate_import, FunctionDef |-> generate_function_def,
   ClassDef |-> generate_class_def, Return |-> generate_return,
   Assign |-> generate_assign, AugAssign |-> generate_aug_assign,
   While |-> generate_while, For |-> generate_for, With |-> generate_with,
   If |-> generate_if, ExprStmt |-> generate_expr_stmt,
   Pass |-> <<"Pass(", ")">>, Break |-> <<"Break(", ")">>,
   Continue |-> <<"Continue(", ")">>]

generate_bool_op == <<"BoolOp(", "op=", "boolop", ", ", "values=", "exprs", ")">>
generate_bin_op == <<"BinOp(", "left=", "expr", ", ", "op=", "binop", ", ",
                     "right=", "expr", ")">>
generate_unary_op == <<"UnaryOp(", "op=", "unaryop", ", ", "operand=", "expr", ")">>
generate_compare == <<"Compare(", "left=", "expr", ", ", "ops=", "cmpops", ", ",
                      "comparators=", "exprs", ")">>
generate_call == <<"Call(", "func=", "expr", ", ", "args=", "exprs", ", ",
                   "keywords=", "[", "]", ")">>
generate_constant == <<"Constant(", "value=", "value", ")">>
generate_attribute == <<"Attribute(", "value=", "expr", ", ",
                        "attr=", "identifier", ", ", "ctx=", "context", ")">>
generate_subscript == <<"Subscript(", "value=", "expr", ", ", "slice=", "expr",
                        ", ", "ctx=", "context", ")">>
generate_name == <<"Name(", "id=", "identifier", ", ", "ctx=", "context", ")">>

generate_expr ==
  [BoolOp |-> generate_bool_op, BinOp |-> generate_bin_op,
   UnaryOp |-> generate_unary_op, Compare |-> generate_compare,
   Call |-> generate_call, Constant |-> generate_constant,
   Attribute |-> generate_attribute, Subscript |-> generate_subscript,
   Name |-> generate_name]

generate_arg == <<"arg(", "arg=", "identifier", ")">>
generate_withitem == <<"withitem(", "context_expr=", "expr", "optionalVars">>

\* What another function is called for, and the forms among which the text
\* decides.
Called == [stmt |-> generate_stmt, expr |-> generate_expr,
           arg |-> [arg |-> generate_arg],
           withitem |-> [withitem |-> generate_withitem]]

\* The ends of a form that has two: a return without a value, an item without
\* a variable, the dump of a def before and since Python 3.12.
Ends ==
  [returned |-> <<<<")">>, <<"value=", "expr", ")">>>>,
   optionalVars |-> <<<<")">>, <<", ", "optional_vars=", "expr", ")">>>>,
   endOfDef |-> <<<<", ", "decorator_list=", "[", "]", ")">>,
                  <<", ", "decorator_list=", "[", "]", ", ",
                    "type_params=", "[", "]", ")">>>>]

\* The functions generate_..._vec, and what their elements are.
Lists == [stmts |-> "stmt", exprs |-> "expr", args |-> "arg",
          withitems |-> "withitem", cmpops |-> "cmpop"]

\* conv_or: an operator of another class is an error.
\* Mutation: any operator will do.
OfClass_any(kinds) == OperatorKind
OfClass(kinds) == OperatorKind \cap kinds

\* Parts that are one token.  A name may stand between ' or between ".
Leaves == [identifier |-> Quoted \cup Apostrophe, context |-> ExprContext,
           binop |-> OfClass(BinOpKind), boolop |-> OfClass(BoolOpKind),
           unaryop |-> OfClass(UnaryOpKind), cmpop |-> OfClass(CmpOpKind)]

Marks == {"value", "begin", "more"}
Parts == DOMAIN Called \cup DOMAIN Ends \cup DOMAIN Lists \cup DOMAIN Leaves \cup Marks

-----------------------------------------------------------------------------
(* Looking at the text.                                                    *)

At(p) == IF p <= Len(text) THEN text[p] ELSE "end of text"

\* sstrcmp
Matches(literal) ==
  \A n \in 1..Len(literal) : At(pos + n - 1) = literal[n]

\* The literal a form begins with.
Opening(form) ==
  LET n == SelectInSeq(form, LAMBDA s : s \in Parts)
  IN IF n = 0 THEN form ELSE SubSeq(form, 1, n - 1)

\* try_tokenize_int: how many tokens at p are an integer.
IntLength(p) ==
  LET sign == IF At(p) = "-" /\ p < Len(text) THEN 1 ELSE 0
      stop == SelectInSubSeq(text, p + sign, Len(text), LAMBDA t : t \notin Digits)
  IN (IF stop = 0 THEN Len(text) + 1 ELSE stop) - p

\* try_tokenize_float
\* Mutation: the fraction is left where it is.
FloatLength_integral(p) == IF At(p + IntLength(p)) = "." THEN IntLength(p) ELSE 0
FloatLength(p) ==
  LET n == IntLength(p)
  IN IF n = 0 \/ At(p + n) # "." THEN 0 ELSE n + 1 + IntLength(p + n + 1)

\* generate_constant_value: how many tokens are a constant.
ConstantLength ==
  CASE At(pos) \in Quoted -> 1
    [] At(pos) \notin Quoted /\ FloatLength(pos) > 0 -> FloatLength(pos)
    [] At(pos) \notin Quoted /\ FloatLength(pos) = 0 /\ IntLength(pos) > 0 ->
         IntLength(pos)
    [] At(pos) \in {"True", "False"} -> 1
    [] OTHER -> 0

-----------------------------------------------------------------------------
(* Constants.                                                              *)

\* The digits of the number the machine has for a run: its own, those of the
\* nearest number there is, or 0 when there are none.
Run(s) ==
  IF s = <<>> THEN <<"0">>
  ELSE [k \in DOMAIN s |-> IF s[k] \in Huge THEN "nearest" ELSE s[k]]

\* from_str<ssize_t>, from_str<double>: operator>> reads a sign, digits and a
\* fraction as far as they go, and 0 when there are no digits.  The number, in
\* the tokens Python has for it.
\* Mutation: a double is read as an integer.
FromStr_integral(s) == IF "." \in Range(s) THEN Run(<<Head(s)>>) ELSE s
FromStr(s) ==
  LET sign == IF Head(s) = "-" THEN <<"-">> ELSE <<>>
      unsigned == SubSeq(s, Len(sign) + 1, Len(s))
      dot == SelectInSeq(unsigned, LAMBDA t : t = ".")
      whole == IF dot = 0 THEN unsigned ELSE SubSeq(unsigned, 1, dot - 1)
      rest == SubSeq(unsigned, dot + 1, Len(unsigned))
      fraction == IF rest # <<>> /\ Head(rest) = "-" THEN <<>> ELSE rest
  IN IF dot = 0
     THEN IF Run(whole) = <<"0">> THEN <<"0">> ELSE sign \o Run(whole)
     ELSE (IF whole = <<>> /\ fraction = <<>> THEN <<>> ELSE sign)
            \o Run(whole) \o <<".">> \o Run(fraction)

\* What a constant between two positions of the text becomes, as the parts of
\* its node.
Value(from, to) ==
  LET s == SubSeq(text, from, to - 1)
      v == IF Head(s) \in Quoted \cup {"True", "False"} THEN s ELSE FromStr(s)
  IN [k \in DOMAIN v |-> Word(v[k])]

-----------------------------------------------------------------------------
(* The descent.                                                            *)

Activation(kind, form) == [kind |-> kind, rest |-> form, parts |-> <<>>]

\* What main hands to generate_ast: trim takes the newline of print away.
Trim(s) == IF s # <<>> /\ Last(s) = "\n" THEN Front(s) ELSE s

PInit ==
  /\ text \in {Trim(s) : s \in Printed}
  /\ pos = 1
  /\ stack = <<Activation("Module", generate_module)>>
  /\ status = "parsing"
  /\ module = Node("none", <<>>)

Top == Last(stack)
Symbol == Head(Top.rest)
Expects(S) == status = "parsing" /\ Top.rest # <<>> /\ Symbol \in S

\* The running function goes on after n tokens with form before the rest.
Proceed(n, form, parts) ==
  /\ pos' = pos + n
  /\ stack' = [stack EXCEPT ![Len(stack)].rest = form \o Tail(@),
                            ![Len(stack)].parts = @ \o parts]
  /\ UNCHANGED <<text, status, module>>

\* parse_error: std::runtime_error, which nothing catches.
ParseError == status' = "rejected" /\ UNCHANGED <<text, pos, stack, module>>

\* A literal: assume(sstrcmp(...)), or the test that selected the form.
Literal ==
  /\ status = "parsing" /\ Top.rest # <<>> /\ Symbol \notin Parts
  /\ IF At(pos) = Symbol THEN Proceed(1, <<>>, <<>>) ELSE ParseError

\* An identifier, a context or an operator.
Leaf ==
  /\ Expects(DOMAIN Leaves)
  /\ IF At(pos) \in Leaves[Symbol] THEN Proceed(1, <<>>, <<Word(At(pos))>>)
     ELSE ParseError

Constant ==
  /\ Expects({"value"})
  /\ LET n == ConstantLength
     IN IF n > 0 THEN Proceed(n, <<>>, Value(pos, pos + n)) ELSE ParseError

\* One function calls another one, which the text selects.
Call ==
  /\ Expects(DOMAIN Called)
  /\ LET forms == Called[Symbol]
         chosen == {kind \in DOMAIN forms : Matches(Opening(forms[kind]))}
     IN IF chosen = {} THEN ParseError
        ELSE /\ \E kind \in chosen :
                  stack' = Append(stack, Activation(kind, forms[kind]))
             /\ UNCHANGED <<text, pos, status, module>>

End ==
  /\ Expects(DOMAIN Ends)
  /\ LET n == SelectInSeq(Ends[Symbol], LAMBDA form : Matches(Opening(form)))
     IN IF n = 0 THEN ParseError ELSE Proceed(0, Ends[Symbol][n], <<>>)

\* A vector: [ and either ] or elements.
Vector ==
  /\ Expects(DOMAIN Lists)
  /\ stack' = Append(stack, Activation(Symbol, <<"[", "begin">>))
  /\ UNCHANGED <<text, pos, status, module>>

Begin ==
  /\ Expects({"begin"})
  /\ IF At(pos) = "]" THEN Proceed(1, <<>>, <<>>)
     ELSE Proceed(0, <<Lists[Top.kind], "more">>, <<>>)

\* After an element: another one, or ].
More ==
  /\ Expects({"more"})
  /\ IF At(pos) = ", " THEN Proceed(1, <<Lists[Top.kind], "more">>, <<>>)
     ELSE Proceed(0, <<"]">>, <<>>)

Result == Node(Top.kind, Top.parts)

\* A function is over and its caller has one part more.
Return ==
  /\ status = "parsing"
  /\ Top.rest = <<>>
  /\ Len(stack) > 1
  /\ stack' = LET caller == Front(stack)
              IN [caller EXCEPT ![Len(caller)].rest = Tail(@),
                                ![Len(caller)].parts = Append(@, Result)]
  /\ UNCHANGED <<text, pos, status, module>>

\* generate_ast: the module must be the whole text.
Finish ==
  /\ status = "parsing"
  /\ Top.rest = <<>>
  /\ Len(stack) = 1
  /\ IF pos = Len(text) + 1 THEN status' = "accepted" /\ module' = Result
     ELSE status' = "rejected" /\ UNCHANGED module
  /\ UNCHANGED <<text, pos, stack>>

PStop == status # "parsing" /\ UNCHANGED pvars

PStep == Literal \/ Leaf \/ Constant \/ Call \/ End \/ Vector \/ Begin \/ More
         \/ Return \/ Finish

PNext == PStep \/ PStop

PSpec == PInit /\ [][PNext]_pvars
=============================================================================
