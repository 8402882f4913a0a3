----------------------------- MODULE ParserTypes -----------------------------
(***************************************************************************)
(* The types of the syntax tree (include/ast.h), and that what the parser  *)
(* builds has them.                                                        *)
(***************************************************************************)
EXTENDS Parser

(* The types of ast.h.                                                     *)

\* The classes derived from each type, and the types that are not classes.
Types ==
  [stmt |-> DOMAIN generate_stmt, expr |-> DOMAIN generate_expr, arg |-> {"arg"},
   withitem |-> {"withitem"}, identifier |-> Quoted \cup Apostrophe,
   context |-> ExprContext, binop |-> BinOpKind, boolop |-> BoolOpKind,
   unaryop |-> UnaryOpKind, cmpop |-> CmpOpKind,
   piece |-> Quoted \cup Digits \cup {"0", "nearest", "-", ".", "True", "False"},
   stmts |-> {"stmts"}, exprs |-> {"exprs"}, args |-> {"args"},
   withitems |-> {"withitems"}, cmpops |-> {"cmpops"}]

\* The types of the elements of a vector.
Elements == [stmts |-> "stmt", exprs |-> "expr", args |-> "arg",
             withitems |-> "withitem", cmpops |-> "cmpop", Constant |-> "piece"]

\* The types of the fields of each class.
Fields ==
  [Module |-> <<"stmts">>,
   Import |-> <<"identifier">>, FunctionDef |-> <<"identifier", "args", "stmts">>,
   ClassDef |-> <<"identifier", "stmts">>, Return |-> <<"expr">>,
   Assign |-> <<"exprs", "expr">>, AugAssign |-> <<"expr", "binop", "expr">>,
   While |-> <<"expr", "stmts">>, For |-> <<"expr", "expr", "stmts">>,
   With |-> <<"withitems", "stmts">>, If |-> <<"expr", "stmts", "stmts">>,
   ExprStmt |-> <<"expr">>,
   BoolOp |-> <<"boolop", "exprs">>, BinOp |-> <<"expr", "binop", "expr">>,
   UnaryOp |-> <<"unaryop", "expr">>, Compare |-> <<"expr", "cmpops", "exprs">>,
   Call |-> <<"expr", "exprs">>, Attribute |-> <<"expr", "identifier", "context">>,
   Subscript |-> <<"expr", "expr", "context">>, Name |-> <<"identifier", "context">>,
   arg |-> <<"identifier">>, withitem |-> <<"expr", "expr">>]

FieldsOf(kind) == IF kind \in DOMAIN Fields THEN Fields[kind] ELSE <<>>
MayLack(kind) == IF kind \in {"Return", "withitem"} THEN 1 ELSE 0


\* A node that is a part has all of its own.
Complete(n) == Len(n.parts) >= Len(FieldsOf(n.kind)) - MayLack(n.kind)

\* The parts of n are the first ones of a node of its kind.
Fits(n) ==
  LET type(k) == IF n.kind \in DOMAIN Elements THEN Elements[n.kind]
                 ELSE FieldsOf(n.kind)[k]
  IN /\ n.kind \in DOMAIN Elements \/ Len(n.parts) <= Len(FieldsOf(n.kind))
     /\ \A k \in DOMAIN n.parts : /\ n.parts[k].kind \in Types[type(k)]
                                  /\ Complete(n.parts[k])

WithParts(nodes) == nodes \cup UNION {Range(n.parts) : n \in nodes}
\* The nodes at most that deep below the roots.
Within(roots, depth) ==
  LET within[d \in Nat] == IF d = 0 THEN roots ELSE WithParts(within[d - 1])
  IN within[depth]

\* What the parser has built: the unfinished nodes and the result.
Built == {Node(a.kind, a.parts) : a \in Range(stack)}
           \cup (IF status = "accepted" THEN {module} ELSE {})

\* Type invariant: what the parser has built, unfinished nodes included, has
\* the types of ast.h.  For operators this is what conv_or is for: one of
\* another class would be a null pointer in the interpreter.  A tree is not
\* deeper than its text is long: each level has tokens of its own.
PTypeOK ==
  /\ status \in {"parsing", "accepted", "rejected"}
  /\ pos \in 1..(Len(text) + 1)
  /\ \A n \in Within(Built, Len(text)) : Fits(n)
  /\ status = "accepted" => module.kind = "Module" /\ Complete(module)

ASSUME ParserAssumption ==
  /\ \A s \in Printed : s \in Seq(STRING)
  \* A text in quotes or a run of digits is neither a word of the grammar nor
  \* the other.
  /\ \A t \in Quoted \cup Apostrophe \cup Digits :
       t \notin DOMAIN Fields \cup {"-", ".", ")", "True", "False", "end of text"}
  /\ Quoted \cap Digits = {}
  /\ Huge \subseteq Digits
=============================================================================
