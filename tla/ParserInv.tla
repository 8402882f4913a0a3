------------------------------ MODULE ParserInv ------------------------------
(***************************************************************************)
(* The properties of the parser: the trees it builds have the types of     *)
(* include/ast.h, it accepts the dumps of the trees it has a case for, and *)
(* it loses nothing of what it accepts but numbers.                        *)
(*                                                                         *)
(* Dump is the reference: how ast.dump prints a tree, derived from the     *)
(* fields of Python's nodes and not from the forms of Parser.              *)
(***************************************************************************)
EXTENDS ParserTypes

CONSTANT Programs        \* trees of the classes and fields it has a case for

-----------------------------------------------------------------------------
(* How Python prints a tree.                                               *)

\* The fields of the nodes of Python's grammar, in the order of the grammar,
\* and what they hold: a part of the tree, or "none", which is an empty list
\* in every program the code of the parser has a case for, or "new", an empty
\* list that is there since 3.12.  misc/ast_spec.asdl lists more than there is
\* code for: List, Dict, the annotation of a function's result and the orelse
\* of a loop.
PythonFields ==
  [Module |-> <<<<"body", "nodes">>, <<"type_ignores", "none">>>>,
   Import |-> <<<<"names", "aliases">>>>,
   FunctionDef |-> <<<<"name", "word">>, <<"args", "arguments">>, <<"body", "nodes">>,
                     <<"decorator_list", "none">>, <<"type_params", "new">>>>,
   ClassDef |-> <<<<"name", "word">>, <<"bases", "none">>, <<"keywords", "none">>,
                  <<"body", "nodes">>, <<"decorator_list", "none">>,
                  <<"type_params", "new">>>>,
   Return |-> <<<<"value", "node">>>>,
   Assign |-> <<<<"targets", "nodes">>, <<"value", "node">>>>,
   AugAssign |-> <<<<"target", "node">>, <<"op", "word">>, <<"value", "node">>>>,
   While |-> <<<<"test", "node">>, <<"body", "nodes">>, <<"orelse", "none">>>>,
   For |-> <<<<"target", "node">>, <<"iter", "node">>, <<"body", "nodes">>,
             <<"orelse", "none">>>>,
   With |-> <<<<"items", "nodes">>, <<"body", "nodes">>>>,
   If |-> <<<<"test", "node">>, <<"body", "nodes">>, <<"orelse", "nodes">>>>,
   ExprStmt |-> <<<<"value", "node">>>>,
   Pass |-> <<>>, Break |-> <<>>, Continue |-> <<>>,
   BoolOp |-> <<<<"op", "word">>, <<"values", "nodes">>>>,
   BinOp |-> <<<<"left", "node">>, <<"op", "word">>, <<"right", "node">>>>,
   UnaryOp |-> <<<<"op", "word">>, <<"operand", "node">>>>,
   Compare |-> <<<<"left", "node">>, <<"ops", "words">>, <<"comparators", "nodes">>>>,
   Call |-> <<<<"func", "node">>, <<"args", "nodes">>, <<"keywords", "none">>>>,
   Attribute |-> <<<<"value", "node">>, <<"attr", "word">>, <<"ctx", "word">>>>,
   Subscript |-> <<<<"value", "node">>, <<"slice", "node">>, <<"ctx", "word">>>>,
   Name |-> <<<<"id", "word">>, <<"ctx", "word">>>>,
   arg |-> <<<<"arg", "word">>>>,
   withitem |-> <<<<"context_expr", "node">>, <<"optional_vars", "node">>>>]

Versions == {"3.11", "3.12"}

CommaJoined(texts) ==
  FlattenSeq([k \in DOMAIN texts |-> IF k = 1 THEN texts[k] ELSE <<", ">> \o texts[k]])

Bracketed(texts) == <<"[">> \o CommaJoined(texts) \o <<"]">>

RECURSIVE Dump(_, _)
DumpAll(nodes, version) == [k \in DOMAIN nodes |-> Dump(nodes[k], version)]
\* The value of a field that holds the part x.
DumpPart(x, holds, version) ==
  CASE holds = "word" -> <<x.kind>>
    [] holds = "words" -> Bracketed([k \in DOMAIN x.parts |-> <<x.parts[k].kind>>])
    [] holds = "node" -> Dump(x, version)
    [] holds = "nodes" -> Bracketed(DumpAll(x.parts, version))
    [] holds = "aliases" -> <<"[", "alias(", "name=", x.kind, ")", "]">>
    [] holds = "arguments" ->
         <<"arguments(", "posonlyargs=", "[", "]", ", ", "args=">>
           \o Bracketed(DumpAll(x.parts, version))
           \o <<", ", "kwonlyargs=", "[", "]", ", ", "kw_defaults=", "[", "]", ", ",
                "defaults=", "[", "]", ")">>
DumpNode(n, version) ==
  LET fields == PythonFields[n.kind]
      isPart(k) == fields[k][2] \notin {"none", "new"}
      partOf(k) == Cardinality({l \in 1..k : isPart(l)})
      \* None is not printed, nor a field the version does not have.
      printed == SelectSeq([k \in DOMAIN fields |-> k],
                           LAMBDA k : IF isPart(k) THEN partOf(k) <= Len(n.parts)
                                      ELSE fields[k][2] = "none" \/ version = "3.12")
      field(k) == <<fields[k][1] \o "=">>
                    \o IF isPart(k)
                       THEN DumpPart(n.parts[partOf(k)], fields[k][2], version)
                       ELSE <<"[", "]">>
      class == IF n.kind = "ExprStmt" THEN "Expr" ELSE n.kind
  IN <<class \o "(">> \o CommaJoined([k \in DOMAIN printed |-> field(printed[k])])
       \o <<")">>

DumpConstant(n) ==
  <<"Constant(", "value=">> \o [k \in DOMAIN n.parts |-> n.parts[k].kind] \o <<")">>
Dump(n, version) ==
  IF n.kind = "Constant" THEN DumpConstant(n) ELSE DumpNode(n, version)

-----------------------------------------------------------------------------

\* The numbers of the text are written as Python prints them, and the machine
\* has them.
Number == {<<d>> : d \in Digits \ Huge}
            \cup {<<d, ".", e>> : d, e \in Digits \ Huge}
NumbersFit ==
  \A p \in 2..Len(text) :
    LET end == SelectInSubSeq(text, p, Len(text), LAMBDA t : t \notin Digits \cup {"-", "."})
    IN text[p - 1] = "value=" /\ end > p => SubSeq(text, p, end - 1) \in Number

\* Nothing of an accepted text is lost and nothing is added: it is what Python
\* prints for the tree the parser built, unless a number was in it that the
\* machine does not have.  The functions only skip the text they compare, so
\* that a swapped field, a missing check or text left behind would be found
\* here.
Lossless ==
  status = "accepted" /\ NumbersFit =>
    \E version \in Versions : Dump(module, version) = text

RECURSIVE HasClass(_)
HasClass(n) ==
  n.kind = "ClassDef" \/ \E k \in DOMAIN n.parts : HasClass(n.parts[k])

\* The dumps of Programs; for a class only that of Python 3.12, see
\* generate_class_def.
Dumps == {Dump(n, "3.12") : n \in Programs}
           \cup {Dump(n, "3.11") : n \in {m \in Programs : ~HasClass(m)}}

\* No program of the classes and fields the parser has a case for is refused,
\* in the words of either version of Python, whatever stands next to what.
AcceptsItsGrammar == status = "rejected" => text \notin Dumps
=============================================================================
