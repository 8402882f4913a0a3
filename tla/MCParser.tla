------------------------------ MODULE MCParser ------------------------------
(***************************************************************************)
(* Instances of the parser for TLC: every class of the tree in every place *)
(* it may stand, and for some of the programs every text that differs from *)
(* their dump by one token, or stops before its end.                       *)
(***************************************************************************)
EXTENDS ParserInv

MCQuoted == {"'x'"}
MCApostrophe == {"\"it's\""}
MCDigits == {"0", "7", "99"}
MCHuge == {"99"}

Ident == Word("'x'")
Const(pieces) == Node("Constant", [k \in DOMAIN pieces |-> Word(pieces[k])])
Name(context) == Node("Name", <<Ident, Word(context)>>)
Exprs(s) == Node("exprs", s)
Stmts(s) == Node("stmts", s)
Seven == Const(<<"7">>)
Var == Name("Load()")
Target == Name("Store()")

Atoms == {Var, Name("Del()"), Seven, Const(<<"0">>), Const(<<"99">>),
          Const(<<"7", ".", "7">>), Const(<<"0", ".", "7">>), Const(<<"True">>),
          Const(<<"False">>), Const(<<"'x'">>)}
Compare(ops, operands) ==
  Node("Compare", <<Var, Node("cmpops", [k \in DOMAIN ops |-> Word(ops[k])]),
                    Exprs(operands)>>)
CallOf(args) == Node("Call", <<Var, Exprs(args)>>)
Compounds ==
  {Node("BoolOp", <<Word(op), Exprs(<<Var, Seven>>)>>) : op \in BoolOpKind}
    \cup {Node("BinOp", <<Seven, Word(op), Var>>) : op \in BinOpKind}
    \cup {Node("UnaryOp", <<Word(op), Var>>) : op \in UnaryOpKind}
    \cup {Compare(<<op>>, <<Seven>>) : op \in CmpOpKind}
    \cup {Compare(<<"Lt()", "NotIn()">>, <<Seven, Var>>),
          CallOf(<<>>), CallOf(<<Seven>>), CallOf(<<Var, Seven>>),
          Node("Attribute", <<Var, Ident, Word("Load()")>>),
          Node("Subscript", <<Var, Seven, Word("Store()")>>)}
Nested ==
  {Node("BinOp", <<e, Word("Add()"), Node("UnaryOp", <<Word("USub()"), e>>)>>) :
     e \in Compounds}
    \cup {Node("Subscript", <<Node("Call", <<e, Exprs(<<e>>)>>), e, Word("Load()")>>) :
            e \in Atoms}
Expressions == Atoms \cup Compounds \cup Nested

Pass == Node("Pass", <<>>)
ExprStmt(e) == Node("ExprStmt", <<e>>)
Assign(targets, e) == Node("Assign", <<Exprs(targets), e>>)
Simple ==
  {Pass, Node("Break", <<>>), Node("Continue", <<>>), Node("Return", <<>>),
   Node("Return", <<Var>>), Node("Import", <<Ident>>), ExprStmt(Var),
   Assign(<<Target>>, Seven), Assign(<<Target, Target>>, Var)}
    \cup {Node("AugAssign", <<Target, Word(op), Seven>>) : op \in BinOpKind}
With(items, body) == Node("With", <<Node("withitems", items), Stmts(body)>>)
Item(parts) == Node("withitem", parts)
FunctionDef(args, body) == Node("FunctionDef", <<Ident, Node("args", args), Stmts(body)>>)
Arg == Node("arg", <<Ident>>)
If(e, body, orelse) == Node("If", <<e, Stmts(body), Stmts(orelse)>>)
Blocks(body) ==
  {Node("While", <<Var, Stmts(body)>>), Node("For", <<Target, Var, Stmts(body)>>),
   If(Var, body, <<>>), If(Var, body, body),
   With(<<Item(<<Var>>)>>, body), With(<<Item(<<Var, Target>>), Item(<<Seven>>)>>, body),
   FunctionDef(<<>>, body), FunctionDef(<<Arg, Arg>>, body),
   Node("ClassDef", <<Ident, Stmts(body)>>)}
Compound == UNION {Blocks(<<s>>) : s \in Simple}
              \cup UNION {Blocks(<<s, Pass>>) : s \in Blocks(<<Pass>>)}

Modules(bodies) == {Node("Module", <<Stmts(body)>>) : body \in bodies}

MCPrograms ==
  Modules({<<>>} \cup {<<s>> : s \in Simple \cup Compound}
            \cup {<<ExprStmt(e)>> : e \in Expressions}
            \cup {<<Assign(<<Target>>, e), If(e, <<Pass>>, <<>>)>> : e \in Compounds})

-----------------------------------------------------------------------------

\* Programs with every form in them.
Probes ==
  Modules(
    {<<>>, <<Node("Import", <<Ident>>)>>, <<Node("Return", <<>>)>>,
     <<Assign(<<Target>>, Node("Subscript", <<Var, Seven, Word("Load()")>>))>>,
     <<Node("AugAssign", <<Target, Word("Add()"), Const(<<"7", ".", "7">>)>>)>>,
     <<If(Compare(<<"Lt()">>, <<Const(<<"True">>)>>), <<Pass>>, <<Pass>>)>>,
     <<With(<<Item(<<Var, Target>>)>>, <<ExprStmt(CallOf(<<Const(<<"'x'">>)>>))>>)>>}
    \cup {<<s>> : s \in Blocks(<<Pass>>)}
    \cup {<<Node("Return", <<e>>)>> : e \in
            {Node("BoolOp", <<Word("And()"), Exprs(<<Var, Seven>>)>>),
             Node("BinOp", <<Seven, Word("Mod()"), Var>>),
             Node("UnaryOp", <<Word("Not()"), Seven>>),
             Node("Attribute", <<Var, Ident, Word("Load()")>>)}})

\* What another program, or a part of Python the parser does not know, has in
\* the place of a token or beside one.
Others == {"[", "]", ")", ", ", "Or()", "Eq()", "Load()", "7", "99", "-", "None", "\"it's\""}
Extra == {"]", ", ", "-", "."}

Shorter(s) == {RemoveAt(s, k) : k \in DOMAIN s} \cup {SubSeq(s, 1, k) : k \in 0..Len(s)}
Changed(s) == {ReplaceAt(s, k, t) : k \in DOMAIN s, t \in Others}
                \cup {InsertAt(s, k, t) : k \in 1..(Len(s) + 1), t \in Extra}

MCPrinted ==
  {Dump(n, v) \o <<"\n">> : n \in MCPrograms, v \in Versions}
    \cup UNION {LET s == Dump(n, "3.12") IN Shorter(s) \cup Changed(s) : n \in Probes}
=============================================================================
