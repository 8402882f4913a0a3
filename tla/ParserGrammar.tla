--------------------------- MODULE ParserGrammar ---------------------------
(***************************************************************************)
(* The language of the forms: which text is the dump of which tree,        *)
(* whatever order the parser reads it in, and that the parser accepts      *)
(* these texts, with these trees, and refuses all others.                  *)
(***************************************************************************)
EXTENDS ParserTypes

\* A sequence of whatever.
IsSeq(s) == Len(s) \in Nat /\ s = [i \in 1..Len(s) |-> s[i]]

Comma == ", "

-----------------------------------------------------------------------------
(* Productions.                                                            *)

IsForm(kind, form) ==
  \/ kind = "Module" /\ form = generate_module
  \/ \E symbol \in DOMAIN Called : kind \in DOMAIN Called[symbol]
                                   /\ form = Called[symbol][kind]

\* A form with one of its ends in the place of the symbol for them.
IsEnded(form, symbols) ==
  /\ form # <<>> /\ Last(form) \in DOMAIN Ends
  /\ \E e \in DOMAIN Ends[Last(form)] : symbols = Front(form) \o Ends[Last(form)][e]

\* [ and n elements with commas between them and ].
IsList(element, symbols, n) ==
  /\ IsSeq(symbols) /\ n \in Nat
  /\ Len(symbols) = IF n = 0 THEN 2 ELSE 2 * n + 1
  /\ symbols[1] = "[" /\ symbols[Len(symbols)] = "]"
  /\ \A k \in 1..n : symbols[2 * k] = element
  /\ \A k \in 1..(n - 1) : symbols[2 * k + 1] = Comma

\* The symbols the dump of a node of this kind may consist of.
Produces(kind, symbols) ==
  \/ \E form : /\ IsForm(kind, form)
               /\ \/ symbols = form /\ Last(form) \notin DOMAIN Ends
                  \/ IsEnded(form, symbols)
  \/ kind \in DOMAIN Lists /\ \E n \in Nat : IsList(Lists[kind], symbols, n)

\* What is generated for a symbol is of this kind.
Answers(kind, symbol) ==
  \/ symbol \in DOMAIN Called /\ kind \in DOMAIN Called[symbol]
  \/ symbol \in DOMAIN Lists /\ kind = symbol

-----------------------------------------------------------------------------
(* Dumps.  A derivation is a set of nodes that have been read, each one    *)
(* with its tree, its symbols, the position cut[i] of symbol i in the text *)
(* and the number at[i] of the parts before it.                            *)

\* A sign, perhaps, and digits.
IsInt(from, to) ==
  from <= to /\ \A p \in from..(to - 1) : text[p] \in Digits \/ (p = from /\ text[p] = "-")
IsFloat(from, to) ==
  \E dot \in from..(to - 1) : /\ from < dot /\ text[dot] = "."
                              /\ IsInt(from, dot) /\ IsInt(dot + 1, to)
IsValue(from, to) ==
  \/ to = from + 1 /\ text[from] \in Quoted \cup {"True", "False"}
  \/ from < to /\ IsInt(from, to)
  \/ IsFloat(from, to)

ReadsWord(n, i) ==
  /\ n.symbols[i] \notin Parts /\ text[n.cut[i]] = n.symbols[i]
  /\ n.cut[i + 1] = n.cut[i] + 1 /\ n.at[i + 1] = n.at[i]
ReadsLeaf(n, i) ==
  /\ n.symbols[i] \in DOMAIN Leaves /\ text[n.cut[i]] \in Leaves[n.symbols[i]]
  /\ n.cut[i + 1] = n.cut[i] + 1 /\ n.at[i + 1] = n.at[i] + 1
  /\ n.tree.parts[n.at[i] + 1] = Word(text[n.cut[i]])
ReadsValue(n, i) ==
  /\ n.symbols[i] = "value" /\ IsValue(n.cut[i], n.cut[i + 1])
  /\ LET value == Value(n.cut[i], n.cut[i + 1])
     IN /\ Len(value) = n.at[i + 1] - n.at[i]
        /\ \A k \in 1..Len(value) : n.tree.parts[n.at[i] + k] = value[k]

From(n) == n.cut[1]
To(n) == n.cut[Len(n.symbols) + 1]

\* The node c has been read for symbol i of n.
IsChild(n, i, c) ==
  /\ Answers(c.tree.kind, n.symbols[i]) /\ c.tree = n.tree.parts[n.at[i] + 1]
  /\ From(c) = n.cut[i] /\ To(c) = n.cut[i + 1]
ReadsNode(D, n, i) ==
  /\ n.symbols[i] \in DOMAIN Called \cup DOMAIN Lists /\ n.at[i + 1] = n.at[i] + 1
  /\ \E c \in D : IsChild(n, i, c)

\* What has been read of n so far.
SoFar(D, n) ==
  /\ n.tree = Node(n.tree.kind, n.tree.parts) /\ IsSeq(n.tree.parts) /\ IsSeq(n.symbols)
  /\ n.cut \in [1..(Len(n.symbols) + 1) -> 1..(Len(text) + 1)]
  /\ n.at \in [1..(Len(n.symbols) + 1) -> Nat]
  /\ n.at[1] = 0 /\ n.at[Len(n.symbols) + 1] = Len(n.tree.parts)
  /\ \A i \in 1..Len(n.symbols) :
       ReadsWord(n, i) \/ ReadsLeaf(n, i) \/ ReadsValue(n, i) \/ ReadsNode(D, n, i)

\* A production begins with a word, so that a node is longer than those below
\* it: a derivation has no cycles.
IsDerivation(D) == \A n \in D : SoFar(D, n) /\ Produces(n.tree.kind, n.symbols)

IsRoot(D, n) ==
  /\ IsDerivation(D) /\ n \in D
  /\ n.tree.kind = "Module" /\ From(n) = 1 /\ To(n) = Len(text) + 1

\* The text is the dump of this tree.
IsDumpOf(tree) == \E D, n : IsRoot(D, n) /\ n.tree = tree

-----------------------------------------------------------------------------

\* The parser accepts the dumps and nothing else, and the tree it builds is the
\* only one whose dump the text is: no choice by what the text begins with, no
\* number that is read as far as it goes, no end of a list and no position that
\* is moved by the length of a literal leads it astray.
AcceptsExactly ==
  /\ status = "accepted" => IsDumpOf(module) /\ \A tree : IsDumpOf(tree) => tree = module
  /\ status = "rejected" => ~ \E tree : IsDumpOf(tree)
=============================================================================
