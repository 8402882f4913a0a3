---------------------------- MODULE ParserProofs ----------------------------
(***************************************************************************)
(* Theorems about Parser, for every text and every set of names and        *)
(* numbers: the trees it builds have the types of include/ast.h, and it    *)
(* accepts the dumps of trees and nothing else.                            *)
(*                                                                         *)
(* The types depend on the forms, which are written out here symbol by     *)
(* symbol: FormFits says that the parts a form still asks for are the ones *)
(* a node of its kind still lacks.  It holds of every form as it begins    *)
(* and of what is left of it after each step.                              *)
(*                                                                         *)
(* That a dump is accepted: each function on the stack reads a node of its *)
(* derivation (Path).  That nothing else is: what has been read, and is    *)
(* being read, is a derivation (HasBeenRead).                              *)
(***************************************************************************)
EXTENDS ParserGrammar, NumberLemmas, TLAPS

\* A name for a word with a space in it, which the SMT solver cannot read.
EndOfText == "end of text"

ElementsOf(s) == {s[i] : i \in 1..Len(s)}

-----------------------------------------------------------------------------
(* Sequences.                                                              *)

LEMMA SeqOfElements ==
  ASSUME NEW s, IsSeq(s)
  PROVE  s \in Seq(ElementsOf(s))
<1>1. \A i \in 1..Len(s) : s[i] \in ElementsOf(s)
  BY DEF ElementsOf
<1>2. s \in [1..Len(s) -> ElementsOf(s)]
  BY <1>1 DEF IsSeq
<1> QED
  BY <1>2 DEF IsSeq

LEMMA SeqIs ==
  ASSUME NEW S, NEW s \in Seq(S)
  PROVE  IsSeq(s)
BY DEF IsSeq

LEMMA TailOf ==
  ASSUME NEW s, IsSeq(s), s # <<>>
  PROVE  /\ IsSeq(Tail(s)) /\ Len(s) > 0 /\ Head(s) = s[1]
         /\ Len(Tail(s)) = Len(s) - 1
         /\ \A i \in 1..Len(Tail(s)) : Tail(s)[i] = s[i + 1]
<1>1. s \in Seq(ElementsOf(s))
  BY SeqOfElements
<1>2. Tail(s) \in Seq(ElementsOf(s)) /\ Len(s) > 0 /\ Head(s) = s[1]
  BY <1>1
<1>3. IsSeq(Tail(s))
  BY <1>2, SeqIs
<1>4. Len(Tail(s)) = Len(s) - 1
  BY <1>1, <1>2
<1>5. \A i \in 1..Len(Tail(s)) : Tail(s)[i] = s[i + 1]
  BY <1>1, <1>2
<1> QED
  BY <1>2, <1>3, <1>4, <1>5

LEMMA EmptyIs ==
  ASSUME NEW s, IsSeq(s), Len(s) = 0
  PROVE  s = <<>>
<1>1. s \in Seq(ElementsOf(s))
  BY SeqOfElements
<1> QED
  BY <1>1

LEMMA ConcatEmpty ==
  ASSUME NEW s, IsSeq(s)
  PROVE  <<>> \o s = s /\ s \o <<>> = s
<1>1. s \in Seq(ElementsOf(s))
  BY SeqOfElements
<1> QED
  BY <1>1

-----------------------------------------------------------------------------
(* What a form still asks for.                                             *)

\* The symbols for which a part is put into the node.
Places == DOMAIN Called \cup DOMAIN Lists \cup DOMAIN Leaves

\* count[i] parts are there before symbol i of the form, given how many were
\* there before the first one, and each part is the next field of its kind.
Counts(kind, form, given, count) ==
  /\ IsSeq(form) /\ given \in Nat
  /\ count \in [1..(Len(form) + 1) -> Nat]
  /\ count[1] = given
  /\ \A i \in 1..Len(form) :
       /\ form[i] \notin Marks \cup {EndOfText}
       /\ form[i] \in DOMAIN Ends => i = Len(form)
       /\ form[i] \notin Places => count[i + 1] = count[i]
       /\ form[i] \in Places => /\ count[i + 1] = count[i] + 1
                                /\ count[i + 1] <= Len(FieldsOf(kind))
                                /\ form[i] = FieldsOf(kind)[count[i + 1]]

Enough(kind, n) == n >= Len(FieldsOf(kind)) - MayLack(kind)

\* A form without an end to choose has all the parts its kind has.
IsWhole(kind, form, count) ==
  /\ \A i \in 1..Len(form) : form[i] \notin DOMAIN Ends
  /\ Enough(kind, count[Len(form) + 1])
PlainFits(kind, form, given) ==
  \E count : Counts(kind, form, given, count) /\ IsWhole(kind, form, count)

\* Both ends go on with as many parts as there are before them.
HasEnds(kind, form, count) ==
  /\ Len(form) > 0 /\ form[Len(form)] \in DOMAIN Ends
  /\ \A e \in DOMAIN Ends[form[Len(form)]] :
       PlainFits(kind, Ends[form[Len(form)]][e], count[Len(form)])
EndFits(kind, form, given) ==
  \E count : Counts(kind, form, given, count) /\ HasEnds(kind, form, count)

FormFits(kind, form, given) ==
  PlainFits(kind, form, given) \/ EndFits(kind, form, given)

-----------------------------------------------------------------------------
(* The forms.                                                              *)

LEMMA SymbolsAre ==
  /\ Places = {"stmt", "expr", "arg", "withitem", "stmts", "exprs", "args", "withitems",
               "cmpops", "identifier", "context", "binop", "boolop", "unaryop", "cmpop"}
  /\ Marks = {"value", "begin", "more"}
  /\ DOMAIN Ends = {"returned", "optionalVars", "endOfDef"}
  /\ Parts = Places \cup DOMAIN Ends \cup Marks
BY DEF Places, Parts, Marks, Ends, Called, Lists, Leaves

\* The words of the forms.
Literals ==
  {Comma, "Import(", "names=", "[", "alias(", "name=", ")", "]",
   "FunctionDef(", "args=", "arguments(", "posonlyargs=", "kwonlyargs=",
   "kw_defaults=", "defaults=", "body=", "ClassDef(", "bases=", "keywords=",
   "decorator_list=", "type_params=", "Return(", "Assign(", "targets=",
   "value=", "AugAssign(", "target=", "op=", "While(", "test=", "orelse=",
   "For(", "iter=", "With(", "items=", "If(", "Expr(", "BoolOp(", "values=",
   "BinOp(", "left=", "right=", "UnaryOp(", "operand=", "Compare(", "ops=",
   "comparators=", "Call(", "func=", "Attribute(", "attr=", "ctx=",
   "Subscript(", "slice=", "Name(", "id=", "arg(", "arg=", "withitem(",
   "context_expr=", "Module(", "type_ignores=", "Pass(", "Break(", "Continue(",
   "Constant(", "optional_vars="}

LEMMA LiteralsAre ==
  /\ \A t \in Literals : t \notin Parts /\ t \notin DOMAIN Ends /\ t # EndOfText
  /\ EndOfText \notin Parts
<1>1. Comma \notin Parts /\ Comma # EndOfText /\ EndOfText \notin Parts
  BY SymbolsAre, Zenon DEF Comma, EndOfText
<1>2. \A t \in Literals \ {Comma} : t \notin Parts
  BY SymbolsAre DEF Literals
<1>3. \A t \in Literals \ {Comma} : t # EndOfText
  BY Zenon DEF Literals, EndOfText
<1>4. \A t \in DOMAIN Ends : t \in Parts
  BY SymbolsAre
<1> QED
  BY <1>1, <1>2, <1>3, <1>4

InOrder(n, p1, p2, p3) ==
  /\ p1 \in 1..n /\ p2 \in 1..n /\ p3 \in 1..n
  /\ p1 < p2 \/ (p1 = n /\ p2 = n)
  /\ p2 < p3 \/ (p2 = n /\ p3 = n)

\* The symbol p stands for field k.
IsField(kind, form, p, k) ==
  p <= Len(form) => /\ form[p] \in Places /\ k <= Len(FieldsOf(kind))
                    /\ form[p] = FieldsOf(kind)[k]

\* The parts of a form are its symbols p1, p2 and p3, or fewer: those beyond
\* its last symbol are none.
PartsAt(kind, form, given, p1, p2, p3) ==
  /\ IsSeq(form) /\ Len(form) > 0 /\ given \in Nat
  /\ InOrder(Len(form) + 1, p1, p2, p3)
  /\ IsField(kind, form, p1, given + 1)
  /\ IsField(kind, form, p2, given + 2)
  /\ IsField(kind, form, p3, given + 3)
  /\ \A i \in 1..Len(form) : \/ i = p1 \/ i = p2 \/ i = p3
                             \/ form[i] \in Literals
                             \/ (i = Len(form) /\ form[i] \in DOMAIN Ends)

\* Parts before the symbol i.
Before(given, p1, p2, p3, i) ==
  IF i <= p1 THEN given ELSE IF i <= p2 THEN given + 1
  ELSE IF i <= p3 THEN given + 2 ELSE given + 3
BeforeEach(form, given, p1, p2, p3) ==
  [i \in 1..(Len(form) + 1) |-> Before(given, p1, p2, p3, i)]

LEMMA PartsCount ==
  ASSUME NEW kind, NEW form, NEW given, NEW p1, NEW p2, NEW p3,
         PartsAt(kind, form, given, p1, p2, p3)
  PROVE  Counts(kind, form, given, BeforeEach(form, given, p1, p2, p3))
<1> DEFINE n == Len(form)
           count == BeforeEach(form, given, p1, p2, p3)
<1>1. /\ IsSeq(form) /\ given \in Nat /\ n \in Nat /\ n > 0
      /\ p1 \in 1..(n + 1) /\ p2 \in 1..(n + 1) /\ p3 \in 1..(n + 1)
      /\ p1 < p2 \/ (p1 = n + 1 /\ p2 = n + 1)
      /\ p2 < p3 \/ (p2 = n + 1 /\ p3 = n + 1)
  BY DEF PartsAt, InOrder, IsField
<1>2. \A i \in 1..(n + 1) : count[i] = Before(given, p1, p2, p3, i)
  BY DEF BeforeEach
<1>3. count \in [1..(n + 1) -> Nat]
  BY <1>1 DEF BeforeEach, Before
<1>4. count[1] = given
  BY <1>1, <1>2 DEF Before
<1> HIDE DEF count
<1>5. ASSUME NEW i \in 1..n
      PROVE  /\ form[i] \notin Marks \cup {EndOfText}
             /\ form[i] \in DOMAIN Ends => i = n
  <2>1. \A t \in Parts \ Marks : t \notin Marks /\ t # EndOfText
    BY LiteralsAre
  <2>2. \A t \in Places : t \in Parts \ Marks /\ t \notin DOMAIN Ends
    BY SymbolsAre
  <2>3. \A t \in DOMAIN Ends : t \in Parts \ Marks
    BY SymbolsAre
  <2>4. \A t \in Literals : t \notin Marks /\ t # EndOfText /\ t \notin DOMAIN Ends
    BY SymbolsAre, LiteralsAre
  <2>5. form[i] \in Places \/ form[i] \in Literals \/ (i = n /\ form[i] \in DOMAIN Ends)
    BY <1>1 DEF PartsAt, InOrder, IsField
  <2> QED
    BY <2>1, <2>2, <2>3, <2>4, <2>5
<1>6. ASSUME NEW i \in 1..n, form[i] \notin Places
      PROVE  count[i + 1] = count[i]
  <2>1. i # p1 /\ i # p2 /\ i # p3
    BY <1>1, <1>6 DEF PartsAt, InOrder, IsField
  <2>2. i \in 1..(n + 1) /\ i + 1 \in 1..(n + 1)
    BY <1>1
  <2> QED
    BY <1>1, <1>2, <2>1, <2>2 DEF Before
<1>7. ASSUME NEW i \in 1..n, form[i] \in Places
      PROVE  /\ count[i + 1] = count[i] + 1
             /\ count[i + 1] <= Len(FieldsOf(kind))
             /\ form[i] = FieldsOf(kind)[count[i + 1]]
  <2>1. i = p1 \/ i = p2 \/ i = p3
    BY <1>7, SymbolsAre, LiteralsAre DEF PartsAt, InOrder, IsField
  <2>2. count[i] = Before(given, p1, p2, p3, i)
        /\ count[i + 1] = Before(given, p1, p2, p3, i + 1)
    BY <1>1, <1>2
  <2>3. CASE i = p1
    <3>1. count[i] = given /\ count[i + 1] = given + 1
      BY <1>1, <2>2, <2>3 DEF Before
    <3> QED
      BY <1>1, <2>3, <3>1 DEF PartsAt, InOrder, IsField
  <2>4. CASE i = p2
    <3>1. count[i] = given + 1 /\ count[i + 1] = given + 2
      BY <1>1, <2>2, <2>4 DEF Before
    <3> QED
      BY <1>1, <2>4, <3>1 DEF PartsAt, InOrder, IsField
  <2>5. CASE i = p3
    <3>1. count[i] = given + 2 /\ count[i + 1] = given + 3
      BY <1>1, <2>2, <2>5 DEF Before
    <3> QED
      BY <1>1, <2>5, <3>1 DEF PartsAt, InOrder, IsField
  <2> QED
    BY <2>1, <2>3, <2>4, <2>5
<1> QED
  BY <1>1, <1>3, <1>4, <1>5, <1>6, <1>7 DEF Counts, count

\* A form with its parts in their places, and enough of them.
LEMMA PlainForm ==
  ASSUME NEW kind, NEW form, NEW given, NEW p1, NEW p2, NEW p3,
         PartsAt(kind, form, given, p1, p2, p3),
         form[Len(form)] \notin DOMAIN Ends,
         Enough(kind, Before(given, p1, p2, p3, Len(form) + 1))
  PROVE  PlainFits(kind, form, given)
<1> DEFINE count == BeforeEach(form, given, p1, p2, p3)
<1>1. Counts(kind, form, given, count)
  BY PartsCount
<1>2. count[Len(form) + 1] = Before(given, p1, p2, p3, Len(form) + 1)
  BY DEF BeforeEach, PartsAt
<1> HIDE DEF count
<1>3. IsWhole(kind, form, count)
  <2>1. \A i \in 1..Len(form) : form[i] \in DOMAIN Ends => i = Len(form)
    BY <1>1 DEF Counts
  <2> QED
    BY <1>2, <2>1 DEF IsWhole
<1> QED
  BY <1>1, <1>3 DEF PlainFits

LEMMA FormWithEnds ==
  ASSUME NEW kind, NEW form, NEW given, NEW p1, NEW p2, NEW p3,
         PartsAt(kind, form, given, p1, p2, p3),
         form[Len(form)] \in DOMAIN Ends,
         \A e \in DOMAIN Ends[form[Len(form)]] :
           PlainFits(kind, Ends[form[Len(form)]][e],
                     Before(given, p1, p2, p3, Len(form)))
  PROVE  FormFits(kind, form, given)
<1> DEFINE count == BeforeEach(form, given, p1, p2, p3)
<1>1. Counts(kind, form, given, count)
  BY PartsCount
<1>2. Len(form) > 0 /\ count[Len(form)] = Before(given, p1, p2, p3, Len(form))
  <2>1. Len(form) \in Nat /\ Len(form) > 0
    BY DEF PartsAt, InOrder, IsField
  <2> QED
    BY <2>1 DEF BeforeEach
<1> HIDE DEF count
<1>3. HasEnds(kind, form, count)
  BY <1>2 DEF HasEnds
<1> QED
  BY <1>1, <1>3 DEF FormFits, EndFits

-----------------------------------------------------------------------------
(* What is left of a form.                                                 *)

\* What the first symbol takes away from what a form asks for.
LEMMA CountsTail ==
  ASSUME NEW kind, NEW form, NEW given, NEW count,
         Counts(kind, form, given, count), form # <<>>, Head(form) \notin DOMAIN Ends
  PROVE  LET later == [i \in 1..Len(form) |-> count[i + 1]]
         IN /\ Counts(kind, Tail(form), count[2], later)
            /\ IsWhole(kind, form, count) => IsWhole(kind, Tail(form), later)
            /\ HasEnds(kind, form, count) => HasEnds(kind, Tail(form), later)
<1> DEFINE later == [i \in 1..Len(form) |-> count[i + 1]]
           t == Tail(form)
<1>1. /\ IsSeq(form) /\ Len(form) \in Nat
      /\ count \in [1..(Len(form) + 1) -> Nat]
  BY DEF Counts, IsSeq
<1>2. /\ IsSeq(t) /\ Len(form) > 0 /\ Head(form) = form[1] /\ Len(t) = Len(form) - 1
      /\ \A i \in 1..Len(t) : t[i] = form[i + 1]
  BY <1>1, TailOf
<1>3. /\ \A i \in 1..(Len(t) + 1) : later[i] = count[i + 1]
      /\ \A i \in 1..(Len(t) + 1) : i + 1 \in 1..(Len(form) + 1)
      /\ \A i \in 1..Len(t) : i + 1 \in 1..Len(form)
  BY <1>1, <1>2
<1>4. later \in [1..(Len(t) + 1) -> Nat]
  <2>1. 1..(Len(t) + 1) = 1..Len(form)
    BY <1>1, <1>2
  <2> QED
    BY <1>1, <1>3, <2>1
<1> HIDE DEF later, t
<1>5. Counts(kind, t, count[2], later)
  <2>1. count[2] \in Nat /\ later[1] = count[2]
    BY <1>1, <1>2, <1>3
  <2>2. ASSUME NEW i \in 1..Len(t)
        PROVE  /\ t[i] \notin Marks \cup {EndOfText}
               /\ t[i] \in DOMAIN Ends => i = Len(t)
               /\ t[i] \notin Places => later[i + 1] = later[i]
               /\ t[i] \in Places => /\ later[i + 1] = later[i] + 1
                                     /\ later[i + 1] <= Len(FieldsOf(kind))
                                     /\ t[i] = FieldsOf(kind)[later[i + 1]]
    <3>1. /\ i + 1 \in 1..Len(form) /\ t[i] = form[i + 1]
          /\ later[i] = count[i + 1] /\ later[i + 1] = count[(i + 1) + 1]
          /\ (i + 1 = Len(form) => i = Len(t))
      BY <1>1, <1>2, <1>3
    <3> DEFINE j == i + 1
    <3>2. /\ form[j] \notin Marks \cup {EndOfText}
          /\ form[j] \in DOMAIN Ends => j = Len(form)
          /\ form[j] \notin Places => count[j + 1] = count[j]
          /\ form[j] \in Places => /\ count[j + 1] = count[j] + 1
                                   /\ count[j + 1] <= Len(FieldsOf(kind))
                                   /\ form[j] = FieldsOf(kind)[count[j + 1]]
      <4>1. j \in 1..Len(form)
        BY <3>1
      <4> HIDE DEF j
      <4> QED
        BY <4>1 DEF Counts
    <3> QED
      BY <3>1, <3>2
  <2> QED
    BY <1>2, <1>4, <2>1, <2>2 DEF Counts
<1>6. IsWhole(kind, form, count) => IsWhole(kind, t, later)
  <2>1. later[Len(t) + 1] = count[Len(form) + 1]
    BY <1>1, <1>2, <1>3
  <2> QED
    BY <1>2, <1>3, <2>1 DEF IsWhole
<1>7. ASSUME HasEnds(kind, form, count)
      PROVE  HasEnds(kind, t, later)
  <2>1. Len(form) # 1
    BY <1>2, <1>7 DEF HasEnds
  <2>2. Len(t) > 0 /\ t[Len(t)] = form[Len(form)] /\ later[Len(t)] = count[Len(form)]
    BY <1>1, <1>2, <1>3, <2>1
  <2> QED
    BY <1>7, <2>2 DEF HasEnds
<1> QED
  BY <1>5, <1>6, <1>7 DEF later, t

LEMMA FormCounts ==
  ASSUME NEW kind, NEW form, NEW given, FormFits(kind, form, given)
  PROVE  \E count : /\ Counts(kind, form, given, count)
                    /\ IsWhole(kind, form, count) \/ HasEnds(kind, form, count)
BY DEF FormFits, PlainFits, EndFits

LEMMA FormIsSeq ==
  ASSUME NEW kind, NEW form, NEW given, FormFits(kind, form, given)
  PROVE  IsSeq(form) /\ given \in Nat
BY FormCounts DEF Counts

\* The first symbol of a form, and what is left after it.
LEMMA FormTail ==
  ASSUME NEW kind, NEW form, NEW given, FormFits(kind, form, given), form # <<>>
  PROVE  /\ Head(form) \notin Marks /\ Head(form) # EndOfText
         /\ Head(form) \notin Parts => FormFits(kind, Tail(form), given)
         /\ Head(form) \in Places =>
              /\ given + 1 <= Len(FieldsOf(kind))
              /\ Head(form) = FieldsOf(kind)[given + 1]
              /\ FormFits(kind, Tail(form), given + 1)
<1>1. PICK count : /\ Counts(kind, form, given, count)
                   /\ IsWhole(kind, form, count) \/ HasEnds(kind, form, count)
  BY FormCounts
<1>2. IsSeq(form) /\ Len(form) > 0 /\ Head(form) = form[1]
  BY FormIsSeq, TailOf
<1>3. Len(form) \in Nat /\ 1 \in 1..Len(form)
  BY <1>2 DEF IsSeq
<1>4. /\ form[1] \notin Marks \cup {EndOfText}
      /\ count[1] = given
      /\ form[1] \notin Places => count[2] = given
      /\ form[1] \in Places => /\ count[2] = given + 1
                               /\ given + 1 <= Len(FieldsOf(kind))
                               /\ form[1] = FieldsOf(kind)[given + 1]
  BY <1>1, <1>3 DEF Counts
<1>5. Head(form) \notin DOMAIN Ends => FormFits(kind, Tail(form), count[2])
  <2> SUFFICES ASSUME Head(form) \notin DOMAIN Ends
               PROVE  FormFits(kind, Tail(form), count[2])
    OBVIOUS
  <2> DEFINE later == [i \in 1..Len(form) |-> count[i + 1]]
  <2>1. /\ Counts(kind, Tail(form), count[2], later)
        /\ IsWhole(kind, form, count) => IsWhole(kind, Tail(form), later)
        /\ HasEnds(kind, form, count) => HasEnds(kind, Tail(form), later)
    BY <1>1, CountsTail
  <2> HIDE DEF later
  <2> QED
    BY <1>1, <2>1 DEF FormFits, PlainFits, EndFits
<1>6. /\ \A t \in Places : t \notin DOMAIN Ends
      /\ \A t : t \notin Parts => t \notin DOMAIN Ends /\ t \notin Places
  BY SymbolsAre
<1> QED
  BY <1>2, <1>4, <1>5, <1>6

\* An end that is to be chosen is the last symbol of its form.
LEMMA FormEnd ==
  ASSUME NEW kind, NEW form, NEW given, FormFits(kind, form, given), form # <<>>,
         Head(form) \in DOMAIN Ends, NEW e \in DOMAIN Ends[Head(form)]
  PROVE  Tail(form) = <<>> /\ FormFits(kind, Ends[Head(form)][e], given)
<1>1. PICK count : /\ Counts(kind, form, given, count)
                   /\ IsWhole(kind, form, count) \/ HasEnds(kind, form, count)
  BY FormCounts
<1>2. /\ IsSeq(form) /\ Len(form) > 0 /\ Head(form) = form[1]
      /\ IsSeq(Tail(form)) /\ Len(Tail(form)) = Len(form) - 1
  BY FormIsSeq, TailOf
<1>3. Len(form) \in Nat /\ 1 \in 1..Len(form)
  BY <1>2 DEF IsSeq
<1>4. Len(form) = 1 /\ count[1] = given
  BY <1>1, <1>2, <1>3 DEF Counts
<1>5. ~ IsWhole(kind, form, count)
  BY <1>2, <1>3 DEF IsWhole
<1>6. FormFits(kind, Ends[Head(form)][e], given)
  BY <1>1, <1>2, <1>4, <1>5 DEF HasEnds, FormFits
<1>7. Len(Tail(form)) = 0
  BY <1>2, <1>4
<1>8. Tail(form) = <<>>
  BY <1>2, <1>7, EmptyIs
<1> QED
  BY <1>6, <1>8

\* A form that is over has all its parts.
LEMMA FormOver ==
  ASSUME NEW kind, NEW given, FormFits(kind, <<>>, given)
  PROVE  Enough(kind, given)
<1>1. PICK count : /\ Counts(kind, <<>>, given, count)
                   /\ IsWhole(kind, <<>>, count) \/ HasEnds(kind, <<>>, count)
  BY FormCounts
<1>2. Len(<<>>) = 0
  OBVIOUS
<1>3. IsWhole(kind, <<>>, count)
  BY <1>1, <1>2 DEF HasEnds
<1> QED
  BY <1>1, <1>2, <1>3 DEF IsWhole, Counts

LEMMA ModuleForm == FormFits("Module", generate_module, 0)
<1> DEFINE F == generate_module
<1>1. /\ IsSeq(F) /\ Len(F) = 8
      /\ F[1] \in Literals /\ F[2] \in Literals /\ F[3] = "stmts"
      /\ F[4] \in Literals /\ F[5] \in Literals /\ F[6] \in Literals
      /\ F[7] \in Literals /\ F[8] \in Literals
  BY DEF generate_module, IsSeq, Literals, Comma
<1>2. Len(FieldsOf("Module")) = 1 /\ Enough("Module", 1)
  BY DEF Enough, FieldsOf, Fields, MayLack
<1>3. FieldsOf("Module")[1] = "stmts"
  BY DEF FieldsOf, Fields
<1> HIDE DEF F
<1>4. PartsAt("Module", F, 0, 3, 9, 9)
  BY <1>1, <1>2, <1>3, SymbolsAre DEF PartsAt, InOrder, IsField
<1>5. Before(0, 3, 9, 9, Len(F) + 1) = 1
  BY <1>1 DEF Before
<1>6. F[Len(F)] \notin DOMAIN Ends
  BY <1>1, LiteralsAre
<1>7. FormFits("Module", F, 0)
  BY <1>2, <1>4, <1>5, <1>6, PlainForm DEF FormFits
<1> QED
  BY <1>7 DEF F

LEMMA ImportForm == FormFits("Import", generate_import, 0)
<1> DEFINE F == generate_import
<1>1. /\ IsSeq(F) /\ Len(F) = 9
      /\ F[1] \in Literals /\ F[2] \in Literals /\ F[3] \in Literals
      /\ F[4] \in Literals /\ F[5] \in Literals /\ F[6] = "identifier"
      /\ F[7] \in Literals /\ F[8] \in Literals /\ F[9] \in Literals
  BY DEF generate_import, IsSeq, Literals
<1>2. Len(FieldsOf("Import")) = 1 /\ Enough("Import", 1)
  BY DEF Enough, FieldsOf, Fields, MayLack
<1>3. FieldsOf("Import")[1] = "identifier"
  BY DEF FieldsOf, Fields
<1> HIDE DEF F
<1>4. PartsAt("Import", F, 0, 6, 10, 10)
  BY <1>1, <1>2, <1>3, SymbolsAre DEF PartsAt, InOrder, IsField
<1>5. Before(0, 6, 10, 10, Len(F) + 1) = 1
  BY <1>1 DEF Before
<1>6. F[Len(F)] \notin DOMAIN Ends
  BY <1>1, LiteralsAre
<1>7. FormFits("Import", F, 0)
  BY <1>2, <1>4, <1>5, <1>6, PlainForm DEF FormFits
<1> QED
  BY <1>7 DEF F

LEMMA FunctionDefForm == FormFits("FunctionDef", generate_function_def, 0)
<1> DEFINE F == generate_function_def
<1>1. /\ IsSeq(F) /\ Len(F) = 29
      /\ F[1] \in Literals /\ F[2] \in Literals /\ F[3] = "identifier"
      /\ F[4] \in Literals /\ F[5] \in Literals /\ F[6] \in Literals
      /\ F[7] \in Literals /\ F[8] \in Literals /\ F[9] \in Literals
      /\ F[10] \in Literals /\ F[11] \in Literals /\ F[12] = "args"
      /\ F[13] \in Literals /\ F[14] \in Literals /\ F[15] \in Literals
      /\ F[16] \in Literals /\ F[17] \in Literals /\ F[18] \in Literals
      /\ F[19] \in Literals /\ F[20] \in Literals /\ F[21] \in Literals
      /\ F[22] \in Literals /\ F[23] \in Literals /\ F[24] \in Literals
      /\ F[25] \in Literals /\ F[26] \in Literals /\ F[27] \in Literals
      /\ F[28] = "stmts" /\ F[29] = "endOfDef"
  BY DEF generate_function_def, IsSeq, Literals, Comma
<1>2. Len(FieldsOf("FunctionDef")) = 3 /\ Enough("FunctionDef", 3)
  BY DEF Enough, FieldsOf, Fields, MayLack
<1>3. /\ FieldsOf("FunctionDef")[1] = "identifier"
      /\ FieldsOf("FunctionDef")[2] = "args"
      /\ FieldsOf("FunctionDef")[3] = "stmts"
  BY DEF FieldsOf, Fields
<1> HIDE DEF F
<1>4. PartsAt("FunctionDef", F, 0, 3, 12, 28)
  <2>1. \A i \in 1..Len(F) : \/ i \in {3, 12, 28}
                        \/ F[i] \in Literals
                        \/ (i = Len(F) /\ F[i] \in DOMAIN Ends)
    BY <1>1, SymbolsAre
  <2>2. /\ IsField("FunctionDef", F, 3, 0 + 1)
        /\ IsField("FunctionDef", F, 12, 0 + 2)
        /\ IsField("FunctionDef", F, 28, 0 + 3)
    <3>1. Len(F) = 29 /\ F[3] = "identifier" /\ F[12] = "args" /\ F[28] = "stmts"
      BY <1>1
    <3> QED
      BY <3>1, <1>2, <1>3, SymbolsAre DEF IsField
  <2> QED
    BY <1>1, <2>1, <2>2 DEF PartsAt, InOrder
<1>5. Before(0, 3, 12, 28, Len(F)) = 3
  BY <1>1 DEF Before
<1>6. PlainFits("FunctionDef", Ends["endOfDef"][1], 3)
  <2> DEFINE E == Ends["endOfDef"][1]
  <2>1. /\ IsSeq(E) /\ Len(E) = 5
        /\ E[1] \in Literals /\ E[2] \in Literals /\ E[3] \in Literals
        /\ E[4] \in Literals /\ E[5] \in Literals
    BY DEF Ends, IsSeq, Literals, Comma
  <2> HIDE DEF E
  <2>2. PartsAt("FunctionDef", E, 3, 6, 6, 6)
    BY <1>2, <1>3, <2>1, SymbolsAre DEF PartsAt, InOrder, IsField
  <2>3. Before(3, 6, 6, 6, Len(E) + 1) = 3
    BY <2>1 DEF Before
  <2>4. E[Len(E)] \notin DOMAIN Ends
    BY <2>1, LiteralsAre
  <2>5. PlainFits("FunctionDef", E, 3)
    BY <1>2, <2>2, <2>3, <2>4, PlainForm
  <2> QED
    BY <2>5 DEF E
<1>7. PlainFits("FunctionDef", Ends["endOfDef"][2], 3)
  <2> DEFINE E == Ends["endOfDef"][2]
  <2>1. /\ IsSeq(E) /\ Len(E) = 9
        /\ E[1] \in Literals /\ E[2] \in Literals /\ E[3] \in Literals
        /\ E[4] \in Literals /\ E[5] \in Literals /\ E[6] \in Literals
        /\ E[7] \in Literals /\ E[8] \in Literals /\ E[9] \in Literals
    BY DEF Ends, IsSeq, Literals, Comma
  <2> HIDE DEF E
  <2>2. PartsAt("FunctionDef", E, 3, 10, 10, 10)
    BY <1>2, <1>3, <2>1, SymbolsAre DEF PartsAt, InOrder, IsField
  <2>3. Before(3, 10, 10, 10, Len(E) + 1) = 3
    BY <2>1 DEF Before
  <2>4. E[Len(E)] \notin DOMAIN Ends
    BY <2>1, LiteralsAre
  <2>5. PlainFits("FunctionDef", E, 3)
    BY <1>2, <2>2, <2>3, <2>4, PlainForm
  <2> QED
    BY <2>5 DEF E
<1>8. DOMAIN Ends["endOfDef"] = {1, 2}
  BY DEF Ends
<1>9. FormFits("FunctionDef", F, 0)
  <2>1. F[Len(F)] = "endOfDef"
    BY <1>1
  <2> QED
    BY <2>1, <1>4, <1>5, <1>6, <1>7, <1>8, SymbolsAre, FormWithEnds
<1> QED
  BY <1>9 DEF F

LEMMA ClassDefForm == FormFits("ClassDef", generate_class_def, 0)
<1> DEFINE F == generate_class_def
<1>1. /\ IsSeq(F) /\ Len(F) = 23
      /\ F[1] \in Literals /\ F[2] \in Literals /\ F[3] = "identifier"
      /\ F[4] \in Literals /\ F[5] \in Literals /\ F[6] \in Literals
      /\ F[7] \in Literals /\ F[8] \in Literals /\ F[9] \in Literals
      /\ F[10] \in Literals /\ F[11] \in Literals /\ F[12] \in Literals
      /\ F[13] \in Literals /\ F[14] = "stmts" /\ F[15] \in Literals
      /\ F[16] \in Literals /\ F[17] \in Literals /\ F[18] \in Literals
      /\ F[19] \in Literals /\ F[20] \in Literals /\ F[21] \in Literals
      /\ F[22] \in Literals /\ F[23] \in Literals
  BY DEF generate_class_def, IsSeq, Literals, Comma
<1>2. Len(FieldsOf("ClassDef")) = 2 /\ Enough("ClassDef", 2)
  BY DEF Enough, FieldsOf, Fields, MayLack
<1>3. /\ FieldsOf("ClassDef")[1] = "identifier"
      /\ FieldsOf("ClassDef")[2] = "stmts"
  BY DEF FieldsOf, Fields
<1> HIDE DEF F
<1>4. PartsAt("ClassDef", F, 0, 3, 14, 24)
  <2>1. \A i \in 1..Len(F) : \/ i \in {3, 14}
                        \/ F[i] \in Literals
                        \/ (i = Len(F) /\ F[i] \in DOMAIN Ends)
    BY <1>1, SymbolsAre
  <2>2. /\ IsField("ClassDef", F, 3, 0 + 1)
        /\ IsField("ClassDef", F, 14, 0 + 2)
        /\ IsField("ClassDef", F, 24, 0 + 3)
    <3>1. Len(F) = 23 /\ F[3] = "identifier" /\ F[14] = "stmts"
      BY <1>1
    <3> QED
      BY <3>1, <1>2, <1>3, SymbolsAre DEF IsField
  <2> QED
    BY <1>1, <2>1, <2>2 DEF PartsAt, InOrder
<1>5. Before(0, 3, 14, 24, Len(F) + 1) = 2
  BY <1>1 DEF Before
<1>6. F[Len(F)] \notin DOMAIN Ends
  BY <1>1, LiteralsAre
<1>7. FormFits("ClassDef", F, 0)
  BY <1>2, <1>4, <1>5, <1>6, PlainForm DEF FormFits
<1> QED
  BY <1>7 DEF F

LEMMA ReturnForm == FormFits("Return", generate_return, 0)
<1> DEFINE F == generate_return
<1>1. /\ IsSeq(F) /\ Len(F) = 2
      /\ F[1] \in Literals /\ F[2] = "returned"
  BY DEF generate_return, IsSeq, Literals
<1>2. Len(FieldsOf("Return")) = 1 /\ Enough("Return", 0) /\ Enough("Return", 1)
  BY DEF Enough, FieldsOf, Fields, MayLack
<1>3. FieldsOf("Return")[1] = "expr"
  BY DEF FieldsOf, Fields
<1> HIDE DEF F
<1>4. PartsAt("Return", F, 0, 3, 3, 3)
  BY <1>1, <1>2, <1>3, SymbolsAre DEF PartsAt, InOrder, IsField
<1>5. Before(0, 3, 3, 3, Len(F)) = 0
  BY <1>1 DEF Before
<1>6. PlainFits("Return", Ends["returned"][1], 0)
  <2> DEFINE E == Ends["returned"][1]
  <2>1. /\ IsSeq(E) /\ Len(E) = 1
        /\ E[1] \in Literals
    BY DEF Ends, IsSeq, Literals
  <2> HIDE DEF E
  <2>2. PartsAt("Return", E, 0, 2, 2, 2)
    BY <1>2, <1>3, <2>1, SymbolsAre DEF PartsAt, InOrder, IsField
  <2>3. Before(0, 2, 2, 2, Len(E) + 1) = 0
    BY <2>1 DEF Before
  <2>4. E[Len(E)] \notin DOMAIN Ends
    BY <2>1, LiteralsAre
  <2>5. PlainFits("Return", E, 0)
    BY <1>2, <2>2, <2>3, <2>4, PlainForm
  <2> QED
    BY <2>5 DEF E
<1>7. PlainFits("Return", Ends["returned"][2], 0)
  <2> DEFINE E == Ends["returned"][2]
  <2>1. /\ IsSeq(E) /\ Len(E) = 3
        /\ E[1] \in Literals /\ E[2] = "expr" /\ E[3] \in Literals
    BY DEF Ends, IsSeq, Literals
  <2> HIDE DEF E
  <2>2. PartsAt("Return", E, 0, 2, 4, 4)
    BY <1>2, <1>3, <2>1, SymbolsAre DEF PartsAt, InOrder, IsField
  <2>3. Before(0, 2, 4, 4, Len(E) + 1) = 1
    BY <2>1 DEF Before
  <2>4. E[Len(E)] \notin DOMAIN Ends
    BY <2>1, LiteralsAre
  <2>5. PlainFits("Return", E, 0)
    BY <1>2, <2>2, <2>3, <2>4, PlainForm
  <2> QED
    BY <2>5 DEF E
<1>8. DOMAIN Ends["returned"] = {1, 2}
  BY DEF Ends
<1>9. FormFits("Return", F, 0)
  <2>1. F[Len(F)] = "returned"
    BY <1>1
  <2> QED
    BY <2>1, <1>4, <1>5, <1>6, <1>7, <1>8, SymbolsAre, FormWithEnds
<1> QED
  BY <1>9 DEF F

LEMMA AssignForm == FormFits("Assign", generate_assign, 0)
<1> DEFINE F == generate_assign
<1>1. /\ IsSeq(F) /\ Len(F) = 7
      /\ F[1] \in Literals /\ F[2] \in Literals /\ F[3] = "exprs"
      /\ F[4] \in Literals /\ F[5] \in Literals /\ F[6] = "expr"
      /\ F[7] \in Literals
  BY DEF generate_assign, IsSeq, Literals, Comma
<1>2. Len(FieldsOf("Assign")) = 2 /\ Enough("Assign", 2)
  BY DEF Enough, FieldsOf, Fields, MayLack
<1>3. /\ FieldsOf("Assign")[1] = "exprs" /\ FieldsOf("Assign")[2] = "expr"
  BY DEF FieldsOf, Fields
<1> HIDE DEF F
<1>4. PartsAt("Assign", F, 0, 3, 6, 8)
  BY <1>1, <1>2, <1>3, SymbolsAre DEF PartsAt, InOrder, IsField
<1>5. Before(0, 3, 6, 8, Len(F) + 1) = 2
  BY <1>1 DEF Before
<1>6. F[Len(F)] \notin DOMAIN Ends
  BY <1>1, LiteralsAre
<1>7. FormFits("Assign", F, 0)
  BY <1>2, <1>4, <1>5, <1>6, PlainForm DEF FormFits
<1> QED
  BY <1>7 DEF F

LEMMA AugAssignForm == FormFits("AugAssign", generate_aug_assign, 0)
<1> DEFINE F == generate_aug_assign
<1>1. /\ IsSeq(F) /\ Len(F) = 10
      /\ F[1] \in Literals /\ F[2] \in Literals /\ F[3] = "expr"
      /\ F[4] \in Literals /\ F[5] \in Literals /\ F[6] = "binop"
      /\ F[7] \in Literals /\ F[8] \in Literals /\ F[9] = "expr"
      /\ F[10] \in Literals
  BY DEF generate_aug_assign, IsSeq, Literals, Comma
<1>2. Len(FieldsOf("AugAssign")) = 3 /\ Enough("AugAssign", 3)
  BY DEF Enough, FieldsOf, Fields, MayLack
<1>3. /\ FieldsOf("AugAssign")[1] = "expr"
      /\ FieldsOf("AugAssign")[2] = "binop"
      /\ FieldsOf("AugAssign")[3] = "expr"
  BY DEF FieldsOf, Fields
<1> HIDE DEF F
<1>4. PartsAt("AugAssign", F, 0, 3, 6, 9)
  BY <1>1, <1>2, <1>3, SymbolsAre DEF PartsAt, InOrder, IsField
<1>5. Before(0, 3, 6, 9, Len(F) + 1) = 3
  BY <1>1 DEF Before
<1>6. F[Len(F)] \notin DOMAIN Ends
  BY <1>1, LiteralsAre
<1>7. FormFits("AugAssign", F, 0)
  BY <1>2, <1>4, <1>5, <1>6, PlainForm DEF FormFits
<1> QED
  BY <1>7 DEF F

LEMMA WhileForm == FormFits("While", generate_while, 0)
<1> DEFINE F == generate_while
<1>1. /\ IsSeq(F) /\ Len(F) = 11
      /\ F[1] \in Literals /\ F[2] \in Literals /\ F[3] = "expr"
      /\ F[4] \in Literals /\ F[5] \in Literals /\ F[6] = "stmts"
      /\ F[7] \in Literals /\ F[8] \in Literals /\ F[9] \in Literals
      /\ F[10] \in Literals /\ F[11] \in Literals
  BY DEF generate_while, IsSeq, Literals, Comma
<1>2. Len(FieldsOf("While")) = 2 /\ Enough("While", 2)
  BY DEF Enough, FieldsOf, Fields, MayLack
<1>3. /\ FieldsOf("While")[1] = "expr" /\ FieldsOf("While")[2] = "stmts"
  BY DEF FieldsOf, Fields
<1> HIDE DEF F
<1>4. PartsAt("While", F, 0, 3, 6, 12)
  BY <1>1, <1>2, <1>3, SymbolsAre DEF PartsAt, InOrder, IsField
<1>5. Before(0, 3, 6, 12, Len(F) + 1) = 2
  BY <1>1 DEF Before
<1>6. F[Len(F)] \notin DOMAIN Ends
  BY <1>1, LiteralsAre
<1>7. FormFits("While", F, 0)
  BY <1>2, <1>4, <1>5, <1>6, PlainForm DEF FormFits
<1> QED
  BY <1>7 DEF F

LEMMA ForForm == FormFits("For", generate_for, 0)
<1> DEFINE F == generate_for
<1>1. /\ IsSeq(F) /\ Len(F) = 14
      /\ F[1] \in Literals /\ F[2] \in Literals /\ F[3] = "expr"
      /\ F[4] \in Literals /\ F[5] \in Literals /\ F[6] = "expr"
      /\ F[7] \in Literals /\ F[8] \in Literals /\ F[9] = "stmts"
      /\ F[10] \in Literals /\ F[11] \in Literals /\ F[12] \in Literals
      /\ F[13] \in Literals /\ F[14] \in Literals
  BY DEF generate_for, IsSeq, Literals, Comma
<1>2. Len(FieldsOf("For")) = 3 /\ Enough("For", 3)
  BY DEF Enough, FieldsOf, Fields, MayLack
<1>3. /\ FieldsOf("For")[1] = "expr" /\ FieldsOf("For")[2] = "expr"
      /\ FieldsOf("For")[3] = "stmts"
  BY DEF FieldsOf, Fields
<1> HIDE DEF F
<1>4. PartsAt("For", F, 0, 3, 6, 9)
  <2>1. \A i \in 1..Len(F) : \/ i \in {3, 6, 9}
                        \/ F[i] \in Literals
                        \/ (i = Len(F) /\ F[i] \in DOMAIN Ends)
    BY <1>1, SymbolsAre
  <2>2. /\ IsField("For", F, 3, 0 + 1)
        /\ IsField("For", F, 6, 0 + 2)
        /\ IsField("For", F, 9, 0 + 3)
    <3>1. Len(F) = 14 /\ F[3] = "expr" /\ F[6] = "expr" /\ F[9] = "stmts"
      BY <1>1
    <3> QED
      BY <3>1, <1>2, <1>3, SymbolsAre DEF IsField
  <2> QED
    BY <1>1, <2>1, <2>2 DEF PartsAt, InOrder
<1>5. Before(0, 3, 6, 9, Len(F) + 1) = 3
  BY <1>1 DEF Before
<1>6. F[Len(F)] \notin DOMAIN Ends
  BY <1>1, LiteralsAre
<1>7. FormFits("For", F, 0)
  BY <1>2, <1>4, <1>5, <1>6, PlainForm DEF FormFits
<1> QED
  BY <1>7 DEF F

LEMMA WithForm == FormFits("With", generate_with, 0)
<1> DEFINE F == generate_with
<1>1. /\ IsSeq(F) /\ Len(F) = 7
      /\ F[1] \in Literals /\ F[2] \in Literals /\ F[3] = "withitems"
      /\ F[4] \in Literals /\ F[5] \in Literals /\ F[6] = "stmts"
      /\ F[7] \in Literals
  BY DEF generate_with, IsSeq, Literals, Comma
<1>2. Len(FieldsOf("With")) = 2 /\ Enough("With", 2)
  BY DEF Enough, FieldsOf, Fields, MayLack
<1>3. /\ FieldsOf("With")[1] = "withitems" /\ FieldsOf("With")[2] = "stmts"
  BY DEF FieldsOf, Fields
<1> HIDE DEF F
<1>4. PartsAt("With", F, 0, 3, 6, 8)
  BY <1>1, <1>2, <1>3, SymbolsAre DEF PartsAt, InOrder, IsField
<1>5. Before(0, 3, 6, 8, Len(F) + 1) = 2
  BY <1>1 DEF Before
<1>6. F[Len(F)] \notin DOMAIN Ends
  BY <1>1, LiteralsAre
<1>7. FormFits("With", F, 0)
  BY <1>2, <1>4, <1>5, <1>6, PlainForm DEF FormFits
<1> QED
  BY <1>7 DEF F

LEMMA IfForm == FormFits("If", generate_if, 0)
<1> DEFINE F == generate_if
<1>1. /\ IsSeq(F) /\ Len(F) = 10
      /\ F[1] \in Literals /\ F[2] \in Literals /\ F[3] = "expr"
      /\ F[4] \in Literals /\ F[5] \in Literals /\ F[6] = "stmts"
      /\ F[7] \in Literals /\ F[8] \in Literals /\ F[9] = "stmts"
      /\ F[10] \in Literals
  BY DEF generate_if, IsSeq, Literals, Comma
<1>2. Len(FieldsOf("If")) = 3 /\ Enough("If", 3)
  BY DEF Enough, FieldsOf, Fields, MayLack
<1>3. /\ FieldsOf("If")[1] = "expr" /\ FieldsOf("If")[2] = "stmts"
      /\ FieldsOf("If")[3] = "stmts"
  BY DEF FieldsOf, Fields
<1> HIDE DEF F
<1>4. PartsAt("If", F, 0, 3, 6, 9)
  BY <1>1, <1>2, <1>3, SymbolsAre DEF PartsAt, InOrder, IsField
<1>5. Before(0, 3, 6, 9, Len(F) + 1) = 3
  BY <1>1 DEF Before
<1>6. F[Len(F)] \notin DOMAIN Ends
  BY <1>1, LiteralsAre
<1>7. FormFits("If", F, 0)
  BY <1>2, <1>4, <1>5, <1>6, PlainForm DEF FormFits
<1> QED
  BY <1>7 DEF F

LEMMA ExprStmtForm == FormFits("ExprStmt", generate_expr_stmt, 0)
<1> DEFINE F == generate_expr_stmt
<1>1. /\ IsSeq(F) /\ Len(F) = 4
      /\ F[1] \in Literals /\ F[2] \in Literals /\ F[3] = "expr"
      /\ F[4] \in Literals
  BY DEF generate_expr_stmt, IsSeq, Literals
<1>2. Len(FieldsOf("ExprStmt")) = 1 /\ Enough("ExprStmt", 1)
  BY DEF Enough, FieldsOf, Fields, MayLack
<1>3. FieldsOf("ExprStmt")[1] = "expr"
  BY DEF FieldsOf, Fields
<1> HIDE DEF F
<1>4. PartsAt("ExprStmt", F, 0, 3, 5, 5)
  BY <1>1, <1>2, <1>3, SymbolsAre DEF PartsAt, InOrder, IsField
<1>5. Before(0, 3, 5, 5, Len(F) + 1) = 1
  BY <1>1 DEF Before
<1>6. F[Len(F)] \notin DOMAIN Ends
  BY <1>1, LiteralsAre
<1>7. FormFits("ExprStmt", F, 0)
  BY <1>2, <1>4, <1>5, <1>6, PlainForm DEF FormFits
<1> QED
  BY <1>7 DEF F

LEMMA PassForm == FormFits("Pass", generate_stmt.Pass, 0)
<1> DEFINE F == generate_stmt.Pass
<1>1. /\ IsSeq(F) /\ Len(F) = 2
      /\ F[1] \in Literals /\ F[2] \in Literals
  BY DEF generate_stmt, IsSeq, Literals
<1>2. Len(FieldsOf("Pass")) = 0 /\ Enough("Pass", 0)
  BY DEF Enough, FieldsOf, Fields, MayLack
<1> HIDE DEF F
<1>3. PartsAt("Pass", F, 0, 3, 3, 3)
  BY <1>1, <1>2, SymbolsAre DEF PartsAt, InOrder, IsField
<1>4. Before(0, 3, 3, 3, Len(F) + 1) = 0
  BY <1>1 DEF Before
<1>5. F[Len(F)] \notin DOMAIN Ends
  BY <1>1, LiteralsAre
<1>6. FormFits("Pass", F, 0)
  BY <1>2, <1>3, <1>4, <1>5, PlainForm DEF FormFits
<1> QED
  BY <1>6 DEF F

LEMMA BreakForm == FormFits("Break", generate_stmt.Break, 0)
<1> DEFINE F == generate_stmt.Break
<1>1. /\ IsSeq(F) /\ Len(F) = 2
      /\ F[1] \in Literals /\ F[2] \in Literals
  BY DEF generate_stmt, IsSeq, Literals
<1>2. Len(FieldsOf("Break")) = 0 /\ Enough("Break", 0)
  BY DEF Enough, FieldsOf, Fields, MayLack
<1> HIDE DEF F
<1>3. PartsAt("Break", F, 0, 3, 3, 3)
  BY <1>1, <1>2, SymbolsAre DEF PartsAt, InOrder, IsField
<1>4. Before(0, 3, 3, 3, Len(F) + 1) = 0
  BY <1>1 DEF Before
<1>5. F[Len(F)] \notin DOMAIN Ends
  BY <1>1, LiteralsAre
<1>6. FormFits("Break", F, 0)
  BY <1>2, <1>3, <1>4, <1>5, PlainForm DEF FormFits
<1> QED
  BY <1>6 DEF F

LEMMA ContinueForm == FormFits("Continue", generate_stmt.Continue, 0)
<1> DEFINE F == generate_stmt.Continue
<1>1. /\ IsSeq(F) /\ Len(F) = 2
      /\ F[1] \in Literals /\ F[2] \in Literals
  BY DEF generate_stmt, IsSeq, Literals
<1>2. Len(FieldsOf("Continue")) = 0 /\ Enough("Continue", 0)
  BY DEF Enough, FieldsOf, Fields, MayLack
<1> HIDE DEF F
<1>3. PartsAt("Continue", F, 0, 3, 3, 3)
  BY <1>1, <1>2, SymbolsAre DEF PartsAt, InOrder, IsField
<1>4. Before(0, 3, 3, 3, Len(F) + 1) = 0
  BY <1>1 DEF Before
<1>5. F[Len(F)] \notin DOMAIN Ends
  BY <1>1, LiteralsAre
<1>6. FormFits("Continue", F, 0)
  BY <1>2, <1>3, <1>4, <1>5, PlainForm DEF FormFits
<1> QED
  BY <1>6 DEF F

LEMMA BoolOpForm == FormFits("BoolOp", generate_bool_op, 0)
<1> DEFINE F == generate_bool_op
<1>1. /\ IsSeq(F) /\ Len(F) = 7
      /\ F[1] \in Literals /\ F[2] \in Literals /\ F[3] = "boolop"
      /\ F[4] \in Literals /\ F[5] \in Literals /\ F[6] = "exprs"
      /\ F[7] \in Literals
  BY DEF generate_bool_op, IsSeq, Literals, Comma
<1>2. Len(FieldsOf("BoolOp")) = 2 /\ Enough("BoolOp", 2)
  BY DEF Enough, FieldsOf, Fields, MayLack
<1>3. /\ FieldsOf("BoolOp")[1] = "boolop" /\ FieldsOf("BoolOp")[2] = "exprs"
  BY DEF FieldsOf, Fields
<1> HIDE DEF F
<1>4. PartsAt("BoolOp", F, 0, 3, 6, 8)
  BY <1>1, <1>2, <1>3, SymbolsAre DEF PartsAt, InOrder, IsField
<1>5. Before(0, 3, 6, 8, Len(F) + 1) = 2
  BY <1>1 DEF Before
<1>6. F[Len(F)] \notin DOMAIN Ends
  BY <1>1, LiteralsAre
<1>7. FormFits("BoolOp", F, 0)
  BY <1>2, <1>4, <1>5, <1>6, PlainForm DEF FormFits
<1> QED
  BY <1>7 DEF F

LEMMA BinOpForm == FormFits("BinOp", generate_bin_op, 0)
<1> DEFINE F == generate_bin_op
<1>1. /\ IsSeq(F) /\ Len(F) = 10
      /\ F[1] \in Literals /\ F[2] \in Literals /\ F[3] = "expr"
      /\ F[4] \in Literals /\ F[5] \in Literals /\ F[6] = "binop"
      /\ F[7] \in Literals /\ F[8] \in Literals /\ F[9] = "expr"
      /\ F[10] \in Literals
  BY DEF generate_bin_op, IsSeq, Literals, Comma
<1>2. Len(FieldsOf("BinOp")) = 3 /\ Enough("BinOp", 3)
  BY DEF Enough, FieldsOf, Fields, MayLack
<1>3. /\ FieldsOf("BinOp")[1] = "expr" /\ FieldsOf("BinOp")[2] = "binop"
      /\ FieldsOf("BinOp")[3] = "expr"
  BY DEF FieldsOf, Fields
<1> HIDE DEF F
<1>4. PartsAt("BinOp", F, 0, 3, 6, 9)
  BY <1>1, <1>2, <1>3, SymbolsAre DEF PartsAt, InOrder, IsField
<1>5. Before(0, 3, 6, 9, Len(F) + 1) = 3
  BY <1>1 DEF Before
<1>6. F[Len(F)] \notin DOMAIN Ends
  BY <1>1, LiteralsAre
<1>7. FormFits("BinOp", F, 0)
  BY <1>2, <1>4, <1>5, <1>6, PlainForm DEF FormFits
<1> QED
  BY <1>7 DEF F

LEMMA UnaryOpForm == FormFits("UnaryOp", generate_unary_op, 0)
<1> DEFINE F == generate_unary_op
<1>1. /\ IsSeq(F) /\ Len(F) = 7
      /\ F[1] \in Literals /\ F[2] \in Literals /\ F[3] = "unaryop"
      /\ F[4] \in Literals /\ F[5] \in Literals /\ F[6] = "expr"
      /\ F[7] \in Literals
  BY DEF generate_unary_op, IsSeq, Literals, Comma
<1>2. Len(FieldsOf("UnaryOp")) = 2 /\ Enough("UnaryOp", 2)
  BY DEF Enough, FieldsOf, Fields, MayLack
<1>3. /\ FieldsOf("UnaryOp")[1] = "unaryop" /\ FieldsOf("UnaryOp")[2] = "expr"
  BY DEF FieldsOf, Fields
<1> HIDE DEF F
<1>4. PartsAt("UnaryOp", F, 0, 3, 6, 8)
  BY <1>1, <1>2, <1>3, SymbolsAre DEF PartsAt, InOrder, IsField
<1>5. Before(0, 3, 6, 8, Len(F) + 1) = 2
  BY <1>1 DEF Before
<1>6. F[Len(F)] \notin DOMAIN Ends
  BY <1>1, LiteralsAre
<1>7. FormFits("UnaryOp", F, 0)
  BY <1>2, <1>4, <1>5, <1>6, PlainForm DEF FormFits
<1> QED
  BY <1>7 DEF F

LEMMA CompareForm == FormFits("Compare", generate_compare, 0)
<1> DEFINE F == generate_compare
<1>1. /\ IsSeq(F) /\ Len(F) = 10
      /\ F[1] \in Literals /\ F[2] \in Literals /\ F[3] = "expr"
      /\ F[4] \in Literals /\ F[5] \in Literals /\ F[6] = "cmpops"
      /\ F[7] \in Literals /\ F[8] \in Literals /\ F[9] = "exprs"
      /\ F[10] \in Literals
  BY DEF generate_compare, IsSeq, Literals, Comma
<1>2. Len(FieldsOf("Compare")) = 3 /\ Enough("Compare", 3)
  BY DEF Enough, FieldsOf, Fields, MayLack
<1>3. /\ FieldsOf("Compare")[1] = "expr" /\ FieldsOf("Compare")[2] = "cmpops"
      /\ FieldsOf("Compare")[3] = "exprs"
  BY DEF FieldsOf, Fields
<1> HIDE DEF F
<1>4. PartsAt("Compare", F, 0, 3, 6, 9)
  BY <1>1, <1>2, <1>3, SymbolsAre DEF PartsAt, InOrder, IsField
<1>5. Before(0, 3, 6, 9, Len(F) + 1) = 3
  BY <1>1 DEF Before
<1>6. F[Len(F)] \notin DOMAIN Ends
  BY <1>1, LiteralsAre
<1>7. FormFits("Compare", F, 0)
  BY <1>2, <1>4, <1>5, <1>6, PlainForm DEF FormFits
<1> QED
  BY <1>7 DEF F

LEMMA CallForm == FormFits("Call", generate_call, 0)
<1> DEFINE F == generate_call
<1>1. /\ IsSeq(F) /\ Len(F) = 11
      /\ F[1] \in Literals /\ F[2] \in Literals /\ F[3] = "expr"
      /\ F[4] \in Literals /\ F[5] \in Literals /\ F[6] = "exprs"
      /\ F[7] \in Literals /\ F[8] \in Literals /\ F[9] \in Literals
      /\ F[10] \in Literals /\ F[11] \in Literals
  BY DEF generate_call, IsSeq, Literals, Comma
<1>2. Len(FieldsOf("Call")) = 2 /\ Enough("Call", 2)
  BY DEF Enough, FieldsOf, Fields, MayLack
<1>3. /\ FieldsOf("Call")[1] = "expr" /\ FieldsOf("Call")[2] = "exprs"
  BY DEF FieldsOf, Fields
<1> HIDE DEF F
<1>4. PartsAt("Call", F, 0, 3, 6, 12)
  BY <1>1, <1>2, <1>3, SymbolsAre DEF PartsAt, InOrder, IsField
<1>5. Before(0, 3, 6, 12, Len(F) + 1) = 2
  BY <1>1 DEF Before
<1>6. F[Len(F)] \notin DOMAIN Ends
  BY <1>1, LiteralsAre
<1>7. FormFits("Call", F, 0)
  BY <1>2, <1>4, <1>5, <1>6, PlainForm DEF FormFits
<1> QED
  BY <1>7 DEF F

LEMMA AttributeForm == FormFits("Attribute", generate_attribute, 0)
<1> DEFINE F == generate_attribute
<1>1. /\ IsSeq(F) /\ Len(F) = 10
      /\ F[1] \in Literals /\ F[2] \in Literals /\ F[3] = "expr"
      /\ F[4] \in Literals /\ F[5] \in Literals /\ F[6] = "identifier"
      /\ F[7] \in Literals /\ F[8] \in Literals /\ F[9] = "context"
      /\ F[10] \in Literals
  BY DEF generate_attribute, IsSeq, Literals, Comma
<1>2. Len(FieldsOf("Attribute")) = 3 /\ Enough("Attribute", 3)
  BY DEF Enough, FieldsOf, Fields, MayLack
<1>3. /\ FieldsOf("Attribute")[1] = "expr"
      /\ FieldsOf("Attribute")[2] = "identifier"
      /\ FieldsOf("Attribute")[3] = "context"
  BY DEF FieldsOf, Fields
<1> HIDE DEF F
<1>4. PartsAt("Attribute", F, 0, 3, 6, 9)
  BY <1>1, <1>2, <1>3, SymbolsAre DEF PartsAt, InOrder, IsField
<1>5. Before(0, 3, 6, 9, Len(F) + 1) = 3
  BY <1>1 DEF Before
<1>6. F[Len(F)] \notin DOMAIN Ends
  BY <1>1, LiteralsAre
<1>7. FormFits("Attribute", F, 0)
  BY <1>2, <1>4, <1>5, <1>6, PlainForm DEF FormFits
<1> QED
  BY <1>7 DEF F

LEMMA SubscriptForm == FormFits("Subscript", generate_subscript, 0)
<1> DEFINE F == generate_subscript
<1>1. /\ IsSeq(F) /\ Len(F) = 10
      /\ F[1] \in Literals /\ F[2] \in Literals /\ F[3] = "expr"
      /\ F[4] \in Literals /\ F[5] \in Literals /\ F[6] = "expr"
      /\ F[7] \in Literals /\ F[8] \in Literals /\ F[9] = "context"
      /\ F[10] \in Literals
  BY DEF generate_subscript, IsSeq, Literals, Comma
<1>2. Len(FieldsOf("Subscript")) = 3 /\ Enough("Subscript", 3)
  BY DEF Enough, FieldsOf, Fields, MayLack
<1>3. /\ FieldsOf("Subscript")[1] = "expr"
      /\ FieldsOf("Subscript")[2] = "expr"
      /\ FieldsOf("Subscript")[3] = "context"
  BY DEF FieldsOf, Fields
<1> HIDE DEF F
<1>4. PartsAt("Subscript", F, 0, 3, 6, 9)
  BY <1>1, <1>2, <1>3, SymbolsAre DEF PartsAt, InOrder, IsField
<1>5. Before(0, 3, 6, 9, Len(F) + 1) = 3
  BY <1>1 DEF Before
<1>6. F[Len(F)] \notin DOMAIN Ends
  BY <1>1, LiteralsAre
<1>7. FormFits("Subscript", F, 0)
  BY <1>2, <1>4, <1>5, <1>6, PlainForm DEF FormFits
<1> QED
  BY <1>7 DEF F

LEMMA NameForm == FormFits("Name", generate_name, 0)
<1> DEFINE F == generate_name
<1>1. /\ IsSeq(F) /\ Len(F) = 7
      /\ F[1] \in Literals /\ F[2] \in Literals /\ F[3] = "identifier"
      /\ F[4] \in Literals /\ F[5] \in Literals /\ F[6] = "context"
      /\ F[7] \in Literals
  BY DEF generate_name, IsSeq, Literals, Comma
<1>2. Len(FieldsOf("Name")) = 2 /\ Enough("Name", 2)
  BY DEF Enough, FieldsOf, Fields, MayLack
<1>3. /\ FieldsOf("Name")[1] = "identifier" /\ FieldsOf("Name")[2] = "context"
  BY DEF FieldsOf, Fields
<1> HIDE DEF F
<1>4. PartsAt("Name", F, 0, 3, 6, 8)
  BY <1>1, <1>2, <1>3, SymbolsAre DEF PartsAt, InOrder, IsField
<1>5. Before(0, 3, 6, 8, Len(F) + 1) = 2
  BY <1>1 DEF Before
<1>6. F[Len(F)] \notin DOMAIN Ends
  BY <1>1, LiteralsAre
<1>7. FormFits("Name", F, 0)
  BY <1>2, <1>4, <1>5, <1>6, PlainForm DEF FormFits
<1> QED
  BY <1>7 DEF F

LEMMA ArgForm == FormFits("arg", generate_arg, 0)
<1> DEFINE F == generate_arg
<1>1. /\ IsSeq(F) /\ Len(F) = 4
      /\ F[1] \in Literals /\ F[2] \in Literals /\ F[3] = "identifier"
      /\ F[4] \in Literals
  BY DEF generate_arg, IsSeq, Literals
<1>2. Len(FieldsOf("arg")) = 1 /\ Enough("arg", 1)
  BY DEF Enough, FieldsOf, Fields, MayLack
<1>3. FieldsOf("arg")[1] = "identifier"
  BY DEF FieldsOf, Fields
<1> HIDE DEF F
<1>4. PartsAt("arg", F, 0, 3, 5, 5)
  BY <1>1, <1>2, <1>3, SymbolsAre DEF PartsAt, InOrder, IsField
<1>5. Before(0, 3, 5, 5, Len(F) + 1) = 1
  BY <1>1 DEF Before
<1>6. F[Len(F)] \notin DOMAIN Ends
  BY <1>1, LiteralsAre
<1>7. FormFits("arg", F, 0)
  BY <1>2, <1>4, <1>5, <1>6, PlainForm DEF FormFits
<1> QED
  BY <1>7 DEF F

LEMMA WithitemForm == FormFits("withitem", generate_withitem, 0)
<1> DEFINE F == generate_withitem
<1>1. /\ IsSeq(F) /\ Len(F) = 4
      /\ F[1] \in Literals /\ F[2] \in Literals /\ F[3] = "expr"
      /\ F[4] = "optionalVars"
  BY DEF generate_withitem, IsSeq, Literals
<1>2. Len(FieldsOf("withitem")) = 2 /\ Enough("withitem", 1) /\ Enough("withitem", 2)
  BY DEF Enough, FieldsOf, Fields, MayLack
<1>3. /\ FieldsOf("withitem")[1] = "expr" /\ FieldsOf("withitem")[2] = "expr"
  BY DEF FieldsOf, Fields
<1> HIDE DEF F
<1>4. PartsAt("withitem", F, 0, 3, 5, 5)
  BY <1>1, <1>2, <1>3, SymbolsAre DEF PartsAt, InOrder, IsField
<1>5. Before(0, 3, 5, 5, Len(F)) = 1
  BY <1>1 DEF Before
<1>6. PlainFits("withitem", Ends["optionalVars"][1], 1)
  <2> DEFINE E == Ends["optionalVars"][1]
  <2>1. /\ IsSeq(E) /\ Len(E) = 1
        /\ E[1] \in Literals
    BY DEF Ends, IsSeq, Literals
  <2> HIDE DEF E
  <2>2. PartsAt("withitem", E, 1, 2, 2, 2)
    BY <1>2, <1>3, <2>1, SymbolsAre DEF PartsAt, InOrder, IsField
  <2>3. Before(1, 2, 2, 2, Len(E) + 1) = 1
    BY <2>1 DEF Before
  <2>4. E[Len(E)] \notin DOMAIN Ends
    BY <2>1, LiteralsAre
  <2>5. PlainFits("withitem", E, 1)
    BY <1>2, <2>2, <2>3, <2>4, PlainForm
  <2> QED
    BY <2>5 DEF E
<1>7. PlainFits("withitem", Ends["optionalVars"][2], 1)
  <2> DEFINE E == Ends["optionalVars"][2]
  <2>1. /\ IsSeq(E) /\ Len(E) = 4
        /\ E[1] \in Literals /\ E[2] \in Literals /\ E[3] = "expr"
        /\ E[4] \in Literals
    BY DEF Ends, IsSeq, Literals, Comma
  <2> HIDE DEF E
  <2>2. PartsAt("withitem", E, 1, 3, 5, 5)
    BY <1>2, <1>3, <2>1, SymbolsAre DEF PartsAt, InOrder, IsField
  <2>3. Before(1, 3, 5, 5, Len(E) + 1) = 2
    BY <2>1 DEF Before
  <2>4. E[Len(E)] \notin DOMAIN Ends
    BY <2>1, LiteralsAre
  <2>5. PlainFits("withitem", E, 1)
    BY <1>2, <2>2, <2>3, <2>4, PlainForm
  <2> QED
    BY <2>5 DEF E
<1>8. DOMAIN Ends["optionalVars"] = {1, 2}
  BY DEF Ends
<1>9. FormFits("withitem", F, 0)
  <2>1. F[Len(F)] = "optionalVars"
    BY <1>1
  <2> QED
    BY <2>1, <1>4, <1>5, <1>6, <1>7, <1>8, SymbolsAre, FormWithEnds
<1> QED
  BY <1>9 DEF F

-----------------------------------------------------------------------------
(* The functions that are called, the vectors and the leaves.              *)

LEMMA CalledForms ==
  ASSUME NEW symbol \in DOMAIN Called, NEW kind \in DOMAIN Called[symbol],
         kind # "Constant"
  PROVE  FormFits(kind, Called[symbol][kind], 0)
<1>1. DOMAIN Called = {"stmt", "expr", "arg", "withitem"}
  BY DEF Called
<1>2. CASE symbol = "stmt"
  <2>1. DOMAIN Called["stmt"] =
          {"Import", "FunctionDef", "ClassDef", "Return", "Assign", "AugAssign",
           "While", "For", "With", "If", "ExprStmt", "Pass", "Break", "Continue"}
    BY DEF Called, generate_stmt
  <2>2. Called["stmt"] = generate_stmt
    BY DEF Called
  <2>3. /\ generate_stmt["Import"] = generate_import
        /\ generate_stmt["FunctionDef"] = generate_function_def
        /\ generate_stmt["ClassDef"] = generate_class_def
        /\ generate_stmt["Return"] = generate_return
        /\ generate_stmt["Assign"] = generate_assign
        /\ generate_stmt["AugAssign"] = generate_aug_assign
        /\ generate_stmt["While"] = generate_while
        /\ generate_stmt["For"] = generate_for
        /\ generate_stmt["With"] = generate_with
        /\ generate_stmt["If"] = generate_if
        /\ generate_stmt["ExprStmt"] = generate_expr_stmt
    BY DEF generate_stmt
  <2> QED
    BY <1>2, <2>1, <2>2, <2>3, ImportForm, FunctionDefForm, ClassDefForm, ReturnForm,
       AssignForm, AugAssignForm, WhileForm, ForForm, WithForm, IfForm, ExprStmtForm,
       PassForm, BreakForm, ContinueForm
<1>3. CASE symbol = "expr"
  <2>1. DOMAIN Called["expr"] =
          {"BoolOp", "BinOp", "UnaryOp", "Compare", "Call", "Constant", "Attribute",
           "Subscript", "Name"}
    BY DEF Called, generate_expr
  <2>2. Called["expr"] = generate_expr
    BY DEF Called
  <2>3. /\ generate_expr["BoolOp"] = generate_bool_op
        /\ generate_expr["BinOp"] = generate_bin_op
        /\ generate_expr["UnaryOp"] = generate_unary_op
        /\ generate_expr["Compare"] = generate_compare
        /\ generate_expr["Call"] = generate_call
        /\ generate_expr["Attribute"] = generate_attribute
        /\ generate_expr["Subscript"] = generate_subscript
        /\ generate_expr["Name"] = generate_name
    BY DEF generate_expr
  <2> QED
    BY <1>3, <2>1, <2>2, <2>3, BoolOpForm, BinOpForm, UnaryOpForm, CompareForm,
       CallForm, AttributeForm, SubscriptForm, NameForm
<1>4. CASE symbol = "arg"
  <2>1. DOMAIN Called["arg"] = {"arg"} /\ Called["arg"]["arg"] = generate_arg
    BY DEF Called
  <2> QED
    BY <1>4, <2>1, ArgForm
<1>5. CASE symbol = "withitem"
  <2>1. /\ DOMAIN Called["withitem"] = {"withitem"}
        /\ Called["withitem"]["withitem"] = generate_withitem
    BY DEF Called
  <2> QED
    BY <1>5, <2>1, WithitemForm
<1> QED
  BY <1>1, <1>2, <1>3, <1>4, <1>5

\* What is called has the type it is called for, and only a constant is a
\* vector.
LEMMA CalledTypes ==
  ASSUME NEW symbol \in DOMAIN Called, NEW kind \in DOMAIN Called[symbol]
  PROVE  /\ kind \in Types[symbol]
         /\ kind \in DOMAIN Elements <=> kind = "Constant"
         /\ kind = "Constant" => Called[symbol][kind] = generate_constant
<1>1. DOMAIN Called = {"stmt", "expr", "arg", "withitem"}
  BY DEF Called
<1>2. /\ DOMAIN Called["stmt"] =
          {"Import", "FunctionDef", "ClassDef", "Return", "Assign", "AugAssign",
           "While", "For", "With", "If", "ExprStmt", "Pass", "Break", "Continue"}
      /\ DOMAIN Called["expr"] =
          {"BoolOp", "BinOp", "UnaryOp", "Compare", "Call", "Constant", "Attribute",
           "Subscript", "Name"}
      /\ DOMAIN Called["arg"] = {"arg"}
      /\ DOMAIN Called["withitem"] = {"withitem"}
  BY DEF Called, generate_stmt, generate_expr
<1>3. /\ Types["stmt"] = DOMAIN Called["stmt"] /\ Types["expr"] = DOMAIN Called["expr"]
      /\ Types["arg"] = {"arg"} /\ Types["withitem"] = {"withitem"}
  BY DEF Types, Called
<1>4. DOMAIN Elements = {"stmts", "exprs", "args", "withitems", "cmpops", "Constant"}
  BY DEF Elements
<1>5. Called["expr"]["Constant"] = generate_constant
  BY DEF Called, generate_expr
<1> QED
  BY <1>1, <1>2, <1>3, <1>4, <1>5

\* A leaf has the type it stands for and no parts.
LEMMA LeafTypes ==
  ASSUME NEW symbol \in DOMAIN Leaves, NEW token \in Leaves[symbol]
  PROVE  token \in Types[symbol] /\ token \notin DOMAIN Fields /\ token # EndOfText
<1>1. DOMAIN Leaves = {"identifier", "context", "binop", "boolop", "unaryop", "cmpop"}
  BY DEF Leaves
<1>2. /\ Leaves["identifier"] = Types["identifier"]
      /\ Leaves["context"] = Types["context"]
      /\ Leaves["binop"] \subseteq Types["binop"]
      /\ Leaves["boolop"] \subseteq Types["boolop"]
      /\ Leaves["unaryop"] \subseteq Types["unaryop"]
      /\ Leaves["cmpop"] \subseteq Types["cmpop"]
  BY DEF Leaves, Types, OfClass
<1>3. \A t \in Types["identifier"] : t \notin DOMAIN Fields /\ t # EndOfText
  BY Zenon, ParserAssumption DEF Types, EndOfText
<1>4. DOMAIN Fields =
        {"Module", "Import", "FunctionDef", "ClassDef", "Return", "Assign", "AugAssign",
         "While", "For", "With", "If", "ExprStmt", "BoolOp", "BinOp", "UnaryOp",
         "Compare", "Call", "Attribute", "Subscript", "Name", "arg", "withitem"}
  BY DEF Fields
<1> DEFINE Words == ExprContext \cup BinOpKind \cup BoolOpKind \cup UnaryOpKind
                      \cup CmpOpKind
<1>5. \A t \in Words : t \notin DOMAIN Fields
  BY <1>4 DEF ExprContext, BinOpKind, BoolOpKind, UnaryOpKind, CmpOpKind
<1>6. \A t \in Words : t # EndOfText
  BY Zenon DEF EndOfText, ExprContext, BinOpKind, BoolOpKind, UnaryOpKind, CmpOpKind
<1>7. /\ Types["context"] \subseteq Words /\ Types["binop"] \subseteq Words
      /\ Types["boolop"] \subseteq Words /\ Types["unaryop"] \subseteq Words
      /\ Types["cmpop"] \subseteq Words
  BY DEF Types
<1> HIDE DEF Words
<1> QED
  BY <1>1, <1>2, <1>3, <1>5, <1>6, <1>7

\* What may be left of the form of a vector.
VectorRests(kind) ==
  IF kind = "Constant"
  THEN {generate_constant, <<"value=", "value", ")">>, <<"value", ")">>, <<")">>, <<>>}
  ELSE {<<"[", "begin">>, <<"begin">>, <<Lists[kind], "more">>, <<"more">>, <<"]">>,
        <<>>}

LEMMA ListsAre ==
  /\ DOMAIN Lists = {"stmts", "exprs", "args", "withitems", "cmpops"}
  /\ DOMAIN Elements = DOMAIN Lists \cup {"Constant"}
  /\ \A kind \in DOMAIN Lists : /\ kind # "Constant"
                                /\ Lists[kind] \in Places
                                /\ Elements[kind] = Lists[kind]
                                /\ Types[kind] = {kind}
                                /\ kind \in Places
<1>1. DOMAIN Lists = {"stmts", "exprs", "args", "withitems", "cmpops"}
  BY DEF Lists
<1>2. DOMAIN Elements = {"stmts", "exprs", "args", "withitems", "cmpops", "Constant"}
  BY DEF Elements
<1>3. /\ Lists["stmts"] = "stmt" /\ Lists["exprs"] = "expr" /\ Lists["args"] = "arg"
      /\ Lists["withitems"] = "withitem" /\ Lists["cmpops"] = "cmpop"
  BY DEF Lists
<1>4. /\ Elements["stmts"] = "stmt" /\ Elements["exprs"] = "expr"
      /\ Elements["args"] = "arg" /\ Elements["withitems"] = "withitem"
      /\ Elements["cmpops"] = "cmpop"
  BY DEF Elements
<1>5. /\ Types["stmts"] = {"stmts"} /\ Types["exprs"] = {"exprs"}
      /\ Types["args"] = {"args"} /\ Types["withitems"] = {"withitems"}
      /\ Types["cmpops"] = {"cmpops"}
  BY DEF Types
<1>6. ASSUME NEW kind \in DOMAIN Lists
      PROVE  /\ kind # "Constant" /\ Lists[kind] \in Places /\ kind \in Places
             /\ Elements[kind] = Lists[kind] /\ Types[kind] = {kind}
  BY <1>1, <1>3, <1>4, <1>5, <1>6, SymbolsAre
<1> QED
  BY <1>1, <1>2, <1>6

LEMMA VectorTail ==
  ASSUME NEW kind \in DOMAIN Elements, NEW rest \in VectorRests(kind), rest # <<>>
  PROVE  /\ Head(rest) \notin DOMAIN Ends /\ Head(rest) # EndOfText
         /\ Tail(rest) \in VectorRests(kind)
         /\ Head(rest) \in Places => kind \in DOMAIN Lists /\ Head(rest) = Elements[kind]
         /\ Head(rest) = "value" => kind = "Constant"
         /\ Head(rest) \in {"begin", "more"} => kind \in DOMAIN Lists /\ Tail(rest) = <<>>
<1>1. "value" # EndOfText /\ "begin" # EndOfText /\ "more" # EndOfText
  BY Zenon DEF EndOfText
<1>2. /\ "Constant(" \in Literals /\ "value=" \in Literals /\ ")" \in Literals
      /\ "[" \in Literals /\ "]" \in Literals
  BY DEF Literals
<1>3. CASE kind = "Constant"
  <2>1. generate_constant = <<"Constant(", "value=", "value", ")">>
    BY DEF generate_constant
  <2>2. rest \in {<<"Constant(", "value=", "value", ")">>, <<"value=", "value", ")">>,
                  <<"value", ")">>, <<")">>}
    BY <1>3, <2>1 DEF VectorRests
  <2>3. Head(rest) \in {"Constant(", "value=", "value", ")"}
    BY <2>2
  <2>4. Tail(rest) \in {<<"value=", "value", ")">>, <<"value", ")">>, <<")">>, <<>>}
    <3>1. /\ Tail(<<"Constant(", "value=", "value", ")">>) = <<"value=", "value", ")">>
          /\ Tail(<<"value=", "value", ")">>) = <<"value", ")">>
          /\ Tail(<<"value", ")">>) = <<")">>
          /\ Tail(<<")">>) = <<>>
      OBVIOUS
    <3> QED
      BY Zenon, <2>2, <3>1
  <2> QED
    BY <1>1, <1>2, <1>3, <2>3, <2>4, SymbolsAre, LiteralsAre DEF VectorRests
<1>4. CASE kind # "Constant"
  <2>1. kind \in DOMAIN Lists
    BY <1>4, ListsAre
  <2>2. rest \in {<<"[", "begin">>, <<"begin">>, <<Lists[kind], "more">>, <<"more">>,
                  <<"]">>}
    BY <1>4 DEF VectorRests
  <2>3. Head(rest) \in {"[", "begin", Lists[kind], "more", "]"}
    BY <2>2
  <2>4. /\ Tail(<<"[", "begin">>) = <<"begin">> /\ Tail(<<"begin">>) = <<>>
        /\ Tail(<<Lists[kind], "more">>) = <<"more">> /\ Tail(<<"more">>) = <<>>
        /\ Tail(<<"]">>) = <<>>
    OBVIOUS
  <2>5. Lists[kind] \in Places /\ Elements[kind] = Lists[kind]
    BY <2>1, ListsAre
  <2>6. Lists[kind] \notin DOMAIN Ends /\ Lists[kind] # EndOfText /\ Lists[kind] \notin Marks
    BY <2>5, SymbolsAre, LiteralsAre
  <2>7. Tail(rest) \in {<<"begin">>, <<"more">>, <<>>}
    BY Zenon, <2>2, <2>4
  <2>8. Head(rest) \in {"begin", "more"} => Tail(rest) = <<>>
    <3>1. /\ Head(<<"[", "begin">>) = "[" /\ Head(<<"]">>) = "]"
          /\ Head(<<Lists[kind], "more">>) = Lists[kind]
      OBVIOUS
    <3>2. /\ "[" # "begin" /\ "[" # "more" /\ "]" # "begin" /\ "]" # "more"
          /\ Lists[kind] # "begin" /\ Lists[kind] # "more"
      BY <2>6, SymbolsAre
    <3> QED
      BY Zenon, <2>2, <2>4, <3>1, <3>2
  <2> QED
    BY <1>1, <1>2, <1>4, <2>1, <2>3, <2>4, <2>5, <2>6, <2>7, <2>8, SymbolsAre, LiteralsAre
    DEF VectorRests
<1> QED
  BY <1>3, <1>4

-----------------------------------------------------------------------------
(* Looking at the text.                                                    *)

\* A token that is looked at is one of the text, or its end.
LEMMA AtText ==
  ASSUME NEW p, At(p) # EndOfText
  PROVE  p <= Len(text) /\ At(p) = text[p]
BY Zenon DEF At, EndOfText

InText == IsSeq(text) /\ pos \in 1..(Len(text) + 1)

\* What an integer is: a sign, perhaps, and digits.
IsInteger(p, n) ==
  /\ n \in Nat /\ p + n <= Len(text) + 1
  /\ \A i \in p..(p + n - 1) : text[i] \in Digits \cup {"-"}

LEMMA IntegerAt ==
  ASSUME IsSeq(text), NEW p \in 1..(Len(text) + 1)
  PROVE  IsInteger(p, IntLength(p))
<1> DEFINE sign == IF At(p) = "-" /\ p < Len(text) THEN 1 ELSE 0
           Others == {i \in (p + sign)..Len(text) : text[i] \notin Digits}
           stop == IF Others # {} THEN Min(Others) ELSE 0
<1>1. Len(text) \in Nat
  BY DEF IsSeq
<1>2. IntLength(p) = (IF stop = 0 THEN Len(text) + 1 ELSE stop) - p
  BY DEF IntLength, SelectInSubSeq
<1>3. /\ sign \in {0, 1} /\ p + sign \in Nat /\ p + sign <= Len(text) + 1
      /\ sign = 1 => At(p) = "-" /\ p < Len(text)
  BY <1>1
<1>4. sign = 1 => text[p] = "-"
  <2>1. "-" # EndOfText
    BY Zenon DEF EndOfText
  <2> QED
    BY <1>3, <2>1, AtText
<1> HIDE DEF sign
<1>5. CASE Others = {}
  <2>1. IntLength(p) = Len(text) + 1 - p
    BY <1>1, <1>2, <1>5
  <2>2. \A i \in p..Len(text) : text[i] \in Digits \cup {"-"}
    <3> SUFFICES ASSUME NEW i \in p..Len(text) PROVE text[i] \in Digits \cup {"-"}
      OBVIOUS
    <3>1. (i = p /\ sign = 1) \/ i \in (p + sign)..Len(text)
      BY <1>1, <1>3
    <3> QED
      BY <1>4, <1>5, <3>1
  <2> HIDE DEF Others
  <2> QED
    BY <1>1, <2>1, <2>2 DEF IsInteger
<1>6. CASE Others # {}
  <2>1. Others \in SUBSET Nat
    BY <1>1, <1>3
  <2>2. \E m \in Others : \A i \in Others : m <= i
    <3> HIDE DEF Others
    <3> QED
      BY <1>6, <2>1, LeastExists
  <2>3. Min(Others) \in Others /\ \A i \in Others : Min(Others) <= i
    <3> HIDE DEF Others
    <3> QED
      BY <2>2 DEF Min
  <2> DEFINE m == Min(Others)
  <2>4. m \in (p + sign)..Len(text) /\ \A i \in Others : m <= i
    BY <2>3
  <2>5. IntLength(p) = m - p
    <3>1. m # 0
      BY <1>1, <1>3, <2>4
    <3> HIDE DEF Others
    <3> QED
      BY <1>2, <1>6, <3>1
  <2>6. \A i \in p..(m - 1) : text[i] \in Digits \cup {"-"}
    <3> SUFFICES ASSUME NEW i \in p..(m - 1) PROVE text[i] \in Digits \cup {"-"}
      OBVIOUS
    <3>1. (i = p /\ sign = 1) \/ i \in (p + sign)..Len(text)
      BY <1>1, <1>3, <2>4
    <3>2. i \notin Others
      <4> HIDE DEF Others
      <4> QED
        BY <1>1, <1>3, <2>4
    <3> QED
      BY <1>4, <3>1, <3>2
  <2> HIDE DEF m
  <2>7. p + (m - p) - 1 = m - 1 /\ m - p \in Nat /\ p + (m - p) <= Len(text) + 1
    BY <1>1, <1>3, <2>4
  <2> QED
    BY <2>5, <2>6, <2>7 DEF IsInteger
<1> QED
  BY <1>5, <1>6

\* The pieces of a constant.
IsPieces(n) ==
  /\ n \in Nat /\ pos + n <= Len(text) + 1
  /\ \A i \in pos..(pos + n - 1) : text[i] \in Types["piece"]

LEMMA PieceTypes ==
  /\ Types["piece"] = Quoted \cup Digits \cup {"0", "nearest", "-", ".", "True", "False"}
  /\ Elements["Constant"] = "piece"
  /\ \A t \in Types["piece"] : t \notin DOMAIN Fields
<1>1. Types["piece"] = Quoted \cup Digits \cup {"0", "nearest", "-", ".", "True", "False"}
  BY DEF Types
<1>2. Elements["Constant"] = "piece"
  BY DEF Elements
<1>3. \A t \in Quoted \cup Digits : t \notin DOMAIN Fields
  BY Zenon, ParserAssumption
<1>4. \A t \in {"0", "nearest", "-", ".", "True", "False"} : t \notin DOMAIN Fields
  BY DEF Fields
<1> QED
  BY <1>1, <1>2, <1>3, <1>4

LEMMA ConstantAt ==
  ASSUME InText, ConstantLength > 0
  PROVE  IsPieces(ConstantLength)
<1> DEFINE n == IntLength(pos)
<1>1. IsSeq(text) /\ Len(text) \in Nat /\ pos \in 1..(Len(text) + 1)
  BY DEF InText, IsSeq
<1>2. IsInteger(pos, n)
  BY <1>1, IntegerAt
<1>3. \A t \in Digits \cup {"-"} : t \in Types["piece"]
  BY PieceTypes
<1>4. IsPieces(n)
  BY <1>2, <1>3 DEF IsPieces, IsInteger
<1>5. FloatLength(pos) > 0 => IsPieces(FloatLength(pos))
  <2> SUFFICES ASSUME FloatLength(pos) > 0 PROVE IsPieces(FloatLength(pos))
    OBVIOUS
  <2> DEFINE q == pos + n
             f == IntLength(q + 1)
  <2>1. At(q) = "." /\ FloatLength(pos) = n + 1 + f
    BY DEF FloatLength
  <2>2. q <= Len(text) /\ text[q] = "."
    <3>1. "." # EndOfText
      BY Zenon DEF EndOfText
    <3> QED
      BY <2>1, <3>1, AtText
  <2>3. n \in Nat /\ q \in 1..Len(text) /\ q + 1 \in 1..(Len(text) + 1)
    BY <1>1, <1>2, <2>2 DEF IsInteger
  <2> HIDE DEF q, f
  <2>4. IsInteger(q + 1, f)
    BY <1>1, <2>3, IntegerAt DEF f
  <2> HIDE DEF n
  <2>5. f \in Nat /\ (q + 1) + f <= Len(text) + 1
    BY <2>4 DEF IsInteger
  <2>6. n + 1 + f \in Nat /\ pos + (n + 1 + f) <= Len(text) + 1
    BY <1>1, <2>3, <2>5 DEF q
  <2>7. ASSUME NEW i \in pos..(pos + (n + 1 + f) - 1)
        PROVE  text[i] \in Types["piece"]
    <3>1. i \in pos..(pos + n - 1) \/ i = q \/ i \in (q + 1)..((q + 1) + f - 1)
      BY <1>1, <2>3, <2>5 DEF q
    <3>2. "." \in Types["piece"]
      BY PieceTypes
    <3> QED
      BY <1>3, <1>4, <2>2, <2>4, <3>1, <3>2 DEF IsPieces, IsInteger
  <2> QED
    BY <2>1, <2>6, <2>7 DEF IsPieces
<1>6. At(pos) \in Quoted \cup {"True", "False"} => IsPieces(1)
  <2> SUFFICES ASSUME At(pos) \in Quoted \cup {"True", "False"} PROVE IsPieces(1)
    OBVIOUS
  <2>1. At(pos) # EndOfText
    BY Zenon, ParserAssumption DEF EndOfText
  <2>2. pos <= Len(text) /\ text[pos] \in Types["piece"]
    BY <2>1, AtText, PieceTypes
  <2> QED
    BY <1>1, <2>2 DEF IsPieces
<1>7. \/ ConstantLength = 1 /\ At(pos) \in Quoted \cup {"True", "False"}
      \/ ConstantLength = FloatLength(pos) /\ FloatLength(pos) > 0
      \/ ConstantLength = n
      \/ ConstantLength = 0
  BY DEF ConstantLength
<1> QED
  BY <1>4, <1>5, <1>6, <1>7

\* What the machine has for a run of pieces is one.
LEMMA RunIs ==
  ASSUME NEW P, "0" \in P, "nearest" \in P, NEW s \in Seq(P)
  PROVE  Run(s) \in Seq(P)
<1>1. CASE s = <<>>
  <2>1. Run(s) = <<"0">>
    BY <1>1 DEF Run
  <2> QED
    BY <2>1
<1>2. CASE s # <<>>
  <2>1. Run(s) = [k \in 1..Len(s) |-> IF s[k] \in Huge THEN "nearest" ELSE s[k]]
    BY <1>2 DEF Run
  <2>2. Len(s) \in Nat /\ \A k \in 1..Len(s) : s[k] \in P
    OBVIOUS
  <2>3. Run(s) \in [1..Len(s) -> P]
    BY <2>1, <2>2
  <2> QED
    BY <2>2, <2>3
<1> QED
  BY <1>1, <1>2

LEMMA SubSeqIs ==
  ASSUME NEW P, NEW s \in Seq(P), NEW a \in Nat, NEW b \in Int, a > 0, b <= Len(s)
  PROVE  SubSeq(s, a, b) \in Seq(P)
OBVIOUS

\* What a number is read as consists of pieces.
LEMMA FromStrIs ==
  ASSUME NEW P, {"0", "nearest", "-", "."} \subseteq P, NEW s \in Seq(P)
  PROVE  FromStr(s) \in Seq(P)
<1> DEFINE sign == IF Head(s) = "-" THEN <<"-">> ELSE <<>>
           unsigned == SubSeq(s, Len(sign) + 1, Len(s))
           dot == SelectInSeq(unsigned, LAMBDA t : t = ".")
           whole == IF dot = 0 THEN unsigned ELSE SubSeq(unsigned, 1, dot - 1)
           rest == SubSeq(unsigned, dot + 1, Len(unsigned))
           fraction == IF rest # <<>> /\ Head(rest) = "-" THEN <<>> ELSE rest
<1>1. FromStr(s) = IF dot = 0
                   THEN IF Run(whole) = <<"0">> THEN <<"0">> ELSE sign \o Run(whole)
                   ELSE (IF whole = <<>> /\ fraction = <<>> THEN <<>> ELSE sign)
                          \o Run(whole) \o <<".">> \o Run(fraction)
  BY Zenon DEF FromStr
<1>2. <<>> \in Seq(P) /\ <<"0">> \in Seq(P) /\ <<".">> \in Seq(P)
  OBVIOUS
<1>3. sign \in Seq(P) /\ Len(sign) \in {0, 1}
  OBVIOUS
<1> HIDE DEF sign
<1>4. unsigned \in Seq(P)
  BY <1>3, SubSeqIs
<1> HIDE DEF unsigned
<1>5. dot \in 0..Len(unsigned)
  <2> DEFINE I == {i \in 1..Len(unsigned) : unsigned[i] = "."}
  <2>1. dot = IF I # {} THEN Min(I) ELSE 0
    BY DEF SelectInSeq
  <2>2. I \subseteq 1..Len(unsigned) /\ Len(unsigned) \in Nat
    BY <1>4
  <2> HIDE DEF I, dot
  <2>3. CASE I = {}
    <3>1. dot = 0
      BY <2>1, <2>3
    <3> QED
      BY <2>2, <3>1
  <2>4. CASE I # {}
    <3>1. I \in SUBSET Nat
      BY <2>2
    <3>2. \E m \in I : \A i \in I : m <= i
      BY <2>4, <3>1, LeastExists
    <3>3. Min(I) \in I
      BY <3>2 DEF Min
    <3>4. dot \in 1..Len(unsigned)
      BY <2>1, <2>2, <2>4, <3>3
    <3> QED
      BY <2>2, <3>4
  <2> QED
    BY <2>3, <2>4
<1> HIDE DEF dot
<1>6. Len(unsigned) \in Nat
  BY <1>4
<1>7. whole \in Seq(P)
  <2>1. 1 \in Nat /\ dot - 1 \in Int /\ dot - 1 <= Len(unsigned)
    BY <1>5, <1>6
  <2> QED
    BY <1>4, <2>1, SubSeqIs
<1> HIDE DEF whole
<1>8. rest \in Seq(P)
  BY <1>4, <1>5, <1>6, SubSeqIs
<1> HIDE DEF rest
<1>9. fraction \in Seq(P)
  BY <1>2, <1>8
<1> HIDE DEF fraction
<1>10. Run(whole) \in Seq(P) /\ Run(fraction) \in Seq(P)
  BY <1>7, <1>9, RunIs
<1>11. \A x, y \in Seq(P) : x \o y \in Seq(P)
  OBVIOUS
<1>12. (IF whole = <<>> /\ fraction = <<>> THEN <<>> ELSE sign) \in Seq(P)
  BY <1>2, <1>3
<1>13. sign \o Run(whole) \in Seq(P)
  BY <1>3, <1>10, <1>11
<1>14. (IF whole = <<>> /\ fraction = <<>> THEN <<>> ELSE sign)
          \o Run(whole) \o <<".">> \o Run(fraction) \in Seq(P)
  <2>1. PICK x : x = IF whole = <<>> /\ fraction = <<>> THEN <<>> ELSE sign
    OBVIOUS
  <2>2. x \o Run(whole) \in Seq(P)
    BY <1>10, <1>11, <1>12, <2>1
  <2>3. (x \o Run(whole)) \o <<".">> \in Seq(P)
    BY <1>2, <1>11, <2>2
  <2>4. ((x \o Run(whole)) \o <<".">>) \o Run(fraction) \in Seq(P)
    BY <1>10, <1>11, <2>3
  <2> QED
    BY <2>1, <2>4, Zenon
<1> QED
  BY <1>1, <1>2, <1>13, <1>14, Zenon

\* The value of a constant is a sequence of pieces.
LEMMA ValueIs ==
  ASSUME InText, NEW n, IsPieces(n), NEW new, new = Value(pos, pos + n)
  PROVE  /\ IsSeq(new) /\ Len(new) \in Nat
         /\ \A k \in 1..Len(new) : \E t \in Types["piece"] : new[k] = Word(t)
<1> DEFINE P == Types["piece"]
<1>1. PICK s : s = SubSeq(text, pos, (pos + n) - 1)
  OBVIOUS
<1>2. PICK v : v = IF Head(s) \in Quoted \cup {"True", "False"} THEN s ELSE FromStr(s)
  OBVIOUS
<1>3. new = [k \in DOMAIN v |-> Word(v[k])]
  BY <1>1, <1>2, Zenon DEF Value
<1>4. IsSeq(text) /\ Len(text) \in Nat /\ pos \in Nat /\ pos > 0 /\ n \in Nat
      /\ pos + n <= Len(text) + 1
  BY DEF InText, IsSeq, IsPieces
<1>5. {"0", "nearest", "-", "."} \subseteq P
  BY PieceTypes
<1> HIDE DEF P
<1>6. s \in Seq(P)
  <2>1. text \in Seq(ElementsOf(text))
    BY <1>4, SeqOfElements
  <2>2. s = [k \in 1..n |-> text[pos + k - 1]]
    BY <1>4, <1>1, <2>1
  <2>3. \A k \in 1..n : text[pos + k - 1] \in P
    <3> SUFFICES ASSUME NEW k \in 1..n PROVE text[pos + k - 1] \in P
      OBVIOUS
    <3>1. pos + k - 1 \in pos..(pos + n - 1)
      BY <1>4
    <3> QED
      BY <3>1 DEF IsPieces, P
  <2>4. s \in [1..n -> P]
    BY <2>2, <2>3
  <2> QED
    BY <1>4, <2>4
<1>7. v \in Seq(P)
  BY <1>5, <1>6, <1>2, FromStrIs
<1>8. Len(v) \in Nat /\ DOMAIN v = 1..Len(v) /\ \A k \in 1..Len(v) : v[k] \in P
  BY <1>7
<1>9. new = [k \in 1..Len(v) |-> Word(v[k])]
  BY <1>3, <1>8
<1>10. IsSeq(new) /\ Len(new) = Len(v)
  BY <1>8, <1>9 DEF IsSeq
<1>11. \A k \in 1..Len(new) : new[k] = Word(v[k])
  BY <1>9, <1>10
<1> QED
  BY <1>8, <1>10, <1>11 DEF P

-----------------------------------------------------------------------------
(* The invariant.                                                          *)

\* A set of nodes that has the parts of its nodes.
Trees(T) == \A n \in T : n.parts \in Seq(T) /\ Fits(n)

InStep(a) ==
  IF a.kind \in DOMAIN Elements THEN a.rest \in VectorRests(a.kind)
  ELSE FormFits(a.kind, a.rest, Len(a.parts))

\* An activation whose form asks for the parts it does not have yet.
ActivationOK(a, T) ==
  /\ a = [kind |-> a.kind, rest |-> a.rest, parts |-> a.parts]
  /\ IsSeq(a.rest) /\ a.parts \in Seq(T)
  /\ Fits(Node(a.kind, a.parts))
  /\ InStep(a)

StackOK(s, T) ==
  /\ IsSeq(s) /\ Len(s) > 0
  /\ \A d \in 1..Len(s) : ActivationOK(s[d], T)
  /\ \A d \in 1..(Len(s) - 1) : s[d].rest # <<>> /\ Answers(s[d + 1].kind, Head(s[d].rest))
  /\ s[1].kind = "Module"

\* The trees the unfinished nodes have been put together from.
BuiltFrom(T) ==
  /\ Trees(T)
  /\ StackOK(stack, T)
  /\ status = "accepted" => module \in T /\ module.kind = "Module" /\ Complete(module)

PInv ==
  /\ status \in {"parsing", "accepted", "rejected"}
  /\ InText
  /\ \E T : BuiltFrom(T)

-----------------------------------------------------------------------------
(* Nodes.                                                                  *)

LEMMA SeqGrows ==
  ASSUME NEW S, NEW T, S \subseteq T, NEW s \in Seq(S)
  PROVE  s \in Seq(T)
OBVIOUS

LEMMA TreesGrow ==
  ASSUME NEW T, NEW New, Trees(T), \A n \in New : n.parts \in Seq(T) /\ Fits(n)
  PROVE  Trees(T \cup New)
<1> SUFFICES ASSUME NEW n \in T \cup New PROVE n.parts \in Seq(T \cup New) /\ Fits(n)
  BY DEF Trees
<1>1. n.parts \in Seq(T) /\ Fits(n)
  BY DEF Trees
<1> QED
  BY <1>1, SeqGrows

LEMMA ActivationGrows ==
  ASSUME NEW S, NEW T, S \subseteq T, NEW a, ActivationOK(a, S)
  PROVE  ActivationOK(a, T)
BY SeqGrows DEF ActivationOK

\* The type of part k of a node of this kind.
PartType(kind, k) ==
  IF kind \in DOMAIN Elements THEN Elements[kind] ELSE FieldsOf(kind)[k]

LEMMA FitsIs ==
  ASSUME NEW kind, NEW parts
  PROVE  Fits(Node(kind, parts)) <=>
           /\ kind \in DOMAIN Elements \/ Len(parts) <= Len(FieldsOf(kind))
           /\ \A k \in DOMAIN parts : /\ parts[k].kind \in Types[PartType(kind, k)]
                                      /\ Complete(parts[k])
BY DEF Fits, Node, PartType

\* A node takes one part more.
LEMMA FitsMore ==
  ASSUME NEW kind, NEW T, NEW parts \in Seq(T), NEW n, Fits(Node(kind, parts)),
         n.kind \in Types[PartType(kind, Len(parts) + 1)], Complete(n),
         kind \in DOMAIN Elements \/ Len(parts) + 1 <= Len(FieldsOf(kind))
  PROVE  Fits(Node(kind, Append(parts, n)))
<1> DEFINE more == Append(parts, n)
<1>1. /\ Len(more) = Len(parts) + 1 /\ DOMAIN more = 1..(Len(parts) + 1)
      /\ Len(parts) \in Nat /\ DOMAIN parts = 1..Len(parts)
      /\ \A k \in 1..Len(parts) : more[k] = parts[k]
      /\ more[Len(parts) + 1] = n
  OBVIOUS
<1> HIDE DEF more
<1>2. ASSUME NEW k \in DOMAIN more
      PROVE  more[k].kind \in Types[PartType(kind, k)] /\ Complete(more[k])
  <2>1. CASE k = Len(parts) + 1
    BY <1>1, <2>1
  <2>2. CASE k # Len(parts) + 1
    <3>1. k \in DOMAIN parts /\ more[k] = parts[k]
      BY <1>1, <2>2
    <3> QED
      BY <3>1, FitsIs
  <2> QED
    BY <2>1, <2>2
<1>3. Fits(Node(kind, more))
  BY <1>1, <1>2, FitsIs
<1> QED
  BY <1>3 DEF more

\* A node without parts.
LEMMA FitsEmpty ==
  ASSUME NEW kind
  PROVE  Fits(Node(kind, <<>>))
<1>1. Len(FieldsOf(kind)) \in Nat
  <2>1. \A k \in DOMAIN Fields : Len(Fields[k]) \in Nat
    BY DEF Fields
  <2> QED
    BY <2>1 DEF FieldsOf
<1> QED
  BY <1>1, FitsIs

LEMMA WordFits ==
  ASSUME NEW token, token \notin DOMAIN Fields
  PROVE  /\ Word(token).kind = token /\ Word(token).parts = <<>>
         /\ Fits(Word(token)) /\ Complete(Word(token))
<1>1. FieldsOf(token) = <<>> /\ MayLack(token) \in {0, 1}
  BY DEF FieldsOf, MayLack
<1>2. Fits(Word(token))
  BY FitsEmpty DEF Word
<1>3. Word(token).kind = token /\ Word(token).parts = <<>>
  BY DEF Word, Node
<1>4. Complete(Word(token))
  BY <1>1, <1>3 DEF Complete
<1> QED
  BY <1>2, <1>3, <1>4

-----------------------------------------------------------------------------
(* Activations.                                                            *)

Later(a, rest, parts) == [kind |-> a.kind, rest |-> rest, parts |-> parts]

LEMMA LaterOK ==
  ASSUME NEW T, NEW a, NEW rest, NEW parts \in Seq(T), IsSeq(rest),
         Fits(Node(a.kind, parts)),
         a.kind \in DOMAIN Elements => rest \in VectorRests(a.kind),
         a.kind \notin DOMAIN Elements => FormFits(a.kind, rest, Len(parts))
  PROVE  ActivationOK(Later(a, rest, parts), T)
<1>1. /\ Later(a, rest, parts).kind = a.kind /\ Later(a, rest, parts).rest = rest
      /\ Later(a, rest, parts).parts = parts
  BY DEF Later
<1>2. Later(a, rest, parts) = [kind |-> a.kind, rest |-> rest, parts |-> parts]
  BY DEF Later
<1>3. InStep(Later(a, rest, parts))
  BY <1>1 DEF InStep
<1> QED
  BY <1>1, <1>2, <1>3 DEF ActivationOK

\* The first symbol of what an activation still asks for.
LEMMA FirstSymbol ==
  ASSUME NEW T, NEW a, ActivationOK(a, T), a.rest # <<>>
  PROVE  /\ Head(a.rest) # EndOfText
         /\ Head(a.rest) \in {"begin", "more"} =>
              a.kind \in DOMAIN Lists /\ Tail(a.rest) = <<>>
         /\ Head(a.rest) = "value" => a.kind = "Constant"
<1>1. CASE a.kind \in DOMAIN Elements
  BY <1>1, VectorTail DEF ActivationOK, InStep
<1>2. CASE a.kind \notin DOMAIN Elements
  <2>1. Head(a.rest) \notin Marks /\ Head(a.rest) # EndOfText
    BY <1>2, FormTail DEF ActivationOK, InStep
  <2> QED
    BY <2>1 DEF Marks
<1> QED
  BY <1>1, <1>2

LEMMA ActivationTail ==
  ASSUME NEW T, NEW a, ActivationOK(a, T), a.rest # <<>>, Head(a.rest) \notin Parts
  PROVE  ActivationOK(Later(a, Tail(a.rest), a.parts), T)
<1>1. a.kind \in DOMAIN Elements => Tail(a.rest) \in VectorRests(a.kind)
  BY VectorTail DEF ActivationOK, InStep
<1>2. a.kind \notin DOMAIN Elements => FormFits(a.kind, Tail(a.rest), Len(a.parts))
  BY FormTail DEF ActivationOK, InStep
<1>3. IsSeq(Tail(a.rest)) /\ a.parts \in Seq(T) /\ Fits(Node(a.kind, a.parts))
  BY TailOf DEF ActivationOK
<1> QED
  BY <1>1, <1>2, <1>3, LaterOK

\* A part that has the type of the symbol it is there for.
LEMMA ActivationMore ==
  ASSUME NEW T, NEW a, ActivationOK(a, T), a.rest # <<>>, Head(a.rest) \in Places,
         NEW n \in T, n.kind \in Types[Head(a.rest)], Complete(n)
  PROVE  ActivationOK(Later(a, Tail(a.rest), Append(a.parts, n)), T)
<1> DEFINE more == Append(a.parts, n)
<1>1. IsSeq(Tail(a.rest)) /\ a.parts \in Seq(T) /\ Fits(Node(a.kind, a.parts))
  BY TailOf DEF ActivationOK
<1>2. more \in Seq(T) /\ Len(more) = Len(a.parts) + 1
  BY <1>1
<1> HIDE DEF more
<1>3. CASE a.kind \in DOMAIN Elements
  <2>1. Tail(a.rest) \in VectorRests(a.kind) /\ Head(a.rest) = Elements[a.kind]
    BY <1>3, VectorTail DEF ActivationOK, InStep
  <2>2. Fits(Node(a.kind, more))
    BY <1>1, <1>3, <2>1, FitsMore DEF PartType, more
  <2> QED
    BY <1>1, <1>2, <1>3, <2>1, <2>2, LaterOK DEF more
<1>4. CASE a.kind \notin DOMAIN Elements
  <2>1. /\ Len(a.parts) + 1 <= Len(FieldsOf(a.kind))
        /\ Head(a.rest) = FieldsOf(a.kind)[Len(a.parts) + 1]
        /\ FormFits(a.kind, Tail(a.rest), Len(a.parts) + 1)
    BY <1>4, FormTail DEF ActivationOK, InStep
  <2>2. Fits(Node(a.kind, more))
    BY <1>1, <1>4, <2>1, FitsMore DEF PartType, more
  <2> QED
    BY <1>1, <1>2, <1>4, <2>1, <2>2, LaterOK DEF more
<1> QED
  BY <1>3, <1>4

LEMMA ActivationPieces ==
  ASSUME NEW T, NEW a, ActivationOK(a, T), a.rest # <<>>, Head(a.rest) = "value",
         NEW new \in Seq(T),
         \A k \in 1..Len(new) : new[k].kind \in Types["piece"] /\ Complete(new[k])
  PROVE  ActivationOK(Later(a, Tail(a.rest), a.parts \o new), T)
<1> DEFINE more == a.parts \o new
<1>1. a.kind = "Constant" /\ "Constant" \in DOMAIN Elements
  BY FirstSymbol, ListsAre
<1>2. Tail(a.rest) \in VectorRests(a.kind)
  BY <1>1, VectorTail DEF ActivationOK, InStep
<1>3. IsSeq(Tail(a.rest)) /\ a.parts \in Seq(T) /\ Fits(Node(a.kind, a.parts))
  BY TailOf DEF ActivationOK
<1>4. /\ more \in Seq(T) /\ DOMAIN more = 1..(Len(a.parts) + Len(new))
      /\ Len(a.parts) \in Nat /\ Len(new) \in Nat /\ DOMAIN a.parts = 1..Len(a.parts)
      /\ \A k \in 1..(Len(a.parts) + Len(new)) :
           more[k] = IF k <= Len(a.parts) THEN a.parts[k] ELSE new[k - Len(a.parts)]
  BY <1>3
<1> HIDE DEF more
<1>5. ASSUME NEW k \in DOMAIN more
      PROVE  more[k].kind \in Types[PartType(a.kind, k)] /\ Complete(more[k])
  <2>1. PartType(a.kind, k) = "piece" /\ \A i : PartType(a.kind, i) = "piece"
    BY <1>1, PieceTypes DEF PartType
  <2>2. CASE k <= Len(a.parts)
    <3>1. k \in DOMAIN a.parts /\ more[k] = a.parts[k]
      BY <1>4, <2>2
    <3>2. a.parts[k].kind \in Types[PartType(a.kind, k)] /\ Complete(a.parts[k])
      BY <1>3, <3>1, FitsIs
    <3> QED
      BY <3>1, <3>2
  <2>3. CASE ~(k <= Len(a.parts))
    <3>1. k - Len(a.parts) \in 1..Len(new) /\ more[k] = new[k - Len(a.parts)]
      BY <1>4, <2>3
    <3> QED
      BY <2>1, <3>1
  <2> QED
    BY <2>2, <2>3
<1>6. Fits(Node(a.kind, more))
  BY <1>1, <1>5, FitsIs
<1> QED
  BY <1>1, <1>2, <1>3, <1>4, <1>6, LaterOK DEF more

LEMMA ActivationEnd ==
  ASSUME NEW T, NEW a, ActivationOK(a, T), a.rest # <<>>, Head(a.rest) \in DOMAIN Ends,
         NEW e \in DOMAIN Ends[Head(a.rest)]
  PROVE  ActivationOK(Later(a, Ends[Head(a.rest)][e] \o Tail(a.rest), a.parts), T)
<1> DEFINE end == Ends[Head(a.rest)][e]
<1>1. a.kind \notin DOMAIN Elements
  BY VectorTail DEF ActivationOK, InStep
<1>2. Tail(a.rest) = <<>> /\ FormFits(a.kind, end, Len(a.parts))
  BY <1>1, FormEnd DEF ActivationOK, InStep
<1>3. IsSeq(end) /\ end \o Tail(a.rest) = end
  <2> HIDE DEF end
  <2>1. IsSeq(end)
    BY <1>2, FormIsSeq
  <2> QED
    BY <1>2, <2>1, ConcatEmpty
<1>4. a.parts \in Seq(T) /\ Fits(Node(a.kind, a.parts))
  BY DEF ActivationOK
<1> HIDE DEF end
<1>5. ActivationOK(Later(a, end \o Tail(a.rest), a.parts), T)
  BY <1>1, <1>2, <1>3, <1>4, LaterOK
<1> QED
  BY <1>5 DEF end

\* A vector before its first element or after another one.
LEMMA ActivationVector ==
  ASSUME NEW T, NEW a, ActivationOK(a, T), a.rest # <<>>,
         Head(a.rest) \in {"begin", "more"},
         NEW form \in {<<>>, <<"]">>, <<Lists[a.kind], "more">>}
  PROVE  ActivationOK(Later(a, form \o Tail(a.rest), a.parts), T)
<1>1. a.kind \in DOMAIN Lists /\ Tail(a.rest) = <<>>
  BY FirstSymbol
<1>2. a.kind \in DOMAIN Elements /\ form \in VectorRests(a.kind)
  BY <1>1, ListsAre, Zenon DEF VectorRests
<1>3. IsSeq(form)
  <2>1. /\ IsSeq(<<>>) /\ IsSeq(<<"]">>) /\ \A x : IsSeq(<<x, "more">>)
    BY DEF IsSeq
  <2> QED
    BY <2>1
<1>4. form \o Tail(a.rest) = form
  BY <1>1, <1>3, ConcatEmpty
<1>5. a.parts \in Seq(T) /\ Fits(Node(a.kind, a.parts))
  BY DEF ActivationOK
<1> QED
  BY <1>2, <1>3, <1>4, <1>5, LaterOK

\* The activation of a function that is called.
LEMMA ActivationNew ==
  ASSUME NEW T, NEW kind, NEW form, IsSeq(form),
         kind \in DOMAIN Elements => form \in VectorRests(kind),
         kind \notin DOMAIN Elements => FormFits(kind, form, 0)
  PROVE  /\ ActivationOK(Activation(kind, form), T)
         /\ Activation(kind, form).kind = kind
<1> DEFINE a == Activation(kind, form)
<1>1. a.kind = kind /\ a = Later(a, form, <<>>)
  BY DEF Activation, Later
<1>2. <<>> \in Seq(T) /\ Len(<<>>) = 0
  OBVIOUS
<1> HIDE DEF a
<1>3. ActivationOK(Later(a, form, <<>>), T)
  BY <1>1, <1>2, FitsEmpty, LaterOK
<1> QED
  BY <1>1, <1>3 DEF a

-----------------------------------------------------------------------------
(* The stack.                                                              *)

LEMMA TopIs ==
  ASSUME NEW s, NEW T, StackOK(s, T)
  PROVE  /\ Len(s) \in Nat /\ s \in Seq(ElementsOf(s)) /\ Last(s) = s[Len(s)]
         /\ ActivationOK(Last(s), T)
<1>1. Len(s) \in Nat /\ Len(s) > 0 /\ s \in Seq(ElementsOf(s))
  BY SeqOfElements DEF StackOK, IsSeq
<1>2. Len(s) \in 1..Len(s)
  BY <1>1
<1> QED
  BY <1>1, <1>2 DEF StackOK, Last

\* The running activation goes on.
LEMMA StackReplace ==
  ASSUME NEW s, NEW S, NEW T, S \subseteq T, StackOK(s, S),
         NEW a, ActivationOK(a, T), a.kind = Last(s).kind
  PROVE  StackOK([s EXCEPT ![Len(s)] = a], T)
<1> DEFINE r == [s EXCEPT ![Len(s)] = a]
           U == ElementsOf(s) \cup {a}
<1>1. /\ Len(s) \in Nat /\ Len(s) > 0 /\ s \in Seq(ElementsOf(s)) /\ Last(s) = s[Len(s)]
  <2>1. Len(s) \in Nat /\ s \in Seq(ElementsOf(s)) /\ Last(s) = s[Len(s)]
    BY TopIs
  <2>2. Len(s) > 0
    BY DEF StackOK
  <2> QED
    BY <2>1, <2>2
<1>2. s \in Seq(U)
  BY <1>1, SeqGrows
<1>3. /\ r \in Seq(U) /\ Len(r) = Len(s) /\ r[Len(s)] = a
      /\ \A d \in 1..Len(s) : d # Len(s) => r[d] = s[d]
  <2>1. a \in U
    OBVIOUS
  <2> HIDE DEF U
  <2> QED
    BY <1>1, <1>2, <2>1
<1> HIDE DEF r, U
<1>4. \A d \in 1..Len(s) : ActivationOK(r[d], T) /\ r[d].kind = s[d].kind
  BY <1>1, <1>3, ActivationGrows DEF StackOK
<1>5. \A d \in 1..(Len(s) - 1) : r[d].rest # <<>> /\ Answers(r[d + 1].kind, Head(r[d].rest))
  <2> SUFFICES ASSUME NEW d \in 1..(Len(s) - 1)
               PROVE  r[d].rest # <<>> /\ Answers(r[d + 1].kind, Head(r[d].rest))
    OBVIOUS
  <2>1. d \in 1..Len(s) /\ d + 1 \in 1..Len(s) /\ d # Len(s)
    BY <1>1
  <2> QED
    BY <1>3, <1>4, <2>1 DEF StackOK
<1>6. r[1].kind = "Module"
  BY <1>1, <1>4 DEF StackOK
<1>7. StackOK(r, T)
  BY <1>1, <1>3, <1>4, <1>5, <1>6, SeqIs DEF StackOK
<1> QED
  BY <1>7 DEF r

\* The running activation is over.
LEMMA StackFront ==
  ASSUME NEW s, NEW T, StackOK(s, T), Len(s) > 1
  PROVE  /\ StackOK(Front(s), T) /\ Len(Front(s)) = Len(s) - 1
         /\ Last(Front(s)) = s[Len(s) - 1]
         /\ Last(Front(s)).rest # <<>>
         /\ Answers(Last(s).kind, Head(Last(Front(s)).rest))
<1> DEFINE r == Front(s)
<1>1. /\ Len(s) \in Nat /\ s \in Seq(ElementsOf(s)) /\ Last(s) = s[Len(s)]
  BY TopIs
<1>2. /\ r \in Seq(ElementsOf(s)) /\ Len(r) = Len(s) - 1
      /\ \A d \in 1..(Len(s) - 1) : r[d] = s[d]
  BY <1>1 DEF Front
<1> HIDE DEF r
<1>3. \A d \in 1..Len(r) : d \in 1..Len(s) /\ (d # Len(r) => d \in 1..(Len(s) - 1))
  BY <1>1, <1>2
<1>4. Len(r) \in 1..(Len(s) - 1) /\ Len(r) + 1 = Len(s) /\ Last(r) = s[Len(s) - 1]
  BY <1>1, <1>2 DEF Last
<1>5. Last(r).rest # <<>> /\ Answers(Last(s).kind, Head(Last(r).rest))
  BY <1>1, <1>2, <1>4 DEF StackOK
<1>6. \A d \in 1..Len(r) : ActivationOK(r[d], T)
  BY <1>2, <1>3 DEF StackOK
<1>7. \A d \in 1..(Len(r) - 1) : r[d].rest # <<>> /\ Answers(r[d + 1].kind, Head(r[d].rest))
  <2> SUFFICES ASSUME NEW d \in 1..(Len(r) - 1)
               PROVE  r[d].rest # <<>> /\ Answers(r[d + 1].kind, Head(r[d].rest))
    OBVIOUS
  <2>1. d \in 1..(Len(s) - 1) /\ d + 1 \in 1..(Len(s) - 1)
    BY <1>1, <1>2
  <2> QED
    BY <1>2, <2>1 DEF StackOK
<1>8. r[1].kind = "Module"
  BY <1>1, <1>2 DEF StackOK
<1>9. StackOK(r, T)
  BY <1>1, <1>2, <1>6, <1>7, <1>8, SeqIs DEF StackOK
<1> QED
  BY <1>2, <1>4, <1>5, <1>9 DEF r

\* The running activation calls another function.
LEMMA StackPush ==
  ASSUME NEW s, NEW T, StackOK(s, T), Last(s).rest # <<>>,
         NEW a, ActivationOK(a, T), Answers(a.kind, Head(Last(s).rest))
  PROVE  StackOK(Append(s, a), T)
<1> DEFINE r == Append(s, a)
           U == ElementsOf(s) \cup {a}
<1>1. /\ Len(s) \in Nat /\ s \in Seq(ElementsOf(s)) /\ Last(s) = s[Len(s)] /\ Len(s) > 0
  BY TopIs DEF StackOK
<1>2. s \in Seq(U)
  BY <1>1, SeqGrows
<1>3. /\ r \in Seq(U) /\ Len(r) = Len(s) + 1 /\ r[Len(s) + 1] = a
      /\ \A d \in 1..Len(s) : r[d] = s[d]
  <2>1. a \in U
    OBVIOUS
  <2> HIDE DEF U
  <2> QED
    BY <1>1, <1>2, <2>1
<1> HIDE DEF r, U
<1>4. \A d \in 1..Len(r) : ActivationOK(r[d], T)
  <2>1. \A d \in 1..Len(r) : d \in 1..Len(s) \/ d = Len(s) + 1
    BY <1>1, <1>3
  <2> QED
    BY <1>3, <2>1 DEF StackOK
<1>5. \A d \in 1..(Len(r) - 1) : r[d].rest # <<>> /\ Answers(r[d + 1].kind, Head(r[d].rest))
  <2> SUFFICES ASSUME NEW d \in 1..(Len(r) - 1)
               PROVE  r[d].rest # <<>> /\ Answers(r[d + 1].kind, Head(r[d].rest))
    OBVIOUS
  <2>1. CASE d = Len(s)
    BY <1>1, <1>3, <2>1
  <2>2. CASE d # Len(s)
    <3>1. d \in 1..(Len(s) - 1) /\ d \in 1..Len(s) /\ d + 1 \in 1..Len(s)
      BY <1>1, <1>3, <2>2
    <3> QED
      BY <1>3, <3>1 DEF StackOK
  <2> QED
    BY <2>1, <2>2
<1>6. r[1].kind = "Module"
  BY <1>1, <1>3 DEF StackOK
<1>7. StackOK(r, T)
  BY <1>1, <1>3, <1>4, <1>5, <1>6, SeqIs DEF StackOK
<1> QED
  BY <1>7 DEF r

LEMMA StackGrows ==
  ASSUME NEW s, NEW S, NEW T, S \subseteq T, StackOK(s, S)
  PROVE  StackOK(s, T)
BY ActivationGrows DEF StackOK


-----------------------------------------------------------------------------
(* The steps.                                                              *)

LEMMA PInitKeeps ==
  ASSUME PInit
  PROVE  PInv
<1>1. FormFits("Module", generate_module, 0) /\ "Module" \notin DOMAIN Elements
  BY ModuleForm DEF Elements
<1>2. IsSeq(generate_module)
  BY <1>1, FormIsSeq
<1> DEFINE a == Activation("Module", generate_module)
<1>3. ActivationOK(a, {}) /\ a.kind = "Module"
  BY <1>1, <1>2, ActivationNew
<1>4. stack = <<a>>
  BY DEF PInit
<1> HIDE DEF a
<1>5. /\ IsSeq(stack) /\ Len(stack) = 1 /\ stack[1] = a
  BY <1>4 DEF IsSeq
<1>6. StackOK(stack, {})
  BY <1>3, <1>5 DEF StackOK
<1>7. InText
  <2>1. PICK s \in Printed : text = Trim(s)
    BY DEF PInit
  <2>2. s \in Seq(STRING)
    BY ParserAssumption
  <2>3. text \in Seq(STRING)
    <3>1. CASE text = s
      BY <2>2, <3>1
    <3>2. CASE s # <<>> /\ text = Front(s)
      BY <2>2, <3>2 DEF Front
    <3> QED
      BY <2>1, <3>1, <3>2 DEF Trim
  <2>4. IsSeq(text)
    BY <2>3, SeqIs
  <2>5. pos = 1
    BY DEF PInit
  <2> QED
    BY <2>4, <2>5 DEF InText, IsSeq
<1>8. status = "parsing"
  BY DEF PInit
<1>9. BuiltFrom({})
  BY <1>6, <1>8 DEF BuiltFrom, Trees
<1> QED
  BY <1>7, <1>8, <1>9 DEF PInv

LEMMA ErrorKeeps ==
  ASSUME PInv, ParseError
  PROVE  PInv'
<1>1. PICK T : BuiltFrom(T)
  BY DEF PInv
<1>2. InText' /\ status' = "rejected"
  BY DEF PInv, ParseError, InText
<1>3. BuiltFrom(T)'
  BY <1>1, <1>2 DEF BuiltFrom, ParseError
<1> QED
  BY <1>2, <1>3 DEF PInv

LEMMA LaterIs ==
  ASSUME NEW t, t = [kind |-> t.kind, rest |-> t.rest, parts |-> t.parts],
         NEW rest, NEW parts
  PROVE  [[t EXCEPT !.rest = rest] EXCEPT !.parts = parts] = Later(t, rest, parts)
<1> DEFINE u == [t EXCEPT !.rest = rest]
           v == [u EXCEPT !.parts = parts]
<1>1. DOMAIN t = {"kind", "rest", "parts"}
  OBVIOUS
<1>2. DOMAIN u = {"kind", "rest", "parts"} /\ u.kind = t.kind /\ u.rest = rest
  BY <1>1
<1> HIDE DEF u
<1>3. /\ DOMAIN v = {"kind", "rest", "parts"}
      /\ v.kind = t.kind /\ v.rest = rest /\ v.parts = parts
  BY <1>2
<1>4. v = [x \in DOMAIN v |-> v[x]]
  BY <1>2
<1> HIDE DEF v
<1>5. v = Later(t, rest, parts)
  BY <1>3, <1>4 DEF Later
<1> QED
  BY <1>5 DEF u, v

\* The running function goes on.
LEMMA ProceedKeeps ==
  ASSUME NEW T, BuiltFrom(T), InText, status = "parsing",
         NEW New, \A m \in New : m.parts \in Seq(T) /\ Fits(m),
         NEW n \in Nat, pos + n <= Len(text) + 1,
         NEW form, NEW parts, Proceed(n, form, parts),
         ActivationOK(Later(Top, form \o Tail(Top.rest), Top.parts \o parts), T \cup New)
  PROVE  PInv'
<1> DEFINE U == T \cup New
           a == Later(Top, form \o Tail(Top.rest), Top.parts \o parts)
<1>1. /\ Len(stack) \in Nat /\ Top = stack[Len(stack)] /\ ActivationOK(Top, T)
      /\ IsSeq(stack) /\ Len(stack) > 0
  <2>1. StackOK(stack, T)
    BY DEF BuiltFrom
  <2> QED
    BY <2>1, TopIs DEF Top, StackOK
<1>2. Top = [kind |-> Top.kind, rest |-> Top.rest, parts |-> Top.parts]
  BY <1>1, Zenon DEF ActivationOK
<1>3. [stack EXCEPT ![Len(stack)].rest = form \o Tail(@),
                    ![Len(stack)].parts = @ \o parts] = [stack EXCEPT ![Len(stack)] = a]
  <2>1. [[Top EXCEPT !.rest = form \o Tail(Top.rest)] EXCEPT !.parts = Top.parts \o parts] = a
    BY <1>2, LaterIs, Zenon
  <2> HIDE DEF a
  <2>2. Len(stack) \in DOMAIN stack
    BY <1>1 DEF IsSeq
  <2> QED
    BY <1>1, <2>1, <2>2
<1>4. stack' = [stack EXCEPT ![Len(stack)] = a]
  BY <1>3 DEF Proceed
<1>5. StackOK(stack', U)
  <2>1. StackOK(stack, T) /\ T \subseteq U /\ a.kind = Last(stack).kind
    BY DEF BuiltFrom, Later, Top
  <2>2. ActivationOK(a, U)
    OBVIOUS
  <2> HIDE DEF a, U
  <2> QED
    BY <1>4, <2>1, <2>2, StackReplace
<1>6. Trees(U)
  BY TreesGrow DEF BuiltFrom
<1>7. status' = "parsing"
  BY DEF Proceed
<1>8. InText'
  <2>1. text' = text /\ pos' = pos + n
    BY DEF Proceed
  <2>2. Len(text) \in Nat
    BY DEF InText, IsSeq
  <2> QED
    BY <2>1, <2>2 DEF InText
<1> HIDE DEF U
<1>9. BuiltFrom(U)'
  BY <1>5, <1>6, <1>7 DEF BuiltFrom
<1> QED
  BY <1>7, <1>8, <1>9 DEF PInv

\* The running function calls another one.
LEMMA PushKeeps ==
  ASSUME NEW T, BuiltFrom(T), InText, status = "parsing", Top.rest # <<>>,
         NEW a, ActivationOK(a, T), Answers(a.kind, Symbol),
         stack' = Append(stack, a), UNCHANGED <<text, pos, status, module>>
  PROVE  PInv'
<1>1. StackOK(stack', T)
  BY StackPush DEF BuiltFrom, Top, Symbol
<1>2. status' = "parsing" /\ InText'
  BY DEF InText
<1>3. BuiltFrom(T)'
  BY <1>1, <1>2 DEF BuiltFrom
<1> QED
  BY <1>2, <1>3 DEF PInv

\* What every step finds.
LEMMA Running ==
  ASSUME PInv
  PROVE  \E T : BuiltFrom(T) /\ Trees(T) /\ StackOK(stack, T) /\ ActivationOK(Top, T)
BY TopIs DEF PInv, BuiltFrom, Top

LEMMA LiteralKeeps ==
  ASSUME PInv, Literal
  PROVE  PInv'
<1>1. CASE At(pos) = Symbol
  <2>1. PICK T : BuiltFrom(T) /\ ActivationOK(Top, T)
    BY Running
  <2>2. /\ status = "parsing" /\ Top.rest # <<>> /\ Symbol \notin Parts
        /\ Proceed(1, <<>>, <<>>)
    BY <1>1, Zenon DEF Literal
  <2>3. Symbol # EndOfText
    BY <2>1, <2>2, FirstSymbol DEF Symbol
  <2>4. pos <= Len(text)
    BY <1>1, <2>3, AtText
  <2>5. ActivationOK(Later(Top, Tail(Top.rest), Top.parts), T)
    BY <2>1, <2>2, ActivationTail DEF Symbol
  <2>6. <<>> \o Tail(Top.rest) = Tail(Top.rest) /\ Top.parts \o <<>> = Top.parts
    <3>1. IsSeq(Tail(Top.rest)) /\ IsSeq(Top.parts)
      BY <2>1, <2>2, TailOf, SeqIs DEF ActivationOK
    <3> QED
      BY <3>1, ConcatEmpty
  <2>7. ActivationOK(Later(Top, <<>> \o Tail(Top.rest), Top.parts \o <<>>), T \cup {})
    BY <2>5, <2>6, Zenon
  <2>8. InText /\ pos + 1 <= Len(text) + 1
    BY <2>4 DEF PInv, InText, IsSeq
  <2> QED
    BY <2>1, <2>2, <2>7, <2>8, ProceedKeeps
<1>2. CASE At(pos) # Symbol
  BY <1>2, ErrorKeeps DEF Literal
<1> QED
  BY <1>1, <1>2

LEMMA LeafKeeps ==
  ASSUME PInv, Leaf
  PROVE  PInv'
<1>1. CASE At(pos) \in Leaves[Symbol]
  <2> DEFINE w == Word(At(pos))
  <2>1. PICK T : BuiltFrom(T) /\ ActivationOK(Top, T)
    BY Running
  <2>2. /\ status = "parsing" /\ Top.rest # <<>> /\ Symbol \in DOMAIN Leaves
        /\ Proceed(1, <<>>, <<w>>)
    BY <1>1, Zenon DEF Leaf, Expects
  <2>3. At(pos) \in Types[Symbol] /\ At(pos) \notin DOMAIN Fields /\ At(pos) # EndOfText
    BY <1>1, <2>2, LeafTypes
  <2>4. /\ w.kind = At(pos) /\ w.parts = <<>> /\ Fits(w) /\ Complete(w)
    BY <2>3, WordFits
  <2>5. pos <= Len(text)
    BY <2>3, AtText
  <2> HIDE DEF w
  <2>6. ActivationOK(Top, T \cup {w})
    BY <2>1, ActivationGrows
  <2>7. Symbol \in Places
    BY <2>2 DEF Places
  <2>8. ActivationOK(Later(Top, Tail(Top.rest), Append(Top.parts, w)), T \cup {w})
    BY <2>2, <2>3, <2>4, <2>6, <2>7, ActivationMore DEF Symbol
  <2>9. <<>> \o Tail(Top.rest) = Tail(Top.rest) /\ Top.parts \o <<w>> = Append(Top.parts, w)
    <3>1. IsSeq(Tail(Top.rest)) /\ Top.parts \in Seq(T)
      BY <2>1, <2>2, TailOf DEF ActivationOK
    <3>2. Top.parts \o <<w>> = Append(Top.parts, w)
      <4>1. Top.parts \in Seq(T \cup {w})
        BY <3>1, SeqGrows
      <4> QED
        BY <4>1
    <3> QED
      BY <3>1, <3>2, ConcatEmpty
  <2>10. ActivationOK(Later(Top, <<>> \o Tail(Top.rest), Top.parts \o <<w>>), T \cup {w})
    BY <2>8, <2>9, Zenon
  <2>11. InText /\ pos + 1 <= Len(text) + 1
    BY <2>5 DEF PInv, InText, IsSeq
  <2>12. \A m \in {w} : m.parts \in Seq(T) /\ Fits(m)
    <3>1. <<>> \in Seq(T)
      OBVIOUS
    <3> QED
      BY <2>4, <3>1
  <2> QED
    BY <2>1, <2>2, <2>10, <2>11, <2>12, ProceedKeeps
<1>2. CASE At(pos) \notin Leaves[Symbol]
  BY <1>2, ErrorKeeps, Zenon DEF Leaf
<1> QED
  BY <1>1, <1>2

LEMMA ConstantKeeps ==
  ASSUME PInv, Constant
  PROVE  PInv'
<1> DEFINE n == ConstantLength
           new == Value(pos, pos + n)
<1>1. status = "parsing" /\ Top.rest # <<>> /\ Symbol = "value"
  BY Zenon DEF Constant, Expects
<1>2. CASE n > 0
  <2>1. PICK T : BuiltFrom(T) /\ ActivationOK(Top, T)
    BY Running
  <2>2. Proceed(n, <<>>, new)
    BY <1>2, Zenon DEF Constant
  <2>3. InText /\ IsPieces(n)
    BY <1>2, ConstantAt DEF PInv
  <2>4. n \in Nat /\ pos \in Nat /\ pos + n <= Len(text) + 1
    BY <2>3 DEF IsPieces, InText
  <2> HIDE DEF n
  <2>5. /\ IsSeq(new) /\ Len(new) \in Nat
        /\ \A k \in 1..Len(new) : \E t \in Types["piece"] : new[k] = Word(t)
    BY <2>3, ValueIs
  <2> HIDE DEF new
  <2>6. ASSUME NEW k \in 1..Len(new)
        PROVE  /\ new[k].kind \in Types["piece"] /\ new[k].parts = <<>>
               /\ Fits(new[k]) /\ Complete(new[k])
    BY <2>5, PieceTypes, WordFits
  <2> DEFINE New == ElementsOf(new)
  <2>7. new \in Seq(New)
    BY <2>5, SeqOfElements
  <2>8. \A m \in New : m.parts \in Seq(T) /\ Fits(m)
    <3>1. <<>> \in Seq(T)
      OBVIOUS
    <3> QED
      BY <2>6, <3>1 DEF ElementsOf
  <2> HIDE DEF New
  <2>9. new \in Seq(T \cup New) /\ ActivationOK(Top, T \cup New)
    BY <2>1, <2>7, SeqGrows, ActivationGrows
  <2>10. ActivationOK(Later(Top, Tail(Top.rest), Top.parts \o new), T \cup New)
    BY <1>1, <2>6, <2>7, <2>9, ActivationPieces DEF Symbol
  <2>11. <<>> \o Tail(Top.rest) = Tail(Top.rest)
    <3>1. IsSeq(Tail(Top.rest))
      BY <1>1, <2>1, TailOf DEF ActivationOK
    <3> QED
      BY <3>1, ConcatEmpty
  <2>12. ActivationOK(Later(Top, <<>> \o Tail(Top.rest), Top.parts \o new), T \cup New)
    BY <2>10, <2>11, Zenon
  <2> QED
    BY <1>1, <2>1, <2>2, <2>3, <2>4, <2>8, <2>12, ProceedKeeps
<1>3. CASE ~(n > 0)
  <2>1. ParseError
    BY <1>3, Zenon DEF Constant
  <2> QED
    BY <2>1, ErrorKeeps
<1> QED
  BY <1>2, <1>3

LEMMA EndsAre ==
  \A symbol \in DOMAIN Ends : IsSeq(Ends[symbol])
<1>1. DOMAIN Ends = {"returned", "optionalVars", "endOfDef"}
  BY SymbolsAre
<1>2. \A x, y : IsSeq(<<x, y>>)
  BY DEF IsSeq
<1>3. /\ \E x, y : Ends["returned"] = <<x, y>>
      /\ \E x, y : Ends["optionalVars"] = <<x, y>>
      /\ \E x, y : Ends["endOfDef"] = <<x, y>>
  BY Zenon DEF Ends
<1> QED
  BY <1>1, <1>2, <1>3

\* The end the text selects is one of them.
LEMMA EndChosen ==
  ASSUME Symbol \in DOMAIN Ends,
         SelectInSeq(Ends[Symbol], LAMBDA form : Matches(Opening(form))) # 0
  PROVE  SelectInSeq(Ends[Symbol], LAMBDA form : Matches(Opening(form))) \in DOMAIN Ends[Symbol]
<1> DEFINE n == SelectInSeq(Ends[Symbol], LAMBDA form : Matches(Opening(form)))
           I == {i \in 1..Len(Ends[Symbol]) : Matches(Opening(Ends[Symbol][i]))}
<1>1. IsSeq(Ends[Symbol])
  BY EndsAre
<1>2. n = IF I # {} THEN Min(I) ELSE 0
  BY DEF SelectInSeq
<1>3. I \in SUBSET Nat /\ I # {} /\ n = Min(I)
  BY <1>2
<1>4. I \subseteq 1..Len(Ends[Symbol])
  OBVIOUS
<1> HIDE DEF I, n
<1>5. \E m \in I : \A i \in I : m <= i
  BY <1>3, LeastExists
<1>6. Min(I) \in I
  BY <1>5 DEF Min
<1>7. n \in DOMAIN Ends[Symbol]
  BY <1>1, <1>3, <1>4, <1>6 DEF IsSeq
<1> QED
  BY <1>7 DEF n

LEMMA EndKeeps ==
  ASSUME PInv, End
  PROVE  PInv'
<1> DEFINE n == SelectInSeq(Ends[Symbol], LAMBDA form : Matches(Opening(form)))
<1>1. status = "parsing" /\ Top.rest # <<>> /\ Symbol \in DOMAIN Ends
  BY Zenon DEF End, Expects
<1>2. CASE n # 0
  <2>1. PICK T : BuiltFrom(T) /\ ActivationOK(Top, T)
    BY Running
  <2>2. n \in DOMAIN Ends[Symbol]
    BY <1>1, <1>2, EndChosen
  <2>3. Proceed(0, Ends[Symbol][n], <<>>)
    BY <1>2, Zenon DEF End
  <2> HIDE DEF n
  <2>4. ActivationOK(Later(Top, Ends[Symbol][n] \o Tail(Top.rest), Top.parts), T)
    BY <1>1, <2>1, <2>2, ActivationEnd DEF Symbol
  <2>5. Top.parts \o <<>> = Top.parts
    BY <2>1, SeqIs, ConcatEmpty DEF ActivationOK
  <2>6. ActivationOK(Later(Top, Ends[Symbol][n] \o Tail(Top.rest), Top.parts \o <<>>),
                     T \cup {})
    BY <2>4, <2>5, Zenon
  <2>7. InText /\ pos + 0 <= Len(text) + 1
    BY DEF PInv, InText, IsSeq
  <2> QED
    BY <1>1, <2>1, <2>3, <2>6, <2>7, ProceedKeeps
<1>3. CASE n = 0
  <2>1. ParseError
    BY <1>3, Zenon DEF End
  <2> QED
    BY <2>1, ErrorKeeps
<1> QED
  BY <1>2, <1>3

LEMMA CallKeeps ==
  ASSUME PInv, Call
  PROVE  PInv'
<1> DEFINE forms == Called[Symbol]
           chosen == {kind \in DOMAIN forms : Matches(Opening(forms[kind]))}
<1>1. status = "parsing" /\ Top.rest # <<>> /\ Symbol \in DOMAIN Called
  BY Zenon DEF Call, Expects
<1>2. CASE chosen = {}
  <2>1. ParseError
    BY <1>2, Zenon DEF Call
  <2> QED
    BY <2>1, ErrorKeeps
<1>3. CASE chosen # {}
  <2>1. PICK kind \in chosen : stack' = Append(stack, Activation(kind, forms[kind]))
    BY <1>3, Zenon DEF Call
  <2>2. UNCHANGED <<text, pos, status, module>>
    BY <1>3, Zenon DEF Call
  <2>3. PICK T : BuiltFrom(T)
    BY Running
  <2>4. kind \in DOMAIN Called[Symbol]
    OBVIOUS
  <2> HIDE DEF forms, chosen
  <2>5. kind \in DOMAIN Elements <=> kind = "Constant"
    BY <1>1, <2>4, CalledTypes
  <2>6. /\ kind = "Constant" => Called[Symbol][kind] \in VectorRests(kind)
        /\ kind # "Constant" => FormFits(kind, Called[Symbol][kind], 0)
    <3>1. kind = "Constant" => Called[Symbol][kind] = generate_constant
      BY <1>1, <2>4, CalledTypes
    <3> QED
      BY <1>1, <2>4, <3>1, CalledForms DEF VectorRests
  <2>7. IsSeq(Called[Symbol][kind])
    <3>1. CASE kind = "Constant"
      <4>1. IsSeq(generate_constant)
        BY DEF generate_constant, IsSeq
      <4> QED
        BY <1>1, <2>4, <3>1, <4>1, CalledTypes
    <3> QED
      BY <2>6, <3>1, FormIsSeq
  <2> DEFINE a == Activation(kind, Called[Symbol][kind])
  <2>8. ActivationOK(a, T) /\ a.kind = kind
    BY <2>5, <2>6, <2>7, ActivationNew
  <2>9. stack' = Append(stack, a)
    BY <2>1 DEF forms
  <2> HIDE DEF a
  <2>10. Answers(a.kind, Symbol)
    BY <1>1, <2>4, <2>8 DEF Answers
  <2> QED
    BY <1>1, <2>2, <2>3, <2>8, <2>9, <2>10, PushKeeps DEF PInv
<1> QED
  BY <1>2, <1>3

LEMMA VectorKeeps ==
  ASSUME PInv, Vector
  PROVE  PInv'
<1>1. status = "parsing" /\ Top.rest # <<>> /\ Symbol \in DOMAIN Lists
  BY Zenon DEF Vector, Expects
<1>2. PICK T : BuiltFrom(T)
  BY Running
<1> DEFINE a == Activation(Symbol, <<"[", "begin">>)
<1>3. /\ stack' = Append(stack, a) /\ UNCHANGED <<text, pos, status, module>>
  BY Zenon DEF Vector
<1>4. ActivationOK(a, T) /\ a.kind = Symbol
  <2>1. <<"[", "begin">> \in VectorRests(Symbol) /\ Symbol \in DOMAIN Elements
    BY <1>1, ListsAre DEF VectorRests
  <2>2. IsSeq(<<"[", "begin">>)
    BY DEF IsSeq
  <2> QED
    BY <2>1, <2>2, ActivationNew
<1> HIDE DEF a
<1>5. Answers(a.kind, Symbol)
  BY <1>1, <1>4 DEF Answers
<1> QED
  BY <1>1, <1>2, <1>3, <1>4, <1>5, PushKeeps DEF PInv

\* A vector takes n tokens, 0 or 1, and goes on with form.
LEMMA VectorGoesOn ==
  ASSUME PInv, Expects({"begin", "more"}), NEW n \in {0, 1}, n = 1 => At(pos) # EndOfText,
         NEW form \in {<<>>, <<"]">>, <<Lists[Top.kind], "more">>},
         Proceed(n, form, <<>>)
  PROVE  PInv'
<1>1. status = "parsing" /\ Top.rest # <<>> /\ Symbol \in {"begin", "more"}
  BY DEF Expects
<1>2. PICK T : BuiltFrom(T) /\ ActivationOK(Top, T)
  BY Running
<1>3. ActivationOK(Later(Top, form \o Tail(Top.rest), Top.parts), T)
  BY <1>1, <1>2, ActivationVector, Zenon DEF Symbol
<1>4. Top.parts \o <<>> = Top.parts
  BY <1>2, SeqIs, ConcatEmpty DEF ActivationOK
<1>5. ActivationOK(Later(Top, form \o Tail(Top.rest), Top.parts \o <<>>), T \cup {})
  BY <1>3, <1>4, Zenon
<1>6. InText /\ pos + n <= Len(text) + 1 /\ n \in Nat
  <2>1. n = 1 => pos <= Len(text)
    BY AtText
  <2> QED
    BY <2>1 DEF PInv, InText, IsSeq
<1> QED
  BY <1>1, <1>2, <1>5, <1>6, ProceedKeeps

LEMMA BeginKeeps ==
  ASSUME PInv, Begin
  PROVE  PInv'
<1>1. Expects({"begin"}) /\ Expects({"begin", "more"})
  BY DEF Begin, Expects
<1>2. CASE At(pos) = "]"
  <2>1. Proceed(1, <<>>, <<>>)
    BY <1>2, Zenon DEF Begin
  <2>2. At(pos) # EndOfText
    BY <1>2, Zenon DEF EndOfText
  <2> QED
    BY <1>1, <2>1, <2>2, VectorGoesOn
<1>3. CASE At(pos) # "]"
  <2>1. Proceed(0, <<Lists[Top.kind], "more">>, <<>>)
    BY <1>3, Zenon DEF Begin
  <2> QED
    BY <1>1, <2>1, VectorGoesOn
<1> QED
  BY <1>2, <1>3

LEMMA MoreKeeps ==
  ASSUME PInv, More
  PROVE  PInv'
<1>1. Expects({"more"})
  BY Zenon DEF More
<1>2. Expects({"begin", "more"})
  BY <1>1 DEF Expects
<1>3. CASE At(pos) = Comma
  <2>1. Proceed(1, <<Lists[Top.kind], "more">>, <<>>)
    BY <1>3, Zenon DEF More, Comma
  <2>2. At(pos) # EndOfText
    BY <1>3, Zenon, LiteralsAre DEF Literals
  <2> QED
    BY <1>2, <2>1, <2>2, VectorGoesOn
<1>4. CASE At(pos) # Comma
  <2>1. Proceed(0, <<"]">>, <<>>)
    BY <1>4, Zenon DEF More, Comma
  <2> QED
    BY <1>2, <2>1, VectorGoesOn
<1> QED
  BY <1>3, <1>4

\* What is returned is a node with all its parts.
LEMMA ResultIs ==
  ASSUME NEW T, NEW a, ActivationOK(a, T), a.rest = <<>>
  PROVE  LET n == Node(a.kind, a.parts)
         IN n.kind = a.kind /\ n.parts = a.parts /\ n.parts \in Seq(T) /\ Fits(n) /\ Complete(n)
<1> DEFINE n == Node(a.kind, a.parts)
<1>1. n.kind = a.kind /\ n.parts = a.parts
  BY DEF Node
<1>2. a.parts \in Seq(T) /\ Fits(n) /\ InStep(a)
  BY DEF ActivationOK
<1> HIDE DEF n
<1>3. Enough(a.kind, Len(a.parts))
  <2>1. CASE a.kind \in DOMAIN Elements
    <3>1. a.kind \notin DOMAIN Fields
      BY <2>1, ListsAre DEF Fields
    <3>2. FieldsOf(a.kind) = <<>> /\ MayLack(a.kind) \in {0, 1}
      BY <3>1 DEF FieldsOf, MayLack
    <3> QED
      BY <1>2, <3>2 DEF Enough
  <2>2. CASE a.kind \notin DOMAIN Elements
    BY <1>2, <2>2, FormOver DEF InStep
  <2> QED
    BY <2>1, <2>2
<1>4. Complete(n)
  BY <1>1, <1>3 DEF Enough, Complete
<1> QED
  BY <1>1, <1>2, <1>4 DEF n

\* What answers a call has the type that was asked for.
LEMMA AnswerTypes ==
  ASSUME NEW kind, NEW symbol, Answers(kind, symbol)
  PROVE  symbol \in Places /\ kind \in Types[symbol]
<1>1. symbol \in DOMAIN Called /\ kind \in DOMAIN Called[symbol] => kind \in Types[symbol]
  BY CalledTypes
<1>2. symbol \in DOMAIN Lists /\ kind = symbol => kind \in Types[symbol]
  BY ListsAre
<1> QED
  BY <1>1, <1>2 DEF Answers, Places

\* What a return does to the stack.
LEMMA ReturnIs ==
  ASSUME PInv, Return
  PROVE  /\ Len(Front(stack)) \in Nat /\ Len(Front(stack)) > 0
         /\ Len(stack) = Len(Front(stack)) + 1 /\ IsSeq(Front(stack))
         /\ \A d \in 1..Len(Front(stack)) : Front(stack)[d] = stack[d]
         /\ LET b == Last(Front(stack))
            IN stack' = [Front(stack) EXCEPT ![Len(Front(stack))] =
                           Later(b, Tail(b.rest), Append(b.parts, Result))]
<1> DEFINE caller == Front(stack)
           b == Last(caller)
           a == Later(b, Tail(b.rest), Append(b.parts, Result))
<1>1. stack' = [caller EXCEPT ![Len(caller)].rest = Tail(@),
                              ![Len(caller)].parts = Append(@, Result)]
  BY Zenon DEF Return
<1>2. Len(stack) > 1
  BY Zenon DEF Return
<1>3. PICK T : StackOK(stack, T)
  BY Running
<1>4. StackOK(caller, T)
  BY <1>2, <1>3, StackFront
<1>5. Len(stack) \in Nat /\ stack \in Seq(ElementsOf(stack))
  BY <1>3, TopIs
<1>6. Len(caller) = Len(stack) - 1 /\ \A d \in 1..Len(caller) : caller[d] = stack[d]
  BY <1>2, <1>5 DEF Front
<1> HIDE DEF caller
<1>7. /\ Len(caller) \in Nat /\ b = caller[Len(caller)] /\ ActivationOK(b, T)
      /\ IsSeq(caller) /\ Len(caller) > 0
  BY <1>4, TopIs DEF StackOK
<1>8. stack' = [caller EXCEPT ![Len(caller)] = a]
  <2>1. b = [kind |-> b.kind, rest |-> b.rest, parts |-> b.parts]
    BY <1>7, Zenon DEF ActivationOK
  <2>2. [[b EXCEPT !.rest = Tail(b.rest)] EXCEPT !.parts = Append(b.parts, Result)] = a
    <3> HIDE DEF b
    <3> QED
      BY <2>1, LaterIs, Zenon
  <2> HIDE DEF a, b
  <2>3. Len(caller) \in DOMAIN caller
    BY <1>7 DEF IsSeq
  <2> QED
    BY <1>1, <1>7, <2>2, <2>3
<1>9. Len(stack) = Len(caller) + 1
  BY <1>5, <1>6
<1> QED
  BY <1>6, <1>7, <1>8, <1>9 DEF caller

LEMMA ReturnKeeps ==
  ASSUME PInv, Return
  PROVE  PInv'
<1> DEFINE caller == Front(stack)
           b == Last(caller)
           a == Later(b, Tail(b.rest), Append(b.parts, Result))
<1>1. /\ status = "parsing" /\ Top.rest = <<>> /\ Len(stack) > 1
      /\ UNCHANGED <<text, pos, status, module>>
  BY Zenon DEF Return
<1>2. PICK T : BuiltFrom(T) /\ Trees(T) /\ StackOK(stack, T) /\ ActivationOK(Top, T)
  BY Running
<1>3. /\ Result.kind = Top.kind /\ Result.parts \in Seq(T) /\ Fits(Result)
      /\ Complete(Result)
  BY <1>1, <1>2, ResultIs DEF Result
<1>4. /\ StackOK(caller, T) /\ b.rest # <<>> /\ Answers(Top.kind, Head(b.rest))
  BY <1>1, <1>2, StackFront DEF Top
<1>5. PICK U : U = T \cup {Result} /\ Trees(U)
  BY <1>2, <1>3, TreesGrow
<1>6. Head(b.rest) \in Places /\ Result.kind \in Types[Head(b.rest)]
  BY <1>3, <1>4, AnswerTypes
<1>7. /\ Len(caller) \in Nat /\ b = caller[Len(caller)] /\ ActivationOK(b, T)
      /\ IsSeq(caller) /\ Len(caller) > 0
  <2> HIDE DEF caller
  <2> QED
    BY <1>4, TopIs DEF StackOK
<1>8. ActivationOK(a, U) /\ a.kind = b.kind
  <2> HIDE DEF b
  <2>1. ActivationOK(b, U) /\ Result \in U
    BY <1>5, <1>7, ActivationGrows
  <2> QED
    BY <1>3, <1>4, <1>6, <2>1, ActivationMore DEF Later
<1>9. stack' = [caller EXCEPT ![Len(caller)] = a]
  BY ReturnIs
<1>10. StackOK(stack', U)
  <2> HIDE DEF a, caller
  <2> QED
    BY <1>4, <1>5, <1>8, <1>9, StackReplace
<1>11. status' = "parsing" /\ InText'
  BY <1>1 DEF PInv, InText
<1>12. BuiltFrom(U)'
  BY <1>5, <1>10, <1>11 DEF BuiltFrom
<1> QED
  BY <1>11, <1>12 DEF PInv

LEMMA FinishKeeps ==
  ASSUME PInv, Finish
  PROVE  PInv'
<1>1. /\ status = "parsing" /\ Top.rest = <<>> /\ Len(stack) = 1
      /\ UNCHANGED <<text, pos, stack>>
      /\ \/ status' = "accepted" /\ module' = Result
         \/ status' = "rejected"
  BY DEF Finish
<1>2. PICK T : BuiltFrom(T) /\ Trees(T) /\ StackOK(stack, T) /\ ActivationOK(Top, T)
  BY Running
<1>3. /\ Result.kind = Top.kind /\ Result.parts \in Seq(T) /\ Fits(Result)
      /\ Complete(Result)
  BY <1>1, <1>2, ResultIs DEF Result
<1>4. Result.kind = "Module"
  BY <1>1, <1>2, <1>3, TopIs DEF StackOK, Top
<1>5. PICK U : U = T \cup {Result} /\ Trees(U)
  BY <1>2, <1>3, TreesGrow
<1>6. StackOK(stack', U)
  BY <1>1, <1>2, <1>5, StackGrows
<1>7. Result \in U
  BY <1>5
<1>8. InText' /\ status' \in {"parsing", "accepted", "rejected"}
  BY <1>1 DEF PInv, InText
<1>9. BuiltFrom(U)'
  BY <1>1, <1>3, <1>4, <1>5, <1>6, <1>7 DEF BuiltFrom
<1> QED
  BY <1>8, <1>9 DEF PInv

\* What the parser has built is put together from complete trees that have
\* the types of ast.h, and each unfinished node lacks the parts its form still
\* asks for: one that is called for is a part of the type its caller waits for.
THEOREM ParserInvariance == PSpec => []PInv
<1>1. PInit => PInv
  BY PInitKeeps
<1>2. PInv /\ [PNext]_pvars => PInv'
  <2> SUFFICES ASSUME PInv, [PNext]_pvars PROVE PInv'
    OBVIOUS
  <2>1. CASE Literal
    BY <2>1, LiteralKeeps
  <2>2. CASE Leaf
    BY <2>2, LeafKeeps
  <2>3. CASE Constant
    BY <2>3, ConstantKeeps
  <2>4. CASE Call
    BY <2>4, CallKeeps
  <2>5. CASE End
    BY <2>5, EndKeeps
  <2>6. CASE Vector
    BY <2>6, VectorKeeps
  <2>7. CASE Begin
    BY <2>7, BeginKeeps
  <2>8. CASE More
    BY <2>8, MoreKeeps
  <2>9. CASE Return
    BY <2>9, ReturnKeeps
  <2>10. CASE Finish
    BY <2>10, FinishKeeps
  <2>11. CASE UNCHANGED pvars
    BY <2>11 DEF PInv, BuiltFrom, InText, pvars
  <2> QED
    BY <2>1, <2>2, <2>3, <2>4, <2>5, <2>6, <2>7, <2>8, <2>9, <2>10, <2>11
    DEF PNext, PStep, PStop
<1> QED
  BY <1>1, <1>2, PTL DEF PSpec

-----------------------------------------------------------------------------
(* The nodes below.                                                        *)

\* The nodes below trees are trees.
LEMMA WithinTrees ==
  ASSUME NEW T, Trees(T), NEW roots \in SUBSET T, NEW depth \in Nat
  PROVE  Within(roots, depth) \subseteq T
<1> DEFINE S == SUBSET T
           Def(w) == w = [d \in Nat |-> IF d = 0 THEN roots ELSE WithParts(w[d - 1])]
           step == [p \in Nat \X S |-> WithParts(p[2])]
<1>1. ASSUME NEW nodes \in S PROVE WithParts(nodes) \in S
  <2>1. \A n \in nodes : Range(n.parts) \subseteq T
    BY DEF Trees, Range
  <2> QED
    BY <2>1 DEF WithParts
<1>2. IsStep(S, step)
  BY <1>1 DEF IsStep
<1>3. PICK f : CountsUp(f, S, roots, step)
  <2> HIDE DEF step, S
  <2>1. roots \in S
    BY DEF S
  <2> QED
    BY <1>2, <2>1, CountingExists
<1>4. f \in [Nat -> S] /\ f[0] = roots /\ \A n \in Nat : f[n + 1] = WithParts(f[n])
  BY <1>3 DEF CountsUp
<1>5. Def(f)
  <2>1. ASSUME NEW d \in Nat
        PROVE  f[d] = IF d = 0 THEN roots ELSE WithParts(f[d - 1])
    <3>1. d # 0 => d - 1 \in Nat /\ (d - 1) + 1 = d
      OBVIOUS
    <3> QED
      BY <1>4, <3>1
  <2> QED
    BY <1>4, <2>1
<1> DEFINE w == CHOOSE h : Def(h)
<1>6. Def(w)
  <2> HIDE DEF Def
  <2> QED
    BY <1>5
<1>7. Within(roots, depth) = w[depth]
  BY DEF Within
<1>8. w[0] = roots /\ \A n \in Nat : w[n + 1] = WithParts(w[n])
  <2> HIDE DEF w
  <2>1. \A d \in Nat : w[d] = IF d = 0 THEN roots ELSE WithParts(w[d - 1])
    BY <1>6
  <2>2. \A n \in Nat : n + 1 \in Nat /\ n + 1 # 0 /\ (n + 1) - 1 = n
    OBVIOUS
  <2> QED
    BY <2>1, <2>2
<1> HIDE DEF w
<1> DEFINE D == {d \in Nat : w[d] \in S}
<1>9. 0 \in D /\ \A n \in Nat : n \in D => n + 1 \in D
  BY <1>1, <1>8
<1> HIDE DEF D
<1>10. \A n \in Nat : n \in D
  BY <1>9, SetInduction
<1> QED
  BY <1>7, <1>10 DEF D

\* The trees with the unfinished nodes.
LEMMA BuiltTrees ==
  ASSUME PInv, NEW depth \in Nat
  PROVE  \A n \in Within(Built, depth) : Fits(n)
<1>1. PICK T : BuiltFrom(T)
  BY DEF PInv
<1> DEFINE Open == {Node(a.kind, a.parts) : a \in Range(stack)}
           U == T \cup Open
<1>2. \A n \in Open : n.parts \in Seq(T) /\ Fits(n)
  <2> SUFFICES ASSUME NEW a \in Range(stack)
               PROVE  Node(a.kind, a.parts).parts \in Seq(T) /\ Fits(Node(a.kind, a.parts))
    OBVIOUS
  <2>1. PICK d \in 1..Len(stack) : a = stack[d]
    <3>1. IsSeq(stack)
      BY <1>1 DEF BuiltFrom, StackOK
    <3> QED
      BY <3>1 DEF Range, IsSeq
  <2>2. ActivationOK(a, T)
    BY <1>1, <2>1 DEF BuiltFrom, StackOK
  <2>3. Node(a.kind, a.parts).parts = a.parts
    BY DEF Node
  <2> QED
    BY <2>2, <2>3 DEF ActivationOK
<1>3. Built \subseteq U
  BY <1>1 DEF Built, BuiltFrom
<1> HIDE DEF Open
<1>4. Trees(U)
  BY <1>1, <1>2, TreesGrow DEF BuiltFrom
<1> HIDE DEF U
<1>5. Within(Built, depth) \subseteq U
  BY <1>3, <1>4, WithinTrees
<1> QED
  BY <1>4, <1>5 DEF Trees

\* PTypeOK: what generate_ast returns has the types of ast.h, and so have the
\* nodes that are unfinished: an operator is of its class (conv_or), a vector
\* has elements of one type, an object has all its fields or lacks the one it
\* may lack.
THEOREM TreeTypes == PSpec => []PTypeOK
<1>1. PInv => PTypeOK
  <2> SUFFICES ASSUME PInv PROVE PTypeOK
    OBVIOUS
  <2>1. Len(text) \in Nat /\ pos \in 1..(Len(text) + 1)
    BY DEF PInv, InText, IsSeq
  <2>2. \A n \in Within(Built, Len(text)) : Fits(n)
    BY <2>1, BuiltTrees
  <2> QED
    BY <2>1, <2>2 DEF PInv, PTypeOK, BuiltFrom
<1> QED
  BY <1>1, ParserInvariance, PTL

\* The types of ast.h hold at every depth below what is built, however deep.
TypesAtEveryDepth == \A depth \in Nat : \A n \in Within(Built, depth) : Fits(n)

THEOREM TreesAtEveryDepth == PSpec => []TypesAtEveryDepth
<1>1. PInv => TypesAtEveryDepth
  BY BuiltTrees DEF TypesAtEveryDepth
<1> QED
  BY <1>1, ParserInvariance, PTL
-----------------------------------------------------------------------------
(* What forms begin with.                                                  *)

LEMMA CalledKinds ==
  /\ DOMAIN Called = {"stmt", "expr", "arg", "withitem"}
  /\ DOMAIN Called["stmt"] =
       {"Import", "FunctionDef", "ClassDef", "Return", "Assign", "AugAssign",
        "While", "For", "With", "If", "ExprStmt", "Pass", "Break", "Continue"}
  /\ DOMAIN Called["expr"] =
       {"BoolOp", "BinOp", "UnaryOp", "Compare", "Call", "Constant", "Attribute",
        "Subscript", "Name"}
  /\ DOMAIN Called["arg"] = {"arg"} /\ DOMAIN Called["withitem"] = {"withitem"}
BY DEF Called, generate_stmt, generate_expr

\* A kind is called for one symbol only and has one form.
LEMMA OneForm ==
  ASSUME NEW kind, NEW f, NEW g, IsForm(kind, f), IsForm(kind, g)
  PROVE  f = g
<1>1. ASSUME NEW s \in DOMAIN Called, NEW t \in DOMAIN Called,
             kind \in DOMAIN Called[s], kind \in DOMAIN Called[t]
      PROVE  s = t
  BY <1>1, CalledKinds
<1>2. \A s \in DOMAIN Called : "Module" \notin DOMAIN Called[s]
  BY CalledKinds
<1> QED
  BY <1>1, <1>2 DEF IsForm

\* The first word of each form.
FirstWord ==
  [Import |-> "Import(", FunctionDef |-> "FunctionDef(", ClassDef |-> "ClassDef(",
   Return |-> "Return(", Assign |-> "Assign(", AugAssign |-> "AugAssign(",
   While |-> "While(", For |-> "For(", With |-> "With(", If |-> "If(",
   ExprStmt |-> "Expr(", Pass |-> "Pass(", Break |-> "Break(",
   Continue |-> "Continue(", BoolOp |-> "BoolOp(", BinOp |-> "BinOp(",
   UnaryOp |-> "UnaryOp(", Compare |-> "Compare(", Call |-> "Call(",
   Constant |-> "Constant(", Attribute |-> "Attribute(", Subscript |-> "Subscript(",
   Name |-> "Name(", arg |-> "arg(", withitem |-> "withitem("]
Begins(kind, form) == IsSeq(form) /\ Len(form) > 1 /\ form[1] = FirstWord[kind]

LEMMA StatementsBegin ==
  \A kind \in DOMAIN generate_stmt : Begins(kind, generate_stmt[kind])
<1>1. Begins("Import", generate_import)
  BY DEF Begins, FirstWord, generate_import, IsSeq
<1>2. Begins("FunctionDef", generate_function_def)
  BY DEF Begins, FirstWord, generate_function_def, IsSeq
<1>3. Begins("ClassDef", generate_class_def)
  BY DEF Begins, FirstWord, generate_class_def, IsSeq
<1>4. Begins("Return", generate_return)
  BY DEF Begins, FirstWord, generate_return, IsSeq
<1>5. Begins("Assign", generate_assign)
  BY DEF Begins, FirstWord, generate_assign, IsSeq
<1>6. Begins("AugAssign", generate_aug_assign)
  BY DEF Begins, FirstWord, generate_aug_assign, IsSeq
<1>7. Begins("While", generate_while)
  BY DEF Begins, FirstWord, generate_while, IsSeq
<1>8. Begins("For", generate_for)
  BY DEF Begins, FirstWord, generate_for, IsSeq
<1>9. Begins("With", generate_with)
  BY DEF Begins, FirstWord, generate_with, IsSeq
<1>10. Begins("If", generate_if)
  BY DEF Begins, FirstWord, generate_if, IsSeq
<1>11. Begins("ExprStmt", generate_expr_stmt)
  BY DEF Begins, FirstWord, generate_expr_stmt, IsSeq
<1>12. Begins("Pass", <<"Pass(", ")">>)
  BY DEF Begins, FirstWord, IsSeq
<1>13. Begins("Break", <<"Break(", ")">>)
  BY DEF Begins, FirstWord, IsSeq
<1>14. Begins("Continue", <<"Continue(", ")">>)
  BY DEF Begins, FirstWord, IsSeq
<1>15. DOMAIN generate_stmt =
        {"Import", "FunctionDef", "ClassDef", "Return", "Assign",
         "AugAssign", "While", "For", "With", "If", "ExprStmt", "Pass",
         "Break", "Continue"}
  BY DEF generate_stmt
<1>16. /\ generate_stmt["Import"] = generate_import
      /\ generate_stmt["FunctionDef"] = generate_function_def
      /\ generate_stmt["ClassDef"] = generate_class_def
      /\ generate_stmt["Return"] = generate_return
      /\ generate_stmt["Assign"] = generate_assign
      /\ generate_stmt["AugAssign"] = generate_aug_assign
      /\ generate_stmt["While"] = generate_while
      /\ generate_stmt["For"] = generate_for
      /\ generate_stmt["With"] = generate_with
      /\ generate_stmt["If"] = generate_if
      /\ generate_stmt["ExprStmt"] = generate_expr_stmt
      /\ generate_stmt["Pass"] = <<"Pass(", ")">>
      /\ generate_stmt["Break"] = <<"Break(", ")">>
      /\ generate_stmt["Continue"] = <<"Continue(", ")">>
  BY DEF generate_stmt
<1> QED
  BY <1>1, <1>2, <1>3, <1>4, <1>5, <1>6, <1>7, <1>8, <1>9, <1>10, <1>11,
     <1>12, <1>13, <1>14, <1>15, <1>16

LEMMA ExpressionsBegin ==
  \A kind \in DOMAIN generate_expr : Begins(kind, generate_expr[kind])
<1>1. Begins("BoolOp", generate_bool_op)
  BY DEF Begins, FirstWord, generate_bool_op, IsSeq
<1>2. Begins("BinOp", generate_bin_op)
  BY DEF Begins, FirstWord, generate_bin_op, IsSeq
<1>3. Begins("UnaryOp", generate_unary_op)
  BY DEF Begins, FirstWord, generate_unary_op, IsSeq
<1>4. Begins("Compare", generate_compare)
  BY DEF Begins, FirstWord, generate_compare, IsSeq
<1>5. Begins("Call", generate_call)
  BY DEF Begins, FirstWord, generate_call, IsSeq
<1>6. Begins("Constant", generate_constant)
  BY DEF Begins, FirstWord, generate_constant, IsSeq
<1>7. Begins("Attribute", generate_attribute)
  BY DEF Begins, FirstWord, generate_attribute, IsSeq
<1>8. Begins("Subscript", generate_subscript)
  BY DEF Begins, FirstWord, generate_subscript, IsSeq
<1>9. Begins("Name", generate_name)
  BY DEF Begins, FirstWord, generate_name, IsSeq
<1>10. DOMAIN generate_expr =
        {"BoolOp", "BinOp", "UnaryOp", "Compare", "Call", "Constant",
         "Attribute", "Subscript", "Name"}
  BY DEF generate_expr
<1>11. /\ generate_expr["BoolOp"] = generate_bool_op
      /\ generate_expr["BinOp"] = generate_bin_op
      /\ generate_expr["UnaryOp"] = generate_unary_op
      /\ generate_expr["Compare"] = generate_compare
      /\ generate_expr["Call"] = generate_call
      /\ generate_expr["Constant"] = generate_constant
      /\ generate_expr["Attribute"] = generate_attribute
      /\ generate_expr["Subscript"] = generate_subscript
      /\ generate_expr["Name"] = generate_name
  BY DEF generate_expr
<1> QED
  BY <1>1, <1>2, <1>3, <1>4, <1>5, <1>6, <1>7, <1>8, <1>9, <1>10, <1>11

LEMMA FormsBegin ==
  ASSUME NEW symbol \in DOMAIN Called, NEW kind \in DOMAIN Called[symbol]
  PROVE  Begins(kind, Called[symbol][kind]) /\ kind \in DOMAIN FirstWord
<1>1. Called["stmt"] = generate_stmt /\ Called["expr"] = generate_expr
  BY DEF Called
<1>2. Called["arg"]["arg"] = generate_arg /\ Called["withitem"]["withitem"] = generate_withitem
  BY DEF Called
<1>3. Begins("arg", generate_arg)
  BY DEF Begins, FirstWord, generate_arg, IsSeq
<1>4. Begins("withitem", generate_withitem)
  BY DEF Begins, FirstWord, generate_withitem, IsSeq
<1>5. kind \in DOMAIN FirstWord
  BY CalledKinds DEF FirstWord
<1> QED
  BY <1>1, <1>2, <1>3, <1>4, <1>5, CalledKinds, StatementsBegin, ExpressionsBegin

\* No two kinds begin alike, and none like what may stand around them.
LEMMA FirstWords ==
  /\ \A j, k \in DOMAIN FirstWord : FirstWord[j] = FirstWord[k] => j = k
  /\ \A k \in DOMAIN FirstWord : FirstWord[k] \in Literals /\ FirstWord[k] # "]"
<1>1. \A j, k \in DOMAIN FirstWord : FirstWord[j] = FirstWord[k] => j = k
  BY DEF FirstWord
<1>2. \A k \in DOMAIN FirstWord : FirstWord[k] \in Literals /\ FirstWord[k] # "]"
  BY DEF FirstWord, Literals
<1> QED
  BY <1>1, <1>2

\* The ends of forms are forms.
LEMMA EndsAreForms ==
  \A symbol \in DOMAIN Ends : \A e \in DOMAIN Ends[symbol] : IsSeq(Ends[symbol][e])
<1>1. DOMAIN Ends = {"returned", "optionalVars", "endOfDef"}
  BY SymbolsAre
<1>2. IsSeq(Ends["returned"][1])
  BY DEF Ends, IsSeq
<1>3. IsSeq(Ends["returned"][2])
  BY DEF Ends, IsSeq
<1>4. IsSeq(Ends["optionalVars"][1])
  BY DEF Ends, IsSeq
<1>5. IsSeq(Ends["optionalVars"][2])
  BY DEF Ends, IsSeq
<1>6. IsSeq(Ends["endOfDef"][1])
  BY DEF Ends, IsSeq
<1>7. IsSeq(Ends["endOfDef"][2])
  BY DEF Ends, IsSeq
<1>8. DOMAIN Ends["returned"] = {1, 2}
  BY DEF Ends
<1>9. DOMAIN Ends["optionalVars"] = {1, 2}
  BY DEF Ends
<1>10. DOMAIN Ends["endOfDef"] = {1, 2}
  BY DEF Ends
<1> QED
  BY <1>1, <1>2, <1>3, <1>4, <1>5, <1>6, <1>7, <1>8, <1>9, <1>10

-----------------------------------------------------------------------------
(* What is left of the symbols of a node.                                  *)

\* The rest of an activation is what the node has from symbol i on,
PlainLeft(symbols, i, rest) ==
  /\ IsSeq(rest) /\ i + Len(rest) = Len(symbols) + 1
  /\ \A k \in 1..Len(rest) : rest[k] = symbols[i + k - 1]

\* or has an end to choose yet,
EndLeft(symbols, i, rest) ==
  /\ IsSeq(rest) /\ Len(rest) > 0 /\ rest[Len(rest)] \in DOMAIN Ends
  /\ \A k \in 1..(Len(rest) - 1) : rest[k] = symbols[i + k - 1]
  /\ \E e \in DOMAIN Ends[rest[Len(rest)]] :
       PlainLeft(symbols, i + Len(rest) - 1, Ends[rest[Len(rest)]][e])

\* or is that of a list.
ListLeft(kind, symbols, i, rest) ==
  /\ kind \in DOMAIN Lists
  /\ \E n \in Nat :
       /\ IsList(Lists[kind], symbols, n)
       /\ \/ i = 1 /\ rest = <<"[", "begin">>
          \/ i = 2 /\ rest = <<"begin">>
          \/ rest = <<Lists[kind], "more">> /\ \E k \in 1..n : i = 2 * k
          \/ rest = <<"more">> /\ \E k \in 1..n : i = 2 * k + 1

IsLeft(kind, symbols, i, rest) ==
  PlainLeft(symbols, i, rest) \/ EndLeft(symbols, i, rest) \/ ListLeft(kind, symbols, i, rest)

LEMMA FrontOf ==
  ASSUME NEW S, NEW s \in Seq(S), s # <<>>
  PROVE  /\ Front(s) \in Seq(S) /\ Len(Front(s)) = Len(s) - 1
         /\ \A k \in 1..(Len(s) - 1) : Front(s)[k] = s[k]
<1>1. Len(s) \in Nat /\ Len(s) > 0
  OBVIOUS
<1> DEFINE n == Len(s) - 1
<1>2. n \in 0..Len(s) /\ n = Len(s) - 1 /\ 1..n = 1..(Len(s) - 1)
  BY <1>1
<1>3. Front(s) = SubSeq(s, 1, n)
  BY DEF Front
<1> HIDE DEF n
<1>4. Len(SubSeq(s, 1, n)) = n /\ \A k \in 1..n : SubSeq(s, 1, n)[k] = s[k]
  BY <1>1, <1>2
<1>5. SubSeq(s, 1, n) \in Seq(S)
  BY <1>1, <1>2
<1> QED
  BY <1>2, <1>3, <1>4, <1>5

LEMMA PlainLeftTail ==
  ASSUME NEW symbols, NEW i \in Nat, i > 0, Len(symbols) \in Nat, NEW rest,
         PlainLeft(symbols, i, rest), rest # <<>>
  PROVE  /\ i <= Len(symbols) /\ symbols[i] = Head(rest)
         /\ PlainLeft(symbols, i + 1, Tail(rest))
<1>1. /\ IsSeq(Tail(rest)) /\ Len(rest) > 0 /\ Head(rest) = rest[1]
      /\ Len(Tail(rest)) = Len(rest) - 1 /\ Len(rest) \in Nat
      /\ \A k \in 1..Len(Tail(rest)) : Tail(rest)[k] = rest[k + 1]
  BY TailOf DEF PlainLeft, IsSeq
<1>2. i + Len(rest) = Len(symbols) + 1 /\ \A k \in 1..Len(rest) : rest[k] = symbols[i + k - 1]
  BY DEF PlainLeft
<1>3. i <= Len(symbols) /\ symbols[i] = Head(rest)
  <2>1. 1 \in 1..Len(rest) /\ i + 1 - 1 = i
    BY <1>1
  <2> QED
    BY <1>1, <1>2, <2>1
<1>4. ASSUME NEW k \in 1..Len(Tail(rest))
      PROVE  Tail(rest)[k] = symbols[i + 1 + k - 1]
  <2>1. k + 1 \in 1..Len(rest) /\ i + (k + 1) - 1 = i + 1 + k - 1
    BY <1>1
  <2> QED
    BY <1>1, <1>2, <2>1
<1>5. i + 1 + Len(Tail(rest)) = Len(symbols) + 1
  <2>1. i + Len(rest) = Len(symbols) + 1 /\ Len(Tail(rest)) = Len(rest) - 1
    BY <1>1, <1>2
  <2>2. Len(rest) \in Nat /\ Len(symbols) \in Nat
    BY <1>1
  <2> QED
    BY <2>1, <2>2
<1>6. PlainLeft(symbols, i + 1, Tail(rest))
  BY <1>1, <1>4, <1>5 DEF PlainLeft
<1> QED
  BY <1>3, <1>6

LEMMA EndLeftTail ==
  ASSUME NEW symbols, NEW i \in Nat, i > 0, Len(symbols) \in Nat, NEW rest,
         EndLeft(symbols, i, rest), Head(rest) \notin DOMAIN Ends
  PROVE  /\ i <= Len(symbols) /\ symbols[i] = Head(rest)
         /\ EndLeft(symbols, i + 1, Tail(rest))
<1>1. IsSeq(rest) /\ Len(rest) > 0 /\ rest # <<>> /\ Len(rest) \in Nat
  BY DEF EndLeft, IsSeq
<1>2. /\ IsSeq(Tail(rest)) /\ Head(rest) = rest[1] /\ Len(Tail(rest)) = Len(rest) - 1
      /\ \A k \in 1..Len(Tail(rest)) : Tail(rest)[k] = rest[k + 1]
  BY <1>1, TailOf
<1>3. Len(rest) > 1
  BY <1>1, <1>2 DEF EndLeft
<1>4. Tail(rest)[Len(Tail(rest))] = rest[Len(rest)]
  BY <1>1, <1>2, <1>3
<1>5. PICK e \in DOMAIN Ends[rest[Len(rest)]] :
        PlainLeft(symbols, i + Len(rest) - 1, Ends[rest[Len(rest)]][e])
  BY DEF EndLeft
<1>6. /\ rest[Len(rest)] \in DOMAIN Ends
      /\ \A k \in 1..(Len(rest) - 1) : rest[k] = symbols[i + k - 1]
  BY DEF EndLeft
<1>7. symbols[i] = Head(rest)
  <2>1. 1 \in 1..(Len(rest) - 1) /\ i + 1 - 1 = i
    BY <1>1, <1>3
  <2> QED
    BY <1>2, <1>6, <2>1
<1>8. i <= Len(symbols)
  BY <1>1, <1>3, <1>5 DEF PlainLeft, IsSeq
<1>9. ASSUME NEW k \in 1..(Len(Tail(rest)) - 1)
      PROVE  Tail(rest)[k] = symbols[i + 1 + k - 1]
  <2>1. /\ k + 1 \in 1..(Len(rest) - 1) /\ i + (k + 1) - 1 = i + 1 + k - 1
        /\ k \in 1..Len(Tail(rest))
    BY <1>1, <1>2
  <2> QED
    BY <1>2, <1>6, <2>1
<1>10. i + 1 + Len(Tail(rest)) - 1 = i + Len(rest) - 1 /\ Len(Tail(rest)) > 0
  BY <1>1, <1>2, <1>3
<1>11. EndLeft(symbols, i + 1, Tail(rest))
  BY <1>2, <1>4, <1>5, <1>6, <1>9, <1>10 DEF EndLeft
<1> QED
  BY <1>7, <1>8, <1>11

LEMMA ListLeftTail ==
  ASSUME NEW kind, NEW symbols, NEW i \in Nat, NEW rest,
         ListLeft(kind, symbols, i, rest), Head(rest) \notin {"begin", "more"}
  PROVE  /\ i <= Len(symbols) /\ symbols[i] = Head(rest)
         /\ ListLeft(kind, symbols, i + 1, Tail(rest))
<1>1. PICK n \in Nat :
        /\ IsList(Lists[kind], symbols, n)
        /\ \/ i = 1 /\ rest = <<"[", "begin">>
           \/ i = 2 /\ rest = <<"begin">>
           \/ rest = <<Lists[kind], "more">> /\ \E k \in 1..n : i = 2 * k
           \/ rest = <<"more">> /\ \E k \in 1..n : i = 2 * k + 1
  BY DEF ListLeft
<1>2. /\ Len(symbols) = IF n = 0 THEN 2 ELSE 2 * n + 1
      /\ symbols[1] = "[" /\ \A k \in 1..n : symbols[2 * k] = Lists[kind]
  BY <1>1 DEF IsList
<1>3. kind \in DOMAIN Lists
  BY DEF ListLeft
<1>4. CASE i = 1 /\ rest = <<"[", "begin">>
  <2>1. Head(rest) = "[" /\ Tail(rest) = <<"begin">> /\ i + 1 = 2
    BY <1>4
  <2>2. ListLeft(kind, symbols, i + 1, Tail(rest))
    BY <1>1, <1>3, <2>1 DEF ListLeft
  <2> QED
    BY <1>2, <1>4, <2>1, <2>2
<1>5. CASE rest = <<Lists[kind], "more">> /\ \E k \in 1..n : i = 2 * k
  <2>1. PICK k \in 1..n : i = 2 * k
    BY <1>5
  <2>2. Head(rest) = Lists[kind] /\ Tail(rest) = <<"more">> /\ i + 1 = 2 * k + 1
    BY <1>5, <2>1
  <2>3. ListLeft(kind, symbols, i + 1, Tail(rest))
    BY <1>1, <1>3, <2>2 DEF ListLeft
  <2>4. i <= Len(symbols) /\ symbols[i] = Lists[kind]
    BY <1>2, <2>1
  <2> QED
    BY <2>2, <2>3, <2>4
<1>6. CASE rest = <<"begin">> \/ rest = <<"more">>
  BY <1>6
<1> QED
  BY <1>1, <1>4, <1>5, <1>6

\* The next symbol is that of the node, unless a choice is to be made.
LEMMA LeftTail ==
  ASSUME NEW kind, NEW symbols, NEW i \in Nat, i > 0, Len(symbols) \in Nat, NEW rest,
         IsLeft(kind, symbols, i, rest), rest # <<>>,
         Head(rest) \notin DOMAIN Ends \cup {"begin", "more"}
  PROVE  /\ i <= Len(symbols) /\ symbols[i] = Head(rest)
         /\ IsLeft(kind, symbols, i + 1, Tail(rest))
BY PlainLeftTail, EndLeftTail, ListLeftTail DEF IsLeft

\* A production as it begins.
LEMMA FormLeft ==
  ASSUME NEW form, IsSeq(form), NEW symbols,
         (symbols = form /\ Last(form) \notin DOMAIN Ends) \/ IsEnded(form, symbols)
  PROVE  PlainLeft(symbols, 1, form) \/ EndLeft(symbols, 1, form)
<1>1. CASE symbols = form
  <2>1. Len(form) \in Nat /\ \A k \in 1..Len(form) : 1 + k - 1 = k
    BY DEF IsSeq
  <2>2. PlainLeft(symbols, 1, form)
    BY <1>1, <2>1 DEF PlainLeft
  <2> QED
    BY <2>2
<1>2. CASE IsEnded(form, symbols)
  <2> DEFINE m == Len(form)
             end == form[m]
  <2>1. form \in Seq(ElementsOf(form)) /\ m \in Nat /\ m > 0 /\ Last(form) = end
    <3>1. form \in Seq(ElementsOf(form)) /\ form # <<>>
      BY <1>2, SeqOfElements DEF IsEnded
    <3> QED
      BY <3>1 DEF Last
  <2>2. end \in DOMAIN Ends
    BY <1>2, <2>1 DEF IsEnded
  <2>3. PICK e \in DOMAIN Ends[end] : symbols = Front(form) \o Ends[end][e]
    BY <1>2, <2>1 DEF IsEnded
  <2> DEFINE w == Ends[end][e]
             f == Front(form)
  <2>4. IsSeq(w)
    BY <2>2, EndsAreForms
  <2>5. f \in Seq(ElementsOf(form)) /\ Len(f) = m - 1 /\ \A k \in 1..(m - 1) : f[k] = form[k]
    <3>1. form # <<>>
      BY <1>2 DEF IsEnded
    <3> QED
      BY <2>1, <3>1, FrontOf
  <2> HIDE DEF w, f, m, end
  <2>6. w \in Seq(ElementsOf(w)) /\ Len(w) \in Nat
    BY <2>4, SeqOfElements DEF IsSeq
  <2>7. /\ Len(symbols) = m - 1 + Len(w)
        /\ \A k \in 1..(m - 1) : symbols[k] = form[k]
        /\ \A k \in 1..Len(w) : symbols[m + k - 1] = w[k]
    <3> DEFINE U == ElementsOf(form) \cup ElementsOf(w)
    <3>1. f \in Seq(U) /\ w \in Seq(U)
      BY <2>5, <2>6, SeqGrows
    <3>2. symbols = f \o w
      BY <2>3 DEF f, w
    <3> HIDE DEF U
    <3>3. /\ Len(symbols) = Len(f) + Len(w)
          /\ \A k \in 1..(Len(f) + Len(w)) :
               symbols[k] = IF k <= Len(f) THEN f[k] ELSE w[k - Len(f)]
      BY <3>1, <3>2
    <3>4. ASSUME NEW k \in 1..Len(w) PROVE symbols[m + k - 1] = w[k]
      <4> DEFINE j == m + k - 1
      <4>1. j \in 1..(Len(f) + Len(w)) /\ ~(j <= Len(f)) /\ j - Len(f) = k
        BY <2>1, <2>5, <2>6
      <4> HIDE DEF j
      <4>2. symbols[j] = w[k]
        BY <3>3, <4>1
      <4> QED
        BY <4>2 DEF j
    <3>5. ASSUME NEW k \in 1..(m - 1) PROVE symbols[k] = form[k]
      <4>1. k \in 1..(Len(f) + Len(w)) /\ k <= Len(f)
        BY <2>1, <2>5, <2>6
      <4> QED
        BY <2>5, <3>3, <4>1
    <3> QED
      BY <2>5, <3>3, <3>4, <3>5
  <2>8. PlainLeft(symbols, 1 + m - 1, w)
    <3>1. 1 + m - 1 = m
      BY <2>1
    <3> QED
      BY <2>1, <2>4, <2>6, <2>7, <3>1 DEF PlainLeft
  <2>9. \A k \in 1..(m - 1) : form[k] = symbols[1 + k - 1]
    <3>1. \A k \in 1..(m - 1) : 1 + k - 1 = k
      BY <2>1
    <3> QED
      BY <2>7, <3>1
  <2>10. EndLeft(symbols, 1, form)
    BY <2>1, <2>2, <2>8, <2>9 DEF EndLeft, w, m, end
  <2> QED
    BY <2>10
<1> QED
  BY <1>1, <1>2

-----------------------------------------------------------------------------
(* What is looked at.                                                      *)

LEMMA OtherWords ==
  /\ \A t \in Digits : t \notin {"-", ".", ")", "True", "False"}
  /\ \A t \in Quoted : t \notin Digits \cup {"-", ".", ")", "True", "False"}
BY ParserAssumption, Zenon

LEMMA Looks ==
  \A p \in 1..Len(text) : IsSeq(text) => At(p) = text[p]
<1> SUFFICES ASSUME NEW p \in 1..Len(text), IsSeq(text) PROVE At(p) = text[p]
  OBVIOUS
<1>1. p <= Len(text)
  BY DEF IsSeq
<1> QED
  BY <1>1, Zenon DEF At

\* What is a constant, by what is there.
LEMMA ConstantIs ==
  ASSUME At(pos) \notin Quoted
  PROVE  /\ At(pos) \notin {"True", "False"} =>
              /\ FloatLength(pos) > 0 => ConstantLength = FloatLength(pos)
              /\ FloatLength(pos) = 0 /\ IntLength(pos) > 0 =>
                   ConstantLength = IntLength(pos)
         /\ FloatLength(pos) = 0 /\ IntLength(pos) = 0 /\ At(pos) \in {"True", "False"}
              => ConstantLength = 1
<1>1. At(pos) \notin {"True", "False"} /\ FloatLength(pos) > 0
      => ConstantLength = FloatLength(pos)
  BY DEF ConstantLength
<1>2. At(pos) \notin {"True", "False"} /\ FloatLength(pos) = 0 /\ IntLength(pos) > 0
      => ConstantLength = IntLength(pos)
  BY DEF ConstantLength
<1>3. FloatLength(pos) = 0 /\ IntLength(pos) = 0 /\ At(pos) \in {"True", "False"}
      => ConstantLength = 1
  BY DEF ConstantLength
<1> QED
  BY <1>1, <1>2, <1>3

\* An integer is read up to the first token that is not a digit.
LEMMA IntExact ==
  ASSUME IsSeq(text), NEW p \in 1..Len(text), NEW q \in p..Len(text), IsInt(p, q),
         text[q] \notin Digits, q = p => text[q] # "-"
  PROVE  IntLength(p) = q - p
<1> DEFINE sign == IF At(p) = "-" /\ p < Len(text) THEN 1 ELSE 0
           Others == {i \in (p + sign)..Len(text) : text[i] \notin Digits}
           stop == IF Others # {} THEN Min(Others) ELSE 0
<1>1. Len(text) \in Nat
  BY DEF IsSeq
<1>2. IntLength(p) = (IF stop = 0 THEN Len(text) + 1 ELSE stop) - p
  BY DEF IntLength, SelectInSubSeq
<1>3. At(p) = text[p]
  BY <1>1, Looks
<1>4. /\ sign \in {0, 1} /\ p + sign \in p..q
      /\ text[p] = "-" => sign = 1
  BY <1>1, <1>3
<1> HIDE DEF sign
<1>5. q \in Others
  BY <1>1, <1>4
<1>6. ASSUME NEW i \in Others PROVE q <= i
  <2>1. i \in Nat /\ p + sign <= i /\ text[i] \notin Digits
    BY <1>1, <1>4
  <2> SUFFICES ASSUME i < q PROVE FALSE
    BY <1>1, <2>1
  <2>2. i \in p..(q - 1)
    BY <1>1, <1>4, <2>1
  <2>3. i = p /\ text[p] = "-"
    BY <2>1, <2>2 DEF IsInt
  <2> QED
    BY <1>1, <1>4, <2>1, <2>3
<1>7. Min(Others) = q
  <2> HIDE DEF Others
  <2>1. \E m \in Others : \A i \in Others : m <= i
    BY <1>5, <1>6
  <2>2. Min(Others) \in Others /\ \A i \in Others : Min(Others) <= i
    BY <2>1 DEF Min
  <2>3. Min(Others) \in Nat
    BY <1>1, <1>4, <2>2 DEF Others
  <2> QED
    BY <1>1, <1>5, <1>6, <2>2, <2>3
<1>8. stop = q /\ q # 0
  <2> HIDE DEF Others
  <2> QED
    BY <1>1, <1>5, <1>7
<1> HIDE DEF stop
<1> QED
  BY <1>1, <1>2, <1>8

\* A constant is read up to the ) after it.
LEMMA ConstantExact ==
  ASSUME IsSeq(text), pos \in 1..Len(text), NEW to \in pos..Len(text), IsValue(pos, to),
         text[to] = ")"
  PROVE  to > pos /\ ConstantLength = to - pos
<1>1. Len(text) \in Nat /\ At(pos) = text[pos]
  BY Looks DEF IsSeq
<1>2. text[to] \notin Digits /\ text[to] # "-" /\ text[to] # "."
  BY OtherWords
<1>3. CASE to = pos + 1 /\ text[pos] \in Quoted
  <2>1. ConstantLength = 1
    BY <1>1, <1>3 DEF ConstantLength
  <2> QED
    BY <1>1, <1>3, <2>1
<1>4. CASE to = pos + 1 /\ text[pos] \in {"True", "False"}
  <2>1. text[pos] \notin Digits \cup Quoted /\ text[pos] # "-" /\ text[pos] # "."
    BY <1>4, OtherWords
  <2>2. IntLength(pos) = pos - pos
    <3>1. IsInt(pos, pos)
      BY <1>1 DEF IsInt
    <3> QED
      BY <1>1, <2>1, <3>1, IntExact
  <2>3. FloatLength(pos) = 0 /\ IntLength(pos) = 0
    BY <1>1, <2>2 DEF FloatLength
  <2>4. ConstantLength = 1
    BY <1>1, <1>4, <2>1, <2>3, ConstantIs
  <2> QED
    BY <1>1, <1>4, <2>4
<1>5. CASE pos < to /\ IsInt(pos, to)
  <2>1. IntLength(pos) = to - pos
    BY <1>1, <1>2, <1>5, IntExact
  <2>2. text[pos] \in Digits \cup {"-"}
    <3>1. pos \in pos..(to - 1)
      BY <1>1, <1>5
    <3> QED
      BY <1>5, <3>1 DEF IsInt
  <2>3. text[pos] \notin Quoted \cup {"True", "False"}
    BY <2>2, OtherWords
  <2>4. At(pos + (to - pos)) = text[to]
    <3>1. pos + (to - pos) = to /\ to <= Len(text)
      BY <1>1
    <3> QED
      BY <3>1, Zenon DEF At
  <2>5. FloatLength(pos) = 0
    BY <1>2, <2>1, <2>4 DEF FloatLength
  <2>6. ConstantLength = to - pos
    BY <1>1, <1>5, <2>1, <2>3, <2>5, ConstantIs
  <2> QED
    BY <1>5, <2>6
<1>6. CASE IsFloat(pos, to)
  <2>1. PICK dot \in pos..(to - 1) : /\ pos < dot /\ text[dot] = "."
                                     /\ IsInt(pos, dot) /\ IsInt(dot + 1, to)
    BY <1>6 DEF IsFloat
  <2>2. text[dot] \notin Digits /\ text[dot] # "-"
    BY <2>1, OtherWords
  <2>3. IntLength(pos) = dot - pos
    <3>1. dot \in pos..Len(text)
      BY <1>1
    <3> QED
      BY <1>1, <2>1, <2>2, <3>1, IntExact
  <2>4. IntLength(dot + 1) = to - (dot + 1)
    <3>1. dot + 1 \in 1..Len(text) /\ to \in (dot + 1)..Len(text)
      BY <1>1
    <3> QED
      BY <1>1, <1>2, <2>1, <3>1, IntExact
  <2>5. At(pos + (dot - pos)) = "."
    <3>1. pos + (dot - pos) = dot /\ dot <= Len(text)
      BY <1>1
    <3> QED
      BY <2>1, <3>1, Zenon DEF At
  <2>6. FloatLength(pos) = to - pos
    <3> DEFINE n == IntLength(pos)
    <3>1. FloatLength(pos) = n + 1 + IntLength(pos + n + 1)
      BY <1>1, <2>1, <2>3, <2>5 DEF FloatLength
    <3>2. pos + n + 1 = dot + 1
      BY <1>1, <2>3
    <3> QED
      BY <1>1, <2>3, <2>4, <3>1, <3>2
  <2>7. text[pos] \in Digits \cup {"-"}
    <3>1. pos \in pos..(dot - 1)
      BY <1>1, <2>1
    <3> QED
      BY <2>1, <3>1 DEF IsInt
  <2>8. text[pos] \notin Quoted \cup {"True", "False"}
    BY <2>7, OtherWords
  <2>9. to > pos
    BY <1>1, <2>1
  <2>10. ConstantLength = to - pos
    BY <1>1, <2>6, <2>8, <2>9, ConstantIs
  <2> QED
    BY <2>9, <2>10
<1> QED
  BY <1>3, <1>4, <1>5, <1>6 DEF IsValue

\* The opening of a form ends before its first part.
LEMMA OpeningIs ==
  ASSUME NEW form, IsSeq(form)
  PROVE  /\ IsSeq(Opening(form)) /\ Len(Opening(form)) <= Len(form)
         /\ \A k \in 1..Len(Opening(form)) : /\ Opening(form)[k] = form[k]
                                             /\ form[k] \notin Parts
         /\ \/ Len(Opening(form)) = Len(form)
            \/ form[Len(Opening(form)) + 1] \in Parts
<1> DEFINE Others == {i \in 1..Len(form) : form[i] \in Parts}
<1>1. Len(form) \in Nat /\ form \in Seq(ElementsOf(form))
  BY SeqOfElements DEF IsSeq
<1>2. CASE Others = {}
  <2>1. Opening(form) = form
    BY <1>2 DEF Opening, SelectInSeq
  <2> QED
    BY <1>1, <1>2, <2>1
<1>3. CASE Others # {}
  <2> DEFINE m == Min(Others)
  <2>1. Others \in SUBSET Nat
    BY <1>1
  <2>2. m \in Others /\ \A i \in Others : m <= i
    <3> HIDE DEF Others
    <3>1. \E x \in Others : \A i \in Others : x <= i
      BY <1>3, <2>1, LeastExists
    <3> QED
      BY <3>1 DEF Min
  <2>3. m \in 1..Len(form) /\ form[m] \in Parts /\ m # 0
    BY <1>1, <2>2
  <2>4. Opening(form) = SubSeq(form, 1, m - 1)
    <3>1. SelectInSeq(form, LAMBDA s : s \in Parts) = m
      <4>1. SelectInSeq(form, LAMBDA s : s \in Parts) = IF Others # {} THEN Min(Others) ELSE 0
        BY DEF SelectInSeq
      <4> QED
        BY <1>3, <4>1
    <3> QED
      BY <2>3, <3>1 DEF Opening
  <2>5. \A k \in 1..(m - 1) : form[k] \notin Parts
    <3> SUFFICES ASSUME NEW k \in 1..(m - 1) PROVE form[k] \notin Parts
      OBVIOUS
    <3>1. k \in 1..Len(form) /\ ~(m <= k)
      BY <1>1, <2>3
    <3> QED
      BY <2>2, <3>1
  <2> HIDE DEF m, Others
  <2> DEFINE n == m - 1
  <2>6. n \in 0..Len(form) /\ n = m - 1 /\ n + 1 = m
    BY <1>1, <2>3
  <2> HIDE DEF n
  <2>7. Len(SubSeq(form, 1, n)) = n /\ \A k \in 1..n : SubSeq(form, 1, n)[k] = form[k]
    BY <1>1, <2>6
  <2>8. SubSeq(form, 1, n) \in Seq(ElementsOf(form))
    BY <1>1, <2>6
  <2>9. IsSeq(SubSeq(form, 1, n))
    BY <2>8, SeqIs
  <2> QED
    BY <2>3, <2>4, <2>5, <2>6, <2>7, <2>9
<1> QED
  BY <1>2, <1>3

-----------------------------------------------------------------------------
(* Reading along.                                                          *)

\* The first n elements.
IsBeginning(part, whole, n) ==
  IsSeq(part) /\ Len(part) = n /\ \A k \in 1..n : part[k] = whole[k]

\* The function a is reading the node n and has read what is before symbol i.
IsReading(n, i, a) ==
  /\ a.kind = n.tree.kind /\ i \in 1..(Len(n.symbols) + 1)
  /\ IsLeft(a.kind, n.symbols, i, a.rest)
  /\ IsBeginning(a.parts, n.tree.parts, n.at[i])

\* It goes on to symbol j, k tokens further, with more parts.
GoesTo(n, i, j, k, rest, parts) ==
  /\ j \in 1..(Len(n.symbols) + 1) /\ IsLeft(n.tree.kind, n.symbols, j, rest)
  /\ IsSeq(parts) /\ n.at[j] = n.at[i] + Len(parts)
  /\ \A l \in 1..Len(parts) : parts[l] = n.tree.parts[n.at[i] + l]
  /\ n.cut[j] = n.cut[i] + k

\* It has called the one that reads c.
Calls(n, i, a, c) ==
  /\ a.rest # <<>> /\ Head(a.rest) \in DOMAIN Called \cup DOMAIN Lists
  /\ IsChild(n, i, c)

\* Activation d of the stack s is reading node[d], and p is as far as they are.
FollowsAll(D, r, s, p, node, index) ==
  /\ node[1] = r
  /\ \A d \in 1..Len(s) : node[d] \in D /\ IsReading(node[d], index[d], s[d])
  /\ \A d \in 1..(Len(s) - 1) : Calls(node[d], index[d], s[d], node[d + 1])
  /\ p = node[Len(s)].cut[index[Len(s)]]

Path(D, r) == \E node, index : FollowsAll(D, r, stack, pos, node, index)

LEMMA Reading ==
  ASSUME NEW D, NEW n, NEW i,
         ReadsWord(n, i) \/ ReadsLeaf(n, i) \/ ReadsValue(n, i) \/ ReadsNode(D, n, i)
  PROVE  /\ n.symbols[i] \notin DOMAIN Ends \cup {"begin", "more"}
         /\ n.symbols[i] \notin Parts => ReadsWord(n, i)
         /\ n.symbols[i] \in DOMAIN Leaves => ReadsLeaf(n, i)
         /\ n.symbols[i] = "value" => ReadsValue(n, i)
         /\ n.symbols[i] \in DOMAIN Called \cup DOMAIN Lists => ReadsNode(D, n, i)
<1> DEFINE s == n.symbols[i]
<1>1. \/ s \notin Parts /\ ReadsWord(n, i)
      \/ s \in DOMAIN Leaves /\ ReadsLeaf(n, i)
      \/ s = "value" /\ ReadsValue(n, i)
      \/ s \in DOMAIN Called \cup DOMAIN Lists /\ ReadsNode(D, n, i)
  BY DEF ReadsWord, ReadsLeaf, ReadsValue, ReadsNode
<1> HIDE DEF s
<1>2. /\ DOMAIN Leaves = {"identifier", "context", "binop", "boolop", "unaryop", "cmpop"}
      /\ DOMAIN Called = {"stmt", "expr", "arg", "withitem"}
      /\ DOMAIN Lists = {"stmts", "exprs", "args", "withitems", "cmpops"}
      /\ DOMAIN Ends = {"returned", "optionalVars", "endOfDef"}
  BY DEF Leaves, Called, Lists, Ends
<1>3. Parts = DOMAIN Called \cup DOMAIN Ends \cup DOMAIN Lists \cup DOMAIN Leaves
                \cup {"value", "begin", "more"}
  BY DEF Parts, Marks
<1>4. /\ s \notin DOMAIN Ends \cup {"begin", "more"}
      /\ s \notin Parts => ReadsWord(n, i)
      /\ s \in DOMAIN Leaves => ReadsLeaf(n, i)
      /\ s = "value" => ReadsValue(n, i)
      /\ s \in DOMAIN Called \cup DOMAIN Lists => ReadsNode(D, n, i)
  BY <1>1, <1>2, <1>3
<1> QED
  BY <1>4 DEF s

\* What a function still expects is what the node has next.
LEMMA NextSymbol ==
  ASSUME NEW D, IsDerivation(D), NEW n \in D, NEW i, NEW a, IsReading(n, i, a),
         a.rest # <<>>, Head(a.rest) \notin DOMAIN Ends \cup {"begin", "more"}
  PROVE  /\ i \in 1..Len(n.symbols) /\ n.symbols[i] = Head(a.rest)
         /\ IsLeft(a.kind, n.symbols, i + 1, Tail(a.rest))
         /\ n.cut[i] \in 1..(Len(text) + 1) /\ n.cut[i + 1] \in 1..(Len(text) + 1)
         /\ n.at[i] \in Nat /\ n.at[i + 1] \in Nat
         /\ ReadsWord(n, i) \/ ReadsLeaf(n, i) \/ ReadsValue(n, i) \/ ReadsNode(D, n, i)
<1>1. SoFar(D, n)
  BY DEF IsDerivation
<1>2. Len(n.symbols) \in Nat /\ i \in 1..(Len(n.symbols) + 1)
  BY <1>1 DEF SoFar, IsSeq, IsReading
<1>3. /\ i <= Len(n.symbols) /\ n.symbols[i] = Head(a.rest)
      /\ IsLeft(a.kind, n.symbols, i + 1, Tail(a.rest))
  <2>1. i \in Nat /\ i > 0 /\ IsLeft(a.kind, n.symbols, i, a.rest)
    BY <1>2 DEF IsReading
  <2> QED
    BY <1>2, <2>1, LeftTail
<1>4. i \in 1..Len(n.symbols) /\ i + 1 \in 1..(Len(n.symbols) + 1)
  BY <1>2, <1>3
<1>5. /\ n.cut[i] \in 1..(Len(text) + 1) /\ n.cut[i + 1] \in 1..(Len(text) + 1)
      /\ n.at[i] \in Nat /\ n.at[i + 1] \in Nat
  BY <1>1, <1>2, <1>4 DEF SoFar
<1>6. ReadsWord(n, i) \/ ReadsLeaf(n, i) \/ ReadsValue(n, i) \/ ReadsNode(D, n, i)
  BY <1>1, <1>4 DEF SoFar
<1> QED
  BY <1>3, <1>4, <1>5, <1>6

\* What the running function has read and reads.
LEMMA Here ==
  ASSUME PInv, NEW D, IsDerivation(D), NEW r, NEW node, NEW index,
         FollowsAll(D, r, stack, pos, node, index)
  PROVE  /\ Len(stack) \in Nat /\ Len(stack) > 0 /\ Len(stack) \in 1..Len(stack)
         /\ Top = stack[Len(stack)] /\ IsSeq(stack)
         /\ node[Len(stack)] \in D /\ SoFar(D, node[Len(stack)])
         /\ Produces(node[Len(stack)].tree.kind, node[Len(stack)].symbols)
         /\ IsReading(node[Len(stack)], index[Len(stack)], Top)
         /\ pos = node[Len(stack)].cut[index[Len(stack)]]
         /\ IsSeq(Top.rest) /\ IsSeq(Top.parts)
         /\ Top = [kind |-> Top.kind, rest |-> Top.rest, parts |-> Top.parts]
<1>1. PICK T : StackOK(stack, T) /\ ActivationOK(Top, T)
  BY Running
<1>2. /\ Len(stack) \in Nat /\ Len(stack) > 0 /\ Len(stack) \in 1..Len(stack)
      /\ Top = stack[Len(stack)] /\ IsSeq(stack)
  BY <1>1, TopIs DEF StackOK, Top
<1>3. node[Len(stack)] \in D /\ IsReading(node[Len(stack)], index[Len(stack)], Top)
  BY <1>2 DEF FollowsAll
<1>4. SoFar(D, node[Len(stack)])
      /\ Produces(node[Len(stack)].tree.kind, node[Len(stack)].symbols)
  BY <1>3 DEF IsDerivation
<1>5. pos = node[Len(stack)].cut[index[Len(stack)]]
  BY DEF FollowsAll
<1>6. IsSeq(Top.rest) /\ IsSeq(Top.parts)
  BY <1>1, SeqIs DEF ActivationOK
<1>7. Top = [kind |-> Top.kind, rest |-> Top.rest, parts |-> Top.parts]
  BY <1>1, Zenon DEF ActivationOK
<1> QED
  BY <1>2, <1>3, <1>4, <1>5, <1>6, <1>7

LEMMA PartsGrow ==
  ASSUME NEW whole, NEW parts, NEW n, NEW new, NEW m,
         IsBeginning(parts, whole, n), IsSeq(new), Len(new) = m,
         \A k \in 1..m : new[k] = whole[n + k]
  PROVE  IsBeginning(parts \o new, whole, n + m)
<1> DEFINE U == ElementsOf(parts) \cup ElementsOf(new)
           more == parts \o new
<1>1. /\ parts \in Seq(U) /\ new \in Seq(U) /\ n \in Nat /\ m \in Nat
      /\ Len(parts) = n /\ \A k \in 1..n : parts[k] = whole[k]
  BY SeqOfElements, SeqGrows DEF IsBeginning, IsSeq
<1> HIDE DEF U
<1>2. /\ more \in Seq(U) /\ Len(more) = n + m
      /\ \A k \in 1..(n + m) : more[k] = IF k <= n THEN parts[k] ELSE new[k - n]
  BY <1>1
<1>3. IsSeq(more)
  BY <1>2, SeqIs
<1> HIDE DEF more
<1>4. ASSUME NEW k \in 1..(n + m)
      PROVE  more[k] = whole[k]
  <2>1. CASE k <= n
    BY <1>1, <1>2, <2>1
  <2>2. CASE ~(k <= n)
    <3> DEFINE j == k - n
    <3>1. j \in 1..m /\ n + j = k
      BY <1>1, <2>2
    <3>2. more[k] = new[j]
      BY <1>1, <1>2, <2>2
    <3> HIDE DEF j
    <3> QED
      BY <3>1, <3>2
  <2> QED
    BY <2>1, <2>2
<1>5. IsBeginning(more, whole, n + m)
  BY <1>2, <1>3, <1>4 DEF IsBeginning
<1> QED
  BY <1>5 DEF more

LEMMA Replaced ==
  ASSUME NEW s, IsSeq(s), Len(s) > 0, NEW a
  PROVE  LET r == [s EXCEPT ![Len(s)] = a]
         IN /\ Len(r) = Len(s) /\ r[Len(s)] = a
            /\ \A d \in 1..Len(s) : d # Len(s) => r[d] = s[d]
<1> DEFINE U == ElementsOf(s) \cup {a}
<1>1. Len(s) \in Nat /\ s \in Seq(U) /\ a \in U
  BY SeqOfElements, SeqGrows DEF IsSeq
<1> HIDE DEF U
<1> QED
  BY <1>1

LEMMA ProceedIs ==
  ASSUME PInv, NEW n, NEW form, NEW parts, Proceed(n, form, parts)
  PROVE  stack' = [stack EXCEPT ![Len(stack)] =
                     Later(Top, form \o Tail(Top.rest), Top.parts \o parts)]
<1> DEFINE a == Later(Top, form \o Tail(Top.rest), Top.parts \o parts)
<1>1. PICK T : StackOK(stack, T) /\ ActivationOK(Top, T)
  BY Running
<1>2. /\ Len(stack) \in Nat /\ Top = stack[Len(stack)] /\ IsSeq(stack) /\ Len(stack) > 0
  BY <1>1, TopIs DEF Top, StackOK
<1>3. Top = [kind |-> Top.kind, rest |-> Top.rest, parts |-> Top.parts]
  BY <1>1, Zenon DEF ActivationOK
<1>4. [stack EXCEPT ![Len(stack)].rest = form \o Tail(@),
                    ![Len(stack)].parts = @ \o parts] = [stack EXCEPT ![Len(stack)] = a]
  <2>1. [[Top EXCEPT !.rest = form \o Tail(Top.rest)] EXCEPT !.parts = Top.parts \o parts] = a
    BY <1>3, LaterIs, Zenon
  <2> HIDE DEF a
  <2>2. Len(stack) \in DOMAIN stack
    BY <1>2 DEF IsSeq
  <2> QED
    BY <1>2, <2>1, <2>2
<1> QED
  BY <1>4 DEF Proceed

\* The running function goes on along the node.
LEMMA FollowsOn ==
  ASSUME PInv, NEW D, IsDerivation(D), NEW r, NEW node, NEW index,
         FollowsAll(D, r, stack, pos, node, index),
         NEW k, NEW form, NEW parts, Proceed(k, form, parts), status = "parsing",
         NEW j, GoesTo(node[Len(stack)], index[Len(stack)], j, k, form \o Tail(Top.rest), parts)
  PROVE  Path(D, r)' /\ status' = "parsing"
<1>0. PICK n, i : n = node[Len(stack)] /\ i = index[Len(stack)]
  OBVIOUS
<1> DEFINE m == Len(stack)
           a == Later(Top, form \o Tail(Top.rest), Top.parts \o parts)
           index2 == [d \in 1..m |-> IF d = m THEN j ELSE index[d]]
<1>1. /\ m \in Nat /\ m > 0 /\ m \in 1..m /\ Top = stack[m] /\ IsSeq(stack)
      /\ n \in D /\ IsReading(n, i, Top) /\ GoesTo(n, i, j, k, form \o Tail(Top.rest), parts)
      /\ pos = n.cut[i]
  BY <1>0, Here
<1>2. stack' = [stack EXCEPT ![m] = a] /\ pos' = pos + k /\ status' = "parsing"
  <2>1. stack' = [stack EXCEPT ![m] = a]
    BY ProceedIs
  <2>2. pos' = pos + k /\ status' = "parsing"
    BY DEF Proceed
  <2> QED
    BY <2>1, <2>2
<1>3. a.kind = Top.kind /\ a.rest = form \o Tail(Top.rest) /\ a.parts = Top.parts \o parts
  BY DEF Later
<1>4. IsBeginning(a.parts, n.tree.parts, n.at[i] + Len(parts))
  <2>1. IsBeginning(Top.parts, n.tree.parts, n.at[i])
    BY <1>1 DEF IsReading
  <2>2. /\ IsSeq(parts)
        /\ \A l \in 1..Len(parts) : parts[l] = n.tree.parts[n.at[i] + l]
    BY <1>1 DEF GoesTo
  <2>3. IsBeginning(Top.parts \o parts, n.tree.parts, n.at[i] + Len(parts))
    BY <2>1, <2>2, PartsGrow, Zenon
  <2> QED
    BY <1>3, <2>3, Zenon
<1> HIDE DEF a
<1>5. IsBeginning(a.parts, n.tree.parts, n.at[j])
  BY <1>1, <1>4, Zenon DEF GoesTo
<1>6. IsReading(n, j, a)
  BY <1>1, <1>3, <1>5 DEF IsReading, GoesTo
<1>7. /\ Len(stack') = m /\ stack'[m] = a
      /\ \A d \in 1..m : d # m => stack'[d] = stack[d]
  BY <1>1, <1>2, Replaced
<1>8. \A d \in 1..m : index2[d] = IF d = m THEN j ELSE index[d]
  OBVIOUS
<1> HIDE DEF m, index2
<1>9. \A d \in 1..m : node[d] \in D /\ IsReading(node[d], index2[d], stack'[d])
  BY <1>0, <1>1, <1>6, <1>7, <1>8 DEF FollowsAll, m
<1>10. \A d \in 1..(m - 1) : Calls(node[d], index2[d], stack'[d], node[d + 1])
  <2> SUFFICES ASSUME NEW d \in 1..(m - 1)
               PROVE  Calls(node[d], index2[d], stack'[d], node[d + 1])
    OBVIOUS
  <2>1. d \in 1..m /\ d # m
    BY <1>1
  <2>2. Calls(node[d], index[d], stack[d], node[d + 1])
    BY DEF FollowsAll, m
  <2> QED
    BY <1>7, <1>8, <2>1, <2>2
<1>11. pos' = node[m].cut[index2[m]]
  BY <1>0, <1>1, <1>2, <1>8 DEF m, GoesTo
<1>12. node[1] = r
  BY DEF FollowsAll
<1>13. FollowsAll(D, r, stack', pos', node, index2)
  BY <1>7, <1>9, <1>10, <1>11, <1>12 DEF FollowsAll
<1> QED
  BY <1>2, <1>13 DEF Path

\* and calls the one that reads c.
LEMMA FollowsDown ==
  ASSUME PInv, NEW D, IsDerivation(D), NEW r, NEW node, NEW index,
         FollowsAll(D, r, stack, pos, node, index),
         NEW c \in D, Calls(node[Len(stack)], index[Len(stack)], Top, c),
         NEW a, IsReading(c, 1, a), stack' = Append(stack, a), pos' = pos
  PROVE  Path(D, r)'
<1> DEFINE m == Len(stack)
           node2 == [d \in 1..(m + 1) |-> IF d = m + 1 THEN c ELSE node[d]]
           index2 == [d \in 1..(m + 1) |-> IF d = m + 1 THEN 1 ELSE index[d]]
<1>1. /\ m \in Nat /\ m > 0 /\ m \in 1..m /\ Top = stack[m] /\ IsSeq(stack)
      /\ pos = node[m].cut[index[m]]
  BY Here
<1>2. /\ Len(stack') = m + 1 /\ stack'[m + 1] = a
      /\ \A d \in 1..m : stack'[d] = stack[d]
  <2> DEFINE U == ElementsOf(stack) \cup {a}
  <2>1. stack \in Seq(U) /\ a \in U
    BY <1>1, SeqOfElements, SeqGrows
  <2> HIDE DEF U
  <2> QED
    BY <1>1, <2>1
<1>3. \A d \in 1..(m + 1) : /\ node2[d] = IF d = m + 1 THEN c ELSE node[d]
                            /\ index2[d] = IF d = m + 1 THEN 1 ELSE index[d]
  OBVIOUS
<1>4. From(c) = pos
  BY <1>1 DEF Calls, IsChild
<1> HIDE DEF m, node2, index2
<1>5. ASSUME NEW d \in 1..(m + 1)
      PROVE  node2[d] \in D /\ IsReading(node2[d], index2[d], stack'[d])
  <2>1. CASE d = m + 1
    BY <1>2, <1>3, <2>1
  <2>2. CASE d # m + 1
    <3>1. d \in 1..m
      BY <1>1, <2>2
    <3> QED
      BY <1>2, <1>3, <2>2, <3>1 DEF FollowsAll, m
  <2> QED
    BY <2>1, <2>2
<1>6. ASSUME NEW d \in 1..m
      PROVE  Calls(node2[d], index2[d], stack'[d], node2[d + 1])
  <2>1. d \in 1..m /\ d \in 1..(m + 1) /\ d + 1 \in 1..(m + 1) /\ d # m + 1
    BY <1>1
  <2>2. CASE d = m
    BY <1>1, <1>2, <1>3, <2>1, <2>2 DEF m
  <2>3. CASE d # m
    <3>1. d \in 1..(m - 1) /\ d + 1 # m + 1
      BY <1>1, <2>1, <2>3
    <3>2. Calls(node[d], index[d], stack[d], node[d + 1])
      BY <3>1 DEF FollowsAll, m
    <3> QED
      BY <1>2, <1>3, <2>1, <3>1, <3>2
  <2> QED
    BY <2>2, <2>3
<1>7. pos' = node2[m + 1].cut[index2[m + 1]]
  <2>1. m + 1 \in 1..(m + 1)
    BY <1>1
  <2> QED
    BY <1>3, <1>4, <2>1 DEF From
<1>8. node2[1] = r
  <2>1. 1 \in 1..(m + 1) /\ 1 # m + 1
    BY <1>1
  <2> QED
    BY <1>3, <2>1 DEF FollowsAll
<1>9. FollowsAll(D, r, stack', pos', node2, index2)
  <2>1. \A d \in 1..Len(stack') : node2[d] \in D /\ IsReading(node2[d], index2[d], stack'[d])
    BY <1>2, <1>5
  <2>2. \A d \in 1..(Len(stack') - 1) : Calls(node2[d], index2[d], stack'[d], node2[d + 1])
    <3>1. Len(stack') - 1 = m
      BY <1>1, <1>2
    <3> QED
      BY <1>6, <3>1
  <2>3. pos' = node2[Len(stack')].cut[index2[Len(stack')]]
    BY <1>2, <1>7
  <2> QED
    BY <1>8, <2>1, <2>2, <2>3, Zenon DEF FollowsAll
<1> QED
  BY <1>9 DEF Path

\* m words of a node from symbol i on, and the same words in the text.
AreWords(n, i, m) == \A k \in 1..m : n.symbols[i + k - 1] \notin Parts
WordsAt(n, i, m, p) == \A k \in 1..m : At(p + k - 1) = n.symbols[i + k - 1]

LEMMA WordsInARow ==
  ASSUME NEW D, NEW n, SoFar(D, n), IsSeq(text), NEW i \in Nat, i > 0, NEW m \in Nat,
         i + m <= Len(n.symbols) + 1, AreWords(n, i, m)
  PROVE  WordsAt(n, i, m, n.cut[i])
<1>1. /\ Len(n.symbols) \in Nat /\ Len(text) \in Nat
      /\ n.cut \in [1..(Len(n.symbols) + 1) -> 1..(Len(text) + 1)]
      /\ \A l \in 1..Len(n.symbols) :
           ReadsWord(n, l) \/ ReadsLeaf(n, l) \/ ReadsValue(n, l) \/ ReadsNode(D, n, l)
  BY DEF SoFar, IsSeq
<1>2. ASSUME NEW k \in Nat, k < m
      PROVE  /\ text[n.cut[i + k]] = n.symbols[i + k] /\ n.cut[i + k + 1] = n.cut[i + k] + 1
             /\ n.cut[i + k] \in 1..Len(text)
  <2> DEFINE l == i + k
  <2>1. l \in 1..Len(n.symbols) /\ l + 1 \in 1..(Len(n.symbols) + 1)
    BY <1>1, <1>2
  <2>2. n.symbols[l] \notin Parts
    <3>1. k + 1 \in 1..m /\ i + (k + 1) - 1 = l
      BY <1>2
    <3> QED
      BY <3>1 DEF AreWords
  <2> HIDE DEF l
  <2>3. ReadsWord(n, l)
    BY <1>1, <2>1, <2>2, Reading
  <2>4. text[n.cut[l]] = n.symbols[l] /\ n.cut[l + 1] = n.cut[l] + 1
    BY <2>3 DEF ReadsWord
  <2>5. n.cut[l] \in 1..(Len(text) + 1) /\ n.cut[l + 1] \in 1..(Len(text) + 1)
    <3>1. \A x \in 1..(Len(n.symbols) + 1) : n.cut[x] \in 1..(Len(text) + 1)
      BY <1>1
    <3>2. l \in 1..(Len(n.symbols) + 1)
      BY <2>1
    <3> QED
      BY <2>1, <3>1, <3>2
  <2>6. n.cut[l] \in 1..Len(text)
    BY <1>1, <2>4, <2>5
  <2> QED
    BY <2>4, <2>6 DEF l
<1> DEFINE T == {k \in Nat : k <= m => n.cut[i + k] = n.cut[i] + k}
<1>3. \A k \in Nat : k \in T
  <2>1. 0 \in T
    <3>1. i + 0 = i /\ i \in 1..(Len(n.symbols) + 1)
      BY <1>1
    <3>2. n.cut[i] \in Nat
      BY <1>1, <3>1
    <3> QED
      BY <3>1, <3>2
  <2>2. ASSUME NEW k \in Nat, k \in T PROVE k + 1 \in T
    <3>1. CASE k < m
      <4>1. n.cut[i + k] = n.cut[i] + k
        BY <2>2, <3>1
      <4>2. n.cut[i + k + 1] = n.cut[i + k] + 1 /\ n.cut[i + k] \in 1..Len(text)
        BY <1>2, <3>1, Zenon
      <4>3. n.cut[i] \in Nat
        <5>1. i \in 1..(Len(n.symbols) + 1)
          BY <1>1
        <5> QED
          BY <1>1, <5>1
      <4>4. i + (k + 1) = i + k + 1 /\ n.cut[i] + (k + 1) = n.cut[i] + k + 1
        BY <4>3
      <4> QED
        BY <4>1, <4>2, <4>4
    <3>2. CASE ~(k < m)
      BY <3>2
    <3> QED
      BY <3>1, <3>2
  <2> HIDE DEF T
  <2> QED
    BY <2>1, <2>2, SetInduction
<1> SUFFICES ASSUME NEW k \in 1..m PROVE At(n.cut[i] + k - 1) = n.symbols[i + k - 1]
  BY DEF WordsAt
<1> DEFINE j == k - 1
<1>4. j \in Nat /\ j < m /\ j <= m
  OBVIOUS
<1>5. n.cut[i + j] = n.cut[i] + j
  BY <1>3, <1>4
<1>6. text[n.cut[i + j]] = n.symbols[i + j] /\ n.cut[i + j] \in 1..Len(text)
  <2> HIDE DEF j
  <2> QED
    BY <1>2, <1>4
<1>7. At(n.cut[i + j]) = n.symbols[i + j]
  BY <1>6, Looks
<1>8. i + k - 1 = i + j /\ n.cut[i] + k - 1 = n.cut[i] + j
  <2>1. n.cut[i] \in Nat
    <3>1. i \in 1..(Len(n.symbols) + 1)
      BY <1>1
    <3> QED
      BY <1>1, <3>1
  <2> QED
    BY <2>1
<1> HIDE DEF j
<1> QED
  BY <1>5, <1>7, <1>8

\* The form that is read from here on begins with what is there.
LEMMA OpeningMatches ==
  ASSUME NEW D, NEW n, SoFar(D, n), IsSeq(text), NEW i \in Nat, i > 0, NEW form, IsSeq(form),
         PlainLeft(n.symbols, i, form) \/ EndLeft(n.symbols, i, form),
         pos = n.cut[i]
  PROVE  /\ Matches(Opening(form))
         /\ \A k \in 1..Len(Opening(form)) : At(pos + k - 1) = form[k]
<1> DEFINE m == Len(Opening(form))
<1>1. /\ IsSeq(Opening(form)) /\ m \in Nat /\ m <= Len(form) /\ Len(form) \in Nat
      /\ \A k \in 1..m : Opening(form)[k] = form[k] /\ form[k] \notin Parts
  BY OpeningIs DEF IsSeq
<1>2. Len(n.symbols) \in Nat
  BY DEF SoFar, IsSeq
<1> HIDE DEF m
<1>3. i + m <= Len(n.symbols) + 1 /\ \A k \in 1..m : n.symbols[i + k - 1] = form[k]
  <2>1. CASE PlainLeft(n.symbols, i, form)
    <3>1. /\ i + Len(form) = Len(n.symbols) + 1
          /\ \A k \in 1..Len(form) : form[k] = n.symbols[i + k - 1]
      BY <2>1 DEF PlainLeft
    <3>2. \A k \in 1..m : k \in 1..Len(form)
      BY <1>1
    <3> QED
      BY <1>1, <1>2, <3>1, <3>2
  <2>2. CASE EndLeft(n.symbols, i, form)
    <3>1. PICK e \in DOMAIN Ends[form[Len(form)]] :
            PlainLeft(n.symbols, i + Len(form) - 1, Ends[form[Len(form)]][e])
      BY <2>2 DEF EndLeft
    <3>2. i + Len(form) - 1 <= Len(n.symbols) + 1
      BY <1>1, <1>2, <3>1 DEF PlainLeft, IsSeq
    <3>3. /\ Len(form) > 0 /\ form[Len(form)] \in DOMAIN Ends
          /\ \A k \in 1..(Len(form) - 1) : form[k] = n.symbols[i + k - 1]
      BY <2>2 DEF EndLeft
    <3>4. form[Len(form)] \in Parts
      BY <3>3, SymbolsAre
    <3>5. m # Len(form)
      BY <1>1, <3>3, <3>4
    <3>6. \A k \in 1..m : k \in 1..(Len(form) - 1)
      BY <1>1, <3>5
    <3> QED
      BY <1>1, <1>2, <3>2, <3>3, <3>5, <3>6
  <2> QED
    BY <2>1, <2>2
<1>4. \A k \in 1..m : At(pos + k - 1) = n.symbols[i + k - 1]
  <2>1. AreWords(n, i, m)
    BY <1>1, <1>3 DEF AreWords
  <2>2. WordsAt(n, i, m, pos)
    BY <1>1, <1>3, <2>1, WordsInARow
  <2> QED
    BY <2>2, Zenon DEF WordsAt
<1>5. \A k \in 1..m : At(pos + k - 1) = form[k]
  BY <1>3, <1>4
<1>6. \A k \in 1..m : At(pos + k - 1) = Opening(form)[k]
  BY <1>1, <1>5
<1> QED
  BY <1>5, <1>6, Zenon DEF Matches, m

\* The running function and the symbol its node has next.
IsNext(D, n, i) ==
  /\ n \in D /\ IsReading(n, i, Top) /\ pos = n.cut[i] /\ SoFar(D, n)
  /\ i \in 1..Len(n.symbols) /\ n.symbols[i] = Symbol
  /\ IsLeft(n.tree.kind, n.symbols, i + 1, <<>> \o Tail(Top.rest))
  /\ n.cut[i + 1] \in 1..(Len(text) + 1) /\ n.at[i] \in Nat /\ n.at[i + 1] \in Nat
  /\ i + 1 \in 1..(Len(n.symbols) + 1)
  /\ Symbol \notin Parts => ReadsWord(n, i)
  /\ Symbol \in DOMAIN Leaves => ReadsLeaf(n, i)
  /\ Symbol = "value" => ReadsValue(n, i)
  /\ Symbol \in DOMAIN Called \cup DOMAIN Lists => ReadsNode(D, n, i)

LEMMA NextIs ==
  ASSUME PInv, NEW D, IsDerivation(D), NEW r, NEW node, NEW index,
         FollowsAll(D, r, stack, pos, node, index),
         Top.rest # <<>>, Symbol \notin DOMAIN Ends \cup {"begin", "more"}
  PROVE  IsNext(D, node[Len(stack)], index[Len(stack)])
<1>1. PICK n, i : n = node[Len(stack)] /\ i = index[Len(stack)]
  OBVIOUS
<1>2. n \in D /\ IsReading(n, i, Top) /\ pos = n.cut[i] /\ IsSeq(Top.rest) /\ SoFar(D, n)
  BY <1>1, Here
<1>3. /\ i \in 1..Len(n.symbols) /\ n.symbols[i] = Symbol
      /\ IsLeft(Top.kind, n.symbols, i + 1, Tail(Top.rest))
      /\ n.cut[i] \in 1..(Len(text) + 1) /\ n.cut[i + 1] \in 1..(Len(text) + 1)
      /\ n.at[i] \in Nat /\ n.at[i + 1] \in Nat
      /\ ReadsWord(n, i) \/ ReadsLeaf(n, i) \/ ReadsValue(n, i) \/ ReadsNode(D, n, i)
  BY <1>2, NextSymbol, Zenon DEF Symbol
<1>4. /\ Symbol \notin Parts => ReadsWord(n, i)
      /\ Symbol \in DOMAIN Leaves => ReadsLeaf(n, i)
      /\ Symbol = "value" => ReadsValue(n, i)
      /\ Symbol \in DOMAIN Called \cup DOMAIN Lists => ReadsNode(D, n, i)
  BY <1>3, Reading, Zenon
<1>5. IsLeft(n.tree.kind, n.symbols, i + 1, <<>> \o Tail(Top.rest))
  <2>1. <<>> \o Tail(Top.rest) = Tail(Top.rest)
    BY <1>2, TailOf, ConcatEmpty
  <2> QED
    BY <1>2, <1>3, <2>1, Zenon DEF IsReading
<1>6. i + 1 \in 1..(Len(n.symbols) + 1)
  BY <1>2, <1>3 DEF SoFar, IsSeq
<1>7. IsNext(D, n, i)
  BY <1>2, <1>3, <1>4, <1>5, <1>6, Zenon DEF IsNext
<1> QED
  BY <1>1, <1>7

\* No parts more.
LEMMA GoesToPlain ==
  ASSUME NEW n, NEW i, NEW j \in 1..(Len(n.symbols) + 1), NEW k, NEW rest,
         IsLeft(n.tree.kind, n.symbols, j, rest),
         n.at[i] \in Nat, n.at[j] = n.at[i], n.cut[j] = n.cut[i] + k
  PROVE  GoesTo(n, i, j, k, rest, <<>>)
<1>1. IsSeq(<<>>) /\ n.at[j] = n.at[i] + Len(<<>>) /\ Len(<<>>) = 0
  BY DEF IsSeq
<1>2. \A l \in 1..Len(<<>>) : <<>>[l] = n.tree.parts[n.at[i] + l]
  BY <1>1
<1> QED
  BY <1>1, <1>2, Zenon DEF GoesTo

LEMMA LiteralFollows ==
  ASSUME PInv, Literal, NEW D, IsDerivation(D), NEW r, Path(D, r)
  PROVE  Path(D, r)' /\ status' = "parsing"
<1>1. PICK node, index : FollowsAll(D, r, stack, pos, node, index)
  BY DEF Path
<1>2. status = "parsing" /\ Top.rest # <<>> /\ Symbol \notin Parts
  BY DEF Literal
<1>3. PICK n, i : n = node[Len(stack)] /\ i = index[Len(stack)]
  OBVIOUS
<1>4. IsNext(D, n, i)
  <2>1. Symbol \notin DOMAIN Ends \cup {"begin", "more"}
    BY <1>2, SymbolsAre
  <2> QED
    BY <1>1, <1>2, <1>3, <2>1, NextIs
<1>5. ReadsWord(n, i)
  BY <1>2, <1>4 DEF IsNext
<1>6. text[pos] = Symbol /\ n.cut[i + 1] = n.cut[i] + 1 /\ n.at[i + 1] = n.at[i]
  BY <1>4, <1>5 DEF ReadsWord, IsNext
<1>7. pos \in 1..Len(text) /\ IsSeq(text)
  BY <1>4, <1>6 DEF IsNext, PInv, InText, IsSeq
<1>8. At(pos) = Symbol
  BY <1>6, <1>7, Looks
<1>9. Proceed(1, <<>>, <<>>)
  BY <1>8, Zenon DEF Literal
<1>10. GoesTo(n, i, i + 1, 1, <<>> \o Tail(Top.rest), <<>>)
  BY <1>4, <1>6, GoesToPlain, Zenon DEF IsNext
<1> QED
  BY <1>1, <1>2, <1>3, <1>9, <1>10, FollowsOn

LEMMA LeafFollows ==
  ASSUME PInv, Leaf, NEW D, IsDerivation(D), NEW r, Path(D, r)
  PROVE  Path(D, r)' /\ status' = "parsing"
<1>1. PICK node, index : FollowsAll(D, r, stack, pos, node, index)
  BY DEF Path
<1>2. status = "parsing" /\ Top.rest # <<>> /\ Symbol \in DOMAIN Leaves
  BY Zenon DEF Leaf, Expects
<1>3. PICK n, i : n = node[Len(stack)] /\ i = index[Len(stack)]
  OBVIOUS
<1>4. IsNext(D, n, i)
  <2>1. Symbol \notin DOMAIN Ends \cup {"begin", "more"}
    BY <1>2 DEF Leaves, Ends
  <2> QED
    BY <1>1, <1>2, <1>3, <2>1, NextIs
<1>5. ReadsLeaf(n, i)
  BY <1>2, <1>4 DEF IsNext
<1>6. /\ text[pos] \in Leaves[Symbol] /\ n.cut[i + 1] = n.cut[i] + 1
      /\ n.at[i + 1] = n.at[i] + 1 /\ n.tree.parts[n.at[i] + 1] = Word(text[pos])
  BY <1>4, <1>5 DEF ReadsLeaf, IsNext
<1>7. pos \in 1..Len(text) /\ IsSeq(text)
  BY <1>4, <1>6 DEF IsNext, PInv, InText, IsSeq
<1>8. At(pos) = text[pos]
  BY <1>7, Looks
<1>9. Proceed(1, <<>>, <<Word(At(pos))>>)
  BY <1>6, <1>8, Zenon DEF Leaf
<1>10. GoesTo(n, i, i + 1, 1, <<>> \o Tail(Top.rest), <<Word(At(pos))>>)
  <2>1. PICK w : w = Word(At(pos))
    OBVIOUS
  <2>2. IsSeq(<<w>>) /\ Len(<<w>>) = 1 /\ <<w>>[1] = w
    BY DEF IsSeq
  <2>3. n.at[i + 1] = n.at[i] + Len(<<w>>)
    BY <1>6, <2>2
  <2>4. \A l \in 1..Len(<<w>>) : <<w>>[l] = n.tree.parts[n.at[i] + l]
    <3>1. n.tree.parts[n.at[i] + 1] = w
      BY <1>6, <1>8, <2>1
    <3>2. \A l \in 1..Len(<<w>>) : l = 1
      BY <2>2
    <3> QED
      BY <2>2, <3>1, <3>2, Zenon
  <2>5. GoesTo(n, i, i + 1, 1, <<>> \o Tail(Top.rest), <<w>>)
    BY <1>4, <1>6, <2>2, <2>3, <2>4, Zenon DEF GoesTo, IsNext
  <2> QED
    BY <2>1, <2>5, Zenon
<1> QED
  BY <1>1, <1>2, <1>3, <1>9, <1>10, FollowsOn

LEMMA ConstantFollows ==
  ASSUME PInv, Constant, NEW D, IsDerivation(D), NEW r, Path(D, r)
  PROVE  Path(D, r)' /\ status' = "parsing"
<1>1. PICK node, index : FollowsAll(D, r, stack, pos, node, index)
  BY DEF Path
<1>2. status = "parsing" /\ Top.rest # <<>> /\ Symbol = "value"
  BY Zenon DEF Constant, Expects
<1>3. PICK n, i : n = node[Len(stack)] /\ i = index[Len(stack)]
  OBVIOUS
<1>4. IsNext(D, n, i)
  <2>1. Symbol \notin DOMAIN Ends \cup {"begin", "more"}
    BY <1>2 DEF Ends
  <2> QED
    BY <1>1, <1>2, <1>3, <2>1, NextIs
<1>5. PICK to : to = n.cut[i + 1]
  OBVIOUS
<1>6. /\ IsValue(pos, to) /\ Len(Value(pos, to)) = n.at[i + 1] - n.at[i]
      /\ \A k \in 1..Len(Value(pos, to)) :
           n.tree.parts[n.at[i] + k] = Value(pos, to)[k]
  BY <1>2, <1>4, <1>5, Zenon DEF ReadsValue, IsNext
\* The symbol after the value is ).
<1>7. Tail(Top.rest) = <<")">>
  <2>1. PICK T : ActivationOK(Top, T)
    BY Running
  <2>2. Top.kind = "Constant"
    BY <1>2, <2>1, FirstSymbol DEF Symbol
  <2>3. Top.rest \in VectorRests("Constant")
    <3>1. "Constant" \in DOMAIN Elements
      BY ListsAre
    <3> QED
      BY <2>1, <2>2, <3>1 DEF ActivationOK, InStep
  <2>4. Top.rest \in {<<"Constant(", "value=", "value", ")">>, <<"value=", "value", ")">>,
                      <<"value", ")">>, <<")">>, <<>>}
    BY <2>3 DEF VectorRests, generate_constant
  <2>5. /\ Head(<<"Constant(", "value=", "value", ")">>) = "Constant("
        /\ Head(<<"value=", "value", ")">>) = "value=" /\ Head(<<")">>) = ")"
        /\ "Constant(" # "value" /\ "value=" # "value" /\ ")" # "value"
        /\ Tail(<<"value", ")">>) = <<")">>
    OBVIOUS
  <2> QED
    BY <1>2, <2>4, <2>5, Zenon DEF Symbol
<1>8. to \in pos..Len(text) /\ text[to] = ")" /\ pos \in 1..Len(text) /\ IsSeq(text)
  <2>1. IsSeq(text) /\ Len(text) \in Nat /\ pos \in Nat /\ pos > 0 /\ IsSeq(n.symbols)
    BY <1>4 DEF PInv, InText, IsSeq, IsNext, SoFar
  <2>2. IsLeft(n.tree.kind, n.symbols, i + 1, <<")">>)
    <3>1. <<>> \o <<")">> = <<")">>
      OBVIOUS
    <3> QED
      BY <1>4, <1>7, <3>1, Zenon DEF IsNext
  <2>3. /\ i + 1 <= Len(n.symbols) /\ n.symbols[i + 1] = ")"
    <3>1. Head(<<")">>) = ")" /\ <<")">> # <<>>
      OBVIOUS
    <3>2. PICK rest, k : rest = <<")">> /\ k = i + 1
      OBVIOUS
    <3>3. rest # <<>> /\ Head(rest) = ")" /\ Head(rest) \notin DOMAIN Ends \cup {"begin", "more"}
      BY <3>1, <3>2 DEF Ends
    <3>4. k \in Nat /\ k > 0 /\ Len(n.symbols) \in Nat
      BY <1>4, <2>1, <3>2 DEF IsNext, IsSeq
    <3>5. IsLeft(n.tree.kind, n.symbols, k, rest)
      BY <2>2, <3>2
    <3>6. k <= Len(n.symbols) /\ n.symbols[k] = Head(rest)
      BY <3>3, <3>4, <3>5, LeftTail
    <3> QED
      BY <3>2, <3>3, <3>6
  <2>4. i + 1 \in 1..Len(n.symbols) /\ i + 2 \in 1..(Len(n.symbols) + 1)
    BY <1>4, <2>1, <2>3 DEF IsNext, IsSeq
  <2>5. ReadsWord(n, i + 1)
    <3>1. \/ ReadsWord(n, i + 1) \/ ReadsLeaf(n, i + 1) \/ ReadsValue(n, i + 1)
          \/ ReadsNode(D, n, i + 1)
      BY <1>4, <2>4 DEF IsNext, SoFar
    <3>2. ")" \notin Parts
      BY LiteralsAre DEF Literals
    <3> QED
      BY <2>3, <3>1, <3>2, Reading
  <2>6. text[to] = ")" /\ n.cut[i + 2] = to + 1
    <3>1. i + 1 + 1 = i + 2
      BY <1>4 DEF IsNext
    <3> QED
      BY <1>5, <2>3, <2>5, <3>1 DEF ReadsWord
  <2>7. to \in 1..Len(text)
    <3>1. n.cut[i + 2] \in 1..(Len(text) + 1)
      BY <1>4, <2>4 DEF IsNext, SoFar
    <3>2. to \in 1..(Len(text) + 1)
      BY <1>4, <1>5 DEF IsNext
    <3> QED
      BY <2>1, <2>6, <3>1, <3>2
  <2>8. pos <= to
    BY <1>6, <2>1, <2>7 DEF IsValue, IsFloat, IsInt
  <2> QED
    BY <2>1, <2>6, <2>7, <2>8
<1>9. to > pos /\ ConstantLength = to - pos
  BY <1>6, <1>8, ConstantExact
<1>10. PICK k : k = to - pos /\ k \in Nat /\ k > 0 /\ ConstantLength = k /\ pos + k = to
  <2>1. Len(text) \in Nat
    BY <1>8 DEF IsSeq
  <2>2. PICK k : k = to - pos
    OBVIOUS
  <2>3. k \in Nat /\ k > 0 /\ pos + k = to
    BY <1>8, <1>9, <2>1, <2>2
  <2> QED
    BY <1>9, <2>2, <2>3, Zenon
<1>11. PICK new : new = Value(pos, pos + k)
  OBVIOUS
<1>12. Proceed(k, <<>>, new)
  BY <1>10, <1>11, Zenon DEF Constant
<1>13. IsSeq(new) /\ Len(new) \in Nat
  <2>1. IsPieces(k)
    BY <1>10, ConstantAt DEF PInv
  <2> QED
    BY <1>11, <2>1, ValueIs DEF PInv
<1>14. GoesTo(n, i, i + 1, k, <<>> \o Tail(Top.rest), new)
  <2>1. n.at[i + 1] = n.at[i] + Len(new)
    <3>1. Len(new) = n.at[i + 1] - n.at[i]
      BY <1>6, <1>10, <1>11
    <3>2. n.at[i] \in Nat /\ n.at[i + 1] \in Nat
      BY <1>4 DEF IsNext, SoFar, IsSeq
    <3> QED
      BY <1>13, <3>1, <3>2
  <2>2. \A l \in 1..Len(new) : new[l] = n.tree.parts[n.at[i] + l]
    BY <1>6, <1>10, <1>11
  <2>3. n.cut[i + 1] = n.cut[i] + k
    <3>1. to = pos + k
      BY <1>8, <1>10
    <3> QED
      BY <1>4, <1>5, <3>1, Zenon DEF IsNext
  <2> QED
    BY <1>4, <1>13, <2>1, <2>2, <2>3, Zenon DEF GoesTo, IsNext
<1> QED
  BY <1>1, <1>2, <1>3, <1>12, <1>14, FollowsOn

\* The kinds of nodes, of lists and the symbols that call a function.
LEMMA KindsApart ==
  /\ \A s \in DOMAIN Called : s \notin DOMAIN Lists
  /\ \A s \in DOMAIN Called : \A kind \in DOMAIN Called[s] :
       kind \notin DOMAIN Lists /\ kind # "Module"
  /\ \A s \in DOMAIN Lists : s # "Module"
BY CalledKinds DEF Lists

LEMMA OpeningWord ==
  ASSUME NEW symbol \in DOMAIN Called, NEW kind \in DOMAIN Called[symbol],
         Matches(Opening(Called[symbol][kind])), pos \in Nat
  PROVE  At(pos) = FirstWord[kind]
<1> DEFINE form == Called[symbol][kind]
<1>1. IsSeq(form) /\ Len(form) > 1 /\ form[1] = FirstWord[kind] /\ kind \in DOMAIN FirstWord
  BY FormsBegin DEF Begins
<1>2. FirstWord[kind] \notin Parts
  BY <1>1, FirstWords, LiteralsAre
<1>3. Matches(Opening(form))
  OBVIOUS
<1> HIDE DEF form
<1> DEFINE w == Opening(form)
<1>4. /\ IsSeq(w) /\ \A k \in 1..Len(w) : w[k] = form[k]
      /\ \/ Len(w) = Len(form)
         \/ form[Len(w) + 1] \in Parts
  BY <1>1, OpeningIs
<1> HIDE DEF w
<1>5. Len(w) > 0
  <2>1. Len(w) \in Nat
    BY <1>4 DEF IsSeq
  <2>2. Len(w) = 0 => form[Len(w) + 1] = form[1]
    OBVIOUS
  <2> QED
    BY <1>1, <1>2, <1>4, <2>1, <2>2
<1>6. 1 \in 1..Len(w) /\ pos + 1 - 1 = pos
  BY <1>4, <1>5 DEF IsSeq
<1>7. At(pos + 1 - 1) = w[1]
  BY <1>3, <1>6, Zenon DEF Matches, w
<1> QED
  BY <1>1, <1>4, <1>6, <1>7

\* The form of a node that has been read where the parser is.
LEMMA ChildForm ==
  ASSUME PInv, NEW D, IsDerivation(D), NEW c \in D, From(c) = pos,
         NEW symbol \in DOMAIN Called, c.tree.kind \in DOMAIN Called[symbol]
  PROVE  /\ IsSeq(Called[symbol][c.tree.kind])
         /\ \/ PlainLeft(c.symbols, 1, Called[symbol][c.tree.kind])
            \/ EndLeft(c.symbols, 1, Called[symbol][c.tree.kind])
         /\ Matches(Opening(Called[symbol][c.tree.kind]))
         /\ At(pos) = FirstWord[c.tree.kind]
<1>1. PICK kind, form : kind = c.tree.kind /\ form = Called[symbol][kind]
  OBVIOUS
<1>2. kind \in DOMAIN Called[symbol] /\ IsSeq(form) /\ IsForm(kind, form)
  BY <1>1, FormsBegin DEF Begins, IsForm
<1>3. SoFar(D, c) /\ Produces(kind, c.symbols)
  BY <1>1 DEF IsDerivation
<1>4. kind \notin DOMAIN Lists
  BY <1>2, KindsApart
<1>5. PICK f : /\ IsForm(kind, f)
               /\ (c.symbols = f /\ Last(f) \notin DOMAIN Ends) \/ IsEnded(f, c.symbols)
  BY <1>3, <1>4 DEF Produces
<1>6. f = form
  BY <1>2, <1>5, OneForm
<1>7. PlainLeft(c.symbols, 1, form) \/ EndLeft(c.symbols, 1, form)
  BY <1>2, <1>5, <1>6, FormLeft
<1>8. IsSeq(text) /\ pos \in Nat
  BY DEF PInv, InText, IsSeq
<1>9. Matches(Opening(form))
  BY <1>2, <1>3, <1>7, <1>8, OpeningMatches DEF From
<1>10. At(pos) = FirstWord[kind]
  BY <1>1, <1>2, <1>8, <1>9, OpeningWord
<1> QED
  BY <1>1, <1>2, <1>7, <1>9, <1>10

\* A function as it begins to read a node.
LEMMA FollowsNew ==
  ASSUME NEW D, NEW c, SoFar(D, c), NEW kind, kind = c.tree.kind, NEW form,
         IsLeft(kind, c.symbols, 1, form)
  PROVE  IsReading(c, 1, Activation(kind, form))
<1>1. PICK a : a = Activation(kind, form)
  OBVIOUS
<1>2. a.kind = kind /\ a.rest = form /\ a.parts = <<>>
  BY <1>1 DEF Activation
<1>3. 1 \in 1..(Len(c.symbols) + 1) /\ c.at[1] = 0
  BY DEF SoFar, IsSeq
<1>4. IsBeginning(<<>>, c.tree.parts, 0)
  BY DEF IsBeginning, IsSeq
<1>5. IsReading(c, 1, a)
  BY <1>2, <1>3, <1>4 DEF IsReading
<1> QED
  BY <1>1, <1>5

LEMMA CallFollows ==
  ASSUME PInv, Call, NEW D, IsDerivation(D), NEW r, Path(D, r)
  PROVE  Path(D, r)' /\ status' = "parsing"
<1>1. PICK node, index : FollowsAll(D, r, stack, pos, node, index)
  BY DEF Path
<1>2. status = "parsing" /\ Top.rest # <<>> /\ Symbol \in DOMAIN Called
  BY Zenon DEF Call, Expects
<1>3. PICK n, i : n = node[Len(stack)] /\ i = index[Len(stack)]
  OBVIOUS
<1>4. IsNext(D, n, i)
  <2>1. Symbol \notin DOMAIN Ends \cup {"begin", "more"}
    BY <1>2 DEF Called, Ends
  <2> QED
    BY <1>1, <1>2, <1>3, <2>1, NextIs
<1>5. PICK c \in D : IsChild(n, i, c)
  BY <1>2, <1>4, Zenon DEF ReadsNode, IsNext
<1>6. PICK kind : kind = c.tree.kind
  OBVIOUS
<1>7. kind \in DOMAIN Called[Symbol] /\ From(c) = pos
  <2>1. Answers(kind, Symbol) /\ From(c) = pos
    BY <1>4, <1>5, <1>6 DEF IsChild, IsNext
  <2> QED
    BY <1>2, <2>1, KindsApart DEF Answers
<1>8. PICK form : form = Called[Symbol][kind]
  OBVIOUS
<1>9. /\ PlainLeft(c.symbols, 1, form) \/ EndLeft(c.symbols, 1, form)
      /\ Matches(Opening(form)) /\ At(pos) = FirstWord[kind]
  BY <1>2, <1>6, <1>7, <1>8, ChildForm
<1> DEFINE forms == Called[Symbol]
           chosen == {k \in DOMAIN forms : Matches(Opening(forms[k]))}
<1>10. kind \in chosen
  BY <1>7, <1>8, <1>9
<1>11. ASSUME NEW k \in chosen PROVE k = kind
  <2>1. At(pos) = FirstWord[k]
    <3>1. pos \in Nat
      BY DEF PInv, InText
    <3> QED
      BY <1>2, <3>1, OpeningWord
  <2>2. k \in DOMAIN FirstWord /\ kind \in DOMAIN FirstWord
    BY <1>2, <1>7, FormsBegin
  <2> QED
    BY <1>9, <2>1, <2>2, FirstWords
<1>12. stack' = Append(stack, Activation(kind, form)) /\ pos' = pos /\ status' = "parsing"
  <2>1. PICK k \in chosen : stack' = Append(stack, Activation(k, forms[k]))
    BY <1>10, Zenon DEF Call
  <2>2. pos' = pos /\ status' = status
    BY <1>10, Zenon DEF Call
  <2>3. k = kind
    BY <1>11
  <2> HIDE DEF chosen
  <2> QED
    BY <1>2, <1>8, <2>1, <2>2, <2>3
<1> HIDE DEF forms, chosen
<1>13. IsReading(c, 1, Activation(kind, form))
  <2>1. SoFar(D, c)
    BY DEF IsDerivation
  <2> QED
    BY <1>6, <1>9, <2>1, FollowsNew DEF IsLeft
<1>14. Calls(n, i, Top, c)
  BY <1>2, <1>5 DEF Calls, Symbol
<1>15. Path(D, r)'
  BY <1>1, <1>3, <1>12, <1>13, <1>14, FollowsDown
<1> QED
  BY <1>12, <1>15

LEMMA VectorFollows ==
  ASSUME PInv, Vector, NEW D, IsDerivation(D), NEW r, Path(D, r)
  PROVE  Path(D, r)' /\ status' = "parsing"
<1>1. PICK node, index : FollowsAll(D, r, stack, pos, node, index)
  BY DEF Path
<1>2. /\ status = "parsing" /\ Top.rest # <<>> /\ Symbol \in DOMAIN Lists
      /\ stack' = Append(stack, Activation(Symbol, <<"[", "begin">>))
      /\ pos' = pos /\ status' = "parsing"
  BY Zenon DEF Vector, Expects
<1>3. PICK n, i : n = node[Len(stack)] /\ i = index[Len(stack)]
  OBVIOUS
<1>4. IsNext(D, n, i)
  <2>1. Symbol \notin DOMAIN Ends \cup {"begin", "more"}
    BY <1>2 DEF Lists, Ends
  <2> QED
    BY <1>1, <1>2, <1>3, <2>1, NextIs
<1>5. PICK c \in D : IsChild(n, i, c)
  BY <1>2, <1>4, Zenon DEF ReadsNode, IsNext
<1>6. c.tree.kind = Symbol
  <2>1. Answers(c.tree.kind, Symbol)
    BY <1>4, <1>5 DEF IsChild, IsNext
  <2> QED
    BY <1>2, <2>1, KindsApart DEF Answers
<1>7. SoFar(D, c) /\ Produces(Symbol, c.symbols)
  BY <1>6 DEF IsDerivation
<1>8. \A form : ~IsForm(Symbol, form)
  BY <1>2, KindsApart DEF IsForm
<1>9. PICK m \in Nat : IsList(Lists[Symbol], c.symbols, m)
  BY <1>7, <1>8, Zenon DEF Produces
<1>10. ListLeft(Symbol, c.symbols, 1, <<"[", "begin">>)
  BY <1>2, <1>9 DEF ListLeft
<1>11. IsReading(c, 1, Activation(Symbol, <<"[", "begin">>))
  BY <1>6, <1>7, <1>10, FollowsNew DEF IsLeft
<1>12. Calls(n, i, Top, c)
  BY <1>2, <1>5 DEF Calls, Symbol
<1>13. Path(D, r)'
  BY <1>1, <1>2, <1>3, <1>11, <1>12, FollowsDown
<1> QED
  BY <1>2, <1>13

LEMMA OpeningReaches ==
  ASSUME NEW form, IsSeq(form), NEW k \in 1..Len(form), \A l \in 1..k : form[l] \notin Parts
  PROVE  k \in 1..Len(Opening(form))
<1> DEFINE m == Len(Opening(form))
<1>1. m \in Nat /\ Len(form) \in Nat /\ (m = Len(form) \/ form[m + 1] \in Parts)
  BY OpeningIs DEF IsSeq
<1> HIDE DEF m
<1>2. m < k => m + 1 \in 1..k
  BY <1>1
<1>3. k <= m
  BY <1>1, <1>2
<1> QED
  BY <1>1, <1>3 DEF m

\* What is there tells the ends of a form from each other.
Differ(f, g) ==
  /\ IsSeq(f) /\ IsSeq(g)
  /\ \E k \in 1..Len(f) : /\ k \in 1..Len(g) /\ f[k] # g[k]
                          /\ \A l \in 1..k : f[l] \notin Parts /\ g[l] \notin Parts

LEMMA EndsDiffer ==
  \A symbol \in DOMAIN Ends : /\ DOMAIN Ends[symbol] = {1, 2} /\ Len(Ends[symbol]) = 2
                              /\ Differ(Ends[symbol][1], Ends[symbol][2])
<1>1. /\ DOMAIN Ends["returned"] = {1, 2} /\ Len(Ends["returned"]) = 2
      /\ DOMAIN Ends["optionalVars"] = {1, 2} /\ Len(Ends["optionalVars"]) = 2
      /\ DOMAIN Ends["endOfDef"] = {1, 2} /\ Len(Ends["endOfDef"]) = 2
  BY DEF Ends
<1>2. Comma # ")" /\ ")" # "value="
  BY Zenon DEF Comma
<1>3. Differ(Ends["returned"][1], Ends["returned"][2])
  <2> DEFINE f == Ends["returned"][1]
             g == Ends["returned"][2]
  <2>1. IsSeq(f) /\ Len(f) = 1 /\ f[1] = ")" /\ f[1] \in Literals
    BY DEF Ends, IsSeq, Literals
  <2>2. IsSeq(g) /\ Len(g) = 3 /\ g[1] = "value=" /\ g[1] \in Literals
    BY DEF Ends, IsSeq, Literals
  <2> HIDE DEF f, g
  <2>3. \A l \in 1..1 : f[l] \notin Parts /\ g[l] \notin Parts
    <3>1. \A l \in 1..1 : l = 1
      OBVIOUS
    <3> QED
      BY <2>1, <2>2, <3>1, LiteralsAre
  <2>4. 1 \in 1..Len(f) /\ 1 \in 1..Len(g) /\ f[1] # g[1]
    BY <1>2, <2>1, <2>2
  <2>5. Differ(f, g)
    BY <2>1, <2>2, <2>3, <2>4, Zenon DEF Differ
  <2> QED
    BY <2>5 DEF f, g
<1>4. Differ(Ends["optionalVars"][1], Ends["optionalVars"][2])
  <2> DEFINE f == Ends["optionalVars"][1]
             g == Ends["optionalVars"][2]
  <2>1. IsSeq(f) /\ Len(f) = 1 /\ f[1] = ")" /\ f[1] \in Literals
    BY DEF Ends, IsSeq, Literals
  <2>2. IsSeq(g) /\ Len(g) = 4 /\ g[1] = Comma /\ g[1] \in Literals
    BY DEF Ends, IsSeq, Literals, Comma
  <2> HIDE DEF f, g
  <2>3. \A l \in 1..1 : f[l] \notin Parts /\ g[l] \notin Parts
    <3>1. \A l \in 1..1 : l = 1
      OBVIOUS
    <3> QED
      BY <2>1, <2>2, <3>1, LiteralsAre
  <2>4. 1 \in 1..Len(f) /\ 1 \in 1..Len(g) /\ f[1] # g[1]
    BY <1>2, <2>1, <2>2
  <2>5. Differ(f, g)
    BY <2>1, <2>2, <2>3, <2>4, Zenon DEF Differ
  <2> QED
    BY <2>5 DEF f, g
<1>5. Differ(Ends["endOfDef"][1], Ends["endOfDef"][2])
  <2> DEFINE f == Ends["endOfDef"][1]
             g == Ends["endOfDef"][2]
  <2>1. /\ IsSeq(f) /\ Len(f) = 5 /\ f[5] = ")"
        /\ f[1] \in Literals /\ f[2] \in Literals /\ f[3] \in Literals
        /\ f[4] \in Literals /\ f[5] \in Literals
    BY DEF Ends, IsSeq, Literals, Comma
  <2>2. /\ IsSeq(g) /\ Len(g) = 9 /\ g[5] = Comma
        /\ g[1] \in Literals /\ g[2] \in Literals /\ g[3] \in Literals
        /\ g[4] \in Literals /\ g[5] \in Literals
    BY DEF Ends, IsSeq, Literals, Comma
  <2> HIDE DEF f, g
  <2>3. \A l \in 1..5 : f[l] \notin Parts /\ g[l] \notin Parts
    <3>1. \A l \in 1..5 : l = 1 \/ l = 2 \/ l = 3 \/ l = 4 \/ l = 5
      OBVIOUS
    <3> QED
      BY <2>1, <2>2, <3>1, LiteralsAre
  <2>4. 5 \in 1..Len(f) /\ 5 \in 1..Len(g) /\ f[5] # g[5]
    BY <1>2, <2>1, <2>2
  <2>5. Differ(f, g)
    BY <2>1, <2>2, <2>3, <2>4, Zenon DEF Differ
  <2> QED
    BY <2>5 DEF f, g
<1> QED
  BY <1>1, <1>3, <1>4, <1>5, SymbolsAre

LEMMA OnlyOneMatches ==
  ASSUME NEW f, NEW g, Differ(f, g), Matches(Opening(f)), Matches(Opening(g))
  PROVE  FALSE
<1>1. PICK k \in 1..Len(f) : /\ k \in 1..Len(g) /\ f[k] # g[k]
                             /\ \A l \in 1..k : f[l] \notin Parts /\ g[l] \notin Parts
  BY DEF Differ
<1>2. IsSeq(f) /\ IsSeq(g)
  BY DEF Differ
<1>3. k \in 1..Len(Opening(f)) /\ k \in 1..Len(Opening(g))
  BY <1>1, <1>2, OpeningReaches
<1>4. At(pos + k - 1) = Opening(f)[k] /\ At(pos + k - 1) = Opening(g)[k]
  BY <1>3, Zenon DEF Matches
<1>5. Opening(f)[k] = f[k] /\ Opening(g)[k] = g[k]
  BY <1>2, <1>3, OpeningIs
<1> QED
  BY <1>1, <1>4, <1>5

\* Where a choice is to be made, the node has one of the ends.
LEMMA EndIs ==
  ASSUME NEW D, NEW n, NEW i, SoFar(D, n), NEW a, IsReading(n, i, a), IsSeq(a.rest),
         a.rest # <<>>, Head(a.rest) \in DOMAIN Ends
  PROVE  /\ Tail(a.rest) = <<>>
         /\ \E e \in DOMAIN Ends[Head(a.rest)] :
              PlainLeft(n.symbols, i, Ends[Head(a.rest)][e])
<1>1. PICK rest : rest = a.rest
  OBVIOUS
<1>2. /\ IsSeq(rest) /\ rest # <<>> /\ Len(rest) \in Nat /\ Len(rest) > 0
      /\ Head(rest) = rest[1] /\ IsSeq(Tail(rest)) /\ Len(Tail(rest)) = Len(rest) - 1
      /\ rest[1] \in DOMAIN Ends
  BY <1>1, TailOf DEF IsSeq
<1>3. Len(n.symbols) \in Nat /\ i \in Nat /\ i > 0 /\ i \in 1..(Len(n.symbols) + 1)
  BY DEF SoFar, IsSeq, IsReading
<1>4. i <= Len(n.symbols) => n.symbols[i] \notin DOMAIN Ends
  <2> SUFFICES ASSUME i <= Len(n.symbols) PROVE n.symbols[i] \notin DOMAIN Ends
    OBVIOUS
  <2>1. ReadsWord(n, i) \/ ReadsLeaf(n, i) \/ ReadsValue(n, i) \/ ReadsNode(D, n, i)
    BY <1>3 DEF SoFar
  <2> QED
    BY <2>1, Reading
<1>5. ~PlainLeft(n.symbols, i, rest)
  BY <1>2, <1>3, <1>4, PlainLeftTail
<1>6. ~ListLeft(a.kind, n.symbols, i, rest)
  <2> SUFFICES ASSUME ListLeft(a.kind, n.symbols, i, rest) PROVE FALSE
    OBVIOUS
  <2>1. a.kind \in DOMAIN Lists
    BY DEF ListLeft
  <2>2. rest[1] \in {"[", "begin", Lists[a.kind], "more"}
    BY DEF ListLeft
  <2>3. Lists[a.kind] \in Places
    BY <2>1, ListsAre
  <2> QED
    BY <1>2, <2>2, <2>3, SymbolsAre
<1>7. EndLeft(n.symbols, i, rest)
  BY <1>1, <1>5, <1>6 DEF IsReading, IsLeft
<1>8. PICK e \in DOMAIN Ends[rest[Len(rest)]] :
        PlainLeft(n.symbols, i + Len(rest) - 1, Ends[rest[Len(rest)]][e])
  BY <1>7 DEF EndLeft
<1>9. Len(rest) = 1
  <2> SUFFICES ASSUME Len(rest) > 1 PROVE FALSE
    BY <1>2
  <2>1. i <= Len(n.symbols)
    BY <1>2, <1>3, <1>8 DEF PlainLeft, IsSeq
  <2>2. \A k \in 1..(Len(rest) - 1) : rest[k] = n.symbols[i + k - 1]
    BY <1>7 DEF EndLeft
  <2>3. 1 \in 1..(Len(rest) - 1) /\ i + 1 - 1 = i
    BY <1>2, <1>3
  <2>4. rest[1] = n.symbols[i]
    BY <2>2, <2>3
  <2> QED
    BY <1>2, <1>4, <2>1, <2>4
<1>10. i + Len(rest) - 1 = i
  BY <1>3, <1>9
<1>11. PlainLeft(n.symbols, i, Ends[Head(rest)][e]) /\ e \in DOMAIN Ends[Head(rest)]
  BY <1>2, <1>8, <1>9, <1>10
<1>12. Tail(rest) = <<>>
  <2>1. IsSeq(Tail(rest)) /\ Len(Tail(rest)) = 0
    BY <1>2, <1>9
  <2> QED
    BY <2>1, EmptyIs, Zenon
<1> QED
  BY <1>1, <1>11, <1>12

LEMMA EndFollows ==
  ASSUME PInv, End, NEW D, IsDerivation(D), NEW r, Path(D, r)
  PROVE  Path(D, r)' /\ status' = "parsing"
<1>1. PICK node, index : FollowsAll(D, r, stack, pos, node, index)
  BY DEF Path
<1>2. status = "parsing" /\ Top.rest # <<>> /\ Symbol \in DOMAIN Ends
  BY Zenon DEF End, Expects
<1>3. PICK n, i : n = node[Len(stack)] /\ i = index[Len(stack)]
  OBVIOUS
<1>4. n \in D /\ IsReading(n, i, Top) /\ pos = n.cut[i] /\ IsSeq(Top.rest) /\ SoFar(D, n)
  BY <1>1, <1>3, Here
<1>5. Tail(Top.rest) = <<>>
  BY <1>2, <1>4, EndIs DEF Symbol
<1>6. PICK e \in DOMAIN Ends[Symbol] : PlainLeft(n.symbols, i, Ends[Symbol][e])
  BY <1>2, <1>4, EndIs DEF Symbol
<1>7. PICK form : form = Ends[Symbol][e]
  OBVIOUS
<1>8. IsSeq(form)
  BY <1>2, <1>7, EndsAreForms
<1>9. /\ IsSeq(text) /\ Len(text) \in Nat /\ Len(n.symbols) \in Nat /\ i \in Nat /\ i > 0
      /\ i \in 1..(Len(n.symbols) + 1)
  BY <1>4 DEF PInv, InText, IsSeq, SoFar, IsReading
<1>10. Matches(Opening(form))
  BY <1>4, <1>6, <1>7, <1>8, <1>9, OpeningMatches
<1>11. ASSUME NEW f \in DOMAIN Ends[Symbol], f # e
       PROVE  ~Matches(Opening(Ends[Symbol][f]))
  <2>1. /\ DOMAIN Ends[Symbol] = {1, 2} /\ Differ(Ends[Symbol][1], Ends[Symbol][2])
    BY <1>2, EndsDiffer
  <2> QED
    BY <1>7, <1>10, <1>11, <2>1, OnlyOneMatches
<1> DEFINE Fitting == {k \in 1..Len(Ends[Symbol]) : Matches(Opening(Ends[Symbol][k]))}
           m == SelectInSeq(Ends[Symbol], LAMBDA f : Matches(Opening(f)))
<1>12. m = e /\ e # 0
  <2>1. m = IF Fitting # {} THEN Min(Fitting) ELSE 0
    BY DEF SelectInSeq
  <2>2. DOMAIN Ends[Symbol] = {1, 2} /\ Len(Ends[Symbol]) = 2 /\ e \in {1, 2}
    BY <1>2, <1>6, EndsDiffer
  <2>3. e \in Fitting /\ \A k \in Fitting : k = e
    BY <1>7, <1>10, <1>11, <2>2
  <2> HIDE DEF Fitting, m
  <2>4. Min(Fitting) = e
    <3>1. Fitting = {e}
      BY <2>3
    <3> QED
      BY <2>2, <3>1 DEF Min
  <2> QED
    BY <2>1, <2>2, <2>3, <2>4
<1>13. Proceed(0, form, <<>>)
  <2>1. Proceed(0, Ends[Symbol][m], <<>>)
    BY <1>12, Zenon DEF End
  <2> QED
    BY <1>7, <1>12, <2>1, Zenon
<1>14. GoesTo(n, i, i, 0, form \o Tail(Top.rest), <<>>)
  <2>1. form \o Tail(Top.rest) = form
    BY <1>5, <1>8, ConcatEmpty
  <2>2. IsLeft(n.tree.kind, n.symbols, i, form \o Tail(Top.rest))
    BY <1>6, <1>7, <2>1, Zenon DEF IsLeft
  <2>3. n.cut[i] \in Nat /\ n.at[i] \in Nat
    BY <1>4, <1>9 DEF SoFar
  <2>4. n.cut[i] = n.cut[i] + 0
    BY <2>3
  <2> QED
    BY <1>9, <2>2, <2>3, <2>4, GoesToPlain
<1> QED
  BY <1>1, <1>2, <1>3, <1>13, <1>14, FollowsOn

\* The node is a list of m elements, and it is decided whether there is another one.
Decides(n, i, a, m) ==
  /\ IsList(Lists[a.kind], n.symbols, m)
  /\ Head(a.rest) = "begin" => i = 2
  /\ Head(a.rest) = "more" => \E k \in 1..m : i = 2 * k + 1

\* Where a vector decides, the node is a list.
LEMMA ListIs ==
  ASSUME NEW D, NEW n, NEW i, SoFar(D, n), NEW a, IsReading(n, i, a), IsSeq(a.rest),
         a.rest # <<>>, Head(a.rest) \in {"begin", "more"}
  PROVE  /\ a.kind \in DOMAIN Lists /\ Tail(a.rest) = <<>>
         /\ \E m \in Nat : Decides(n, i, a, m)
<1>1. PICK rest : rest = a.rest
  OBVIOUS
<1>2. /\ IsSeq(rest) /\ rest # <<>> /\ Len(rest) \in Nat /\ Len(rest) > 0
      /\ Head(rest) = rest[1] /\ rest[1] \in {"begin", "more"}
  BY <1>1, TailOf DEF IsSeq
<1>3. Len(n.symbols) \in Nat /\ i \in Nat /\ i > 0 /\ i \in 1..(Len(n.symbols) + 1)
  BY DEF SoFar, IsSeq, IsReading
<1>4. i <= Len(n.symbols) => n.symbols[i] \notin {"begin", "more"}
  <2> SUFFICES ASSUME i <= Len(n.symbols) PROVE n.symbols[i] \notin {"begin", "more"}
    OBVIOUS
  <2>1. ReadsWord(n, i) \/ ReadsLeaf(n, i) \/ ReadsValue(n, i) \/ ReadsNode(D, n, i)
    BY <1>3 DEF SoFar
  <2> QED
    BY <2>1, Reading
<1>5. ~PlainLeft(n.symbols, i, rest)
  BY <1>2, <1>3, <1>4, PlainLeftTail
<1>6. ~EndLeft(n.symbols, i, rest)
  <2>1. Head(rest) \notin DOMAIN Ends
    BY <1>2, SymbolsAre
  <2> QED
    BY <1>2, <1>3, <1>4, <2>1, EndLeftTail
<1>7. ListLeft(a.kind, n.symbols, i, rest)
  BY <1>1, <1>5, <1>6 DEF IsReading, IsLeft
<1>8. a.kind \in DOMAIN Lists /\ Lists[a.kind] \notin {"begin", "more"}
  <2>1. a.kind \in DOMAIN Lists
    BY <1>7 DEF ListLeft
  <2>2. Lists[a.kind] \in Places
    BY <2>1, ListsAre
  <2> QED
    BY <2>1, <2>2, SymbolsAre
<1>9. PICK m \in Nat :
        /\ IsList(Lists[a.kind], n.symbols, m)
        /\ \/ i = 1 /\ rest = <<"[", "begin">>
           \/ i = 2 /\ rest = <<"begin">>
           \/ rest = <<Lists[a.kind], "more">> /\ \E k \in 1..m : i = 2 * k
           \/ rest = <<"more">> /\ \E k \in 1..m : i = 2 * k + 1
  BY <1>7 DEF ListLeft
<1>10. \/ i = 2 /\ rest = <<"begin">>
       \/ rest = <<"more">> /\ \E k \in 1..m : i = 2 * k + 1
  BY <1>2, <1>8, <1>9
<1>11. Tail(rest) = <<>>
  <2>1. Tail(<<"begin">>) = <<>> /\ Tail(<<"more">>) = <<>>
    OBVIOUS
  <2> QED
    BY <1>10, <2>1, Zenon
<1>12. /\ Head(rest) = "begin" => i = 2
       /\ Head(rest) = "more" => \E k \in 1..m : i = 2 * k + 1
  BY <1>10
<1>13. Decides(n, i, a, m)
  BY <1>1, <1>9, <1>12 DEF Decides
<1> QED
  BY <1>1, <1>8, <1>11, <1>13

\* An element of a list does not begin with ].
LEMMA ElementBegins ==
  ASSUME PInv, NEW D, IsDerivation(D), NEW n \in D, NEW i \in 1..Len(n.symbols),
         pos = n.cut[i], NEW kind \in DOMAIN Lists, n.symbols[i] = Lists[kind]
  PROVE  At(pos) # "]"
<1>1. SoFar(D, n)
  BY DEF IsDerivation
<1>2. ReadsWord(n, i) \/ ReadsLeaf(n, i) \/ ReadsValue(n, i) \/ ReadsNode(D, n, i)
  BY <1>1 DEF SoFar
<1>3. PICK s : s = n.symbols[i]
  OBVIOUS
<1>4. s \in DOMAIN Called \/ s = "cmpop"
  BY <1>3, CalledKinds DEF Lists
<1>5. CASE s \in DOMAIN Called
  <2>1. PICK c \in D : IsChild(n, i, c)
    <3>1. ReadsNode(D, n, i)
      BY <1>2, <1>3, <1>5, Reading
    <3> QED
      BY <3>1 DEF ReadsNode
  <2>2. c.tree.kind \in DOMAIN Called[s] /\ From(c) = pos
    <3>1. Answers(c.tree.kind, s) /\ From(c) = pos
      BY <1>3, <2>1 DEF IsChild
    <3> QED
      BY <1>5, <3>1, KindsApart DEF Answers
  <2>3. At(pos) = FirstWord[c.tree.kind]
    BY <1>5, <2>2, ChildForm
  <2>4. c.tree.kind \in DOMAIN FirstWord
    BY <1>5, <2>2, FormsBegin
  <2> QED
    BY <2>3, <2>4, FirstWords
<1>6. CASE s = "cmpop"
  <2>1. ReadsLeaf(n, i)
    <3>1. s \in DOMAIN Leaves
      BY <1>6 DEF Leaves
    <3> QED
      BY <1>2, <1>3, <3>1, Reading
  <2>2. text[pos] \in Leaves["cmpop"] /\ n.cut[i + 1] = pos + 1
    BY <1>3, <1>6, <2>1 DEF ReadsLeaf
  <2>3. pos \in 1..Len(text) /\ IsSeq(text)
    <3>1. /\ IsSeq(n.symbols)
          /\ n.cut \in [1..(Len(n.symbols) + 1) -> 1..(Len(text) + 1)]
      BY <1>1 DEF SoFar
    <3>2. i + 1 \in 1..(Len(n.symbols) + 1)
      BY <3>1 DEF IsSeq
    <3>3. n.cut[i + 1] \in 1..(Len(text) + 1)
      BY <3>1, <3>2
    <3> QED
      BY <2>2, <3>3 DEF PInv, InText, IsSeq
  <2>4. At(pos) \in Leaves["cmpop"]
    BY <2>2, <2>3, Looks
  <2>5. Leaves["cmpop"] \subseteq CmpOpKind
    BY DEF Leaves, OfClass
  <2>6. "]" \notin CmpOpKind
    BY DEF CmpOpKind
  <2> QED
    BY <2>4, <2>5, <2>6
<1> QED
  BY <1>4, <1>5, <1>6, <1>6

LEMMA BeginFollows ==
  ASSUME PInv, Begin, NEW D, IsDerivation(D), NEW r, Path(D, r)
  PROVE  Path(D, r)' /\ status' = "parsing"
<1>1. PICK node, index : FollowsAll(D, r, stack, pos, node, index)
  BY DEF Path
<1>2. status = "parsing" /\ Top.rest # <<>> /\ Symbol = "begin"
  BY Zenon DEF Begin, Expects
<1>3. PICK n, i : n = node[Len(stack)] /\ i = index[Len(stack)]
  OBVIOUS
<1>4. n \in D /\ IsReading(n, i, Top) /\ pos = n.cut[i] /\ IsSeq(Top.rest) /\ SoFar(D, n)
  BY <1>1, <1>3, Here
<1>5. /\ Top.kind \in DOMAIN Lists /\ Tail(Top.rest) = <<>> /\ Top.kind = n.tree.kind
      /\ \E m \in Nat : Decides(n, i, Top, m)
  <2>1. PICK a : a = Top
    OBVIOUS
  <2>2. a.rest # <<>> /\ Head(a.rest) \in {"begin", "more"}
    BY <1>2, <2>1 DEF Symbol
  <2>3. a.kind \in DOMAIN Lists /\ Tail(a.rest) = <<>> /\ \E m \in Nat : Decides(n, i, a, m)
    BY <1>4, <2>1, <2>2, ListIs
  <2>4. a.kind = n.tree.kind
    BY <1>4, <2>1 DEF IsReading
  <2> QED
    BY <2>1, <2>3, <2>4
<1>6. PICK m \in Nat : IsList(Lists[Top.kind], n.symbols, m) /\ i = 2
  BY <1>2, <1>5 DEF Decides, Symbol
<1>7. PICK element : element = Lists[Top.kind]
  OBVIOUS
<1>8. /\ Len(n.symbols) = (IF m = 0 THEN 2 ELSE 2 * m + 1)
      /\ n.symbols[Len(n.symbols)] = "]"
      /\ \A k \in 1..m : n.symbols[2 * k] = element
  BY <1>6, <1>7 DEF IsList
<1>9. 2 \in 1..Len(n.symbols) /\ 3 \in 1..(Len(n.symbols) + 1)
  BY <1>8
<1>10. /\ n.cut[2] \in 1..(Len(text) + 1) /\ n.cut[3] \in 1..(Len(text) + 1)
       /\ n.at[2] \in Nat /\ n.at[3] \in Nat
       /\ ReadsWord(n, 2) \/ ReadsLeaf(n, 2) \/ ReadsValue(n, 2) \/ ReadsNode(D, n, 2)
       /\ IsSeq(text)
  <2>1. 2 \in 1..(Len(n.symbols) + 1)
    BY <1>9
  <2> QED
    BY <1>4, <1>9, <2>1 DEF SoFar, PInv, InText
<1>11. CASE m = 0
  <2>1. Len(n.symbols) = 2 /\ n.symbols[2] = "]"
    BY <1>8, <1>11
  <2>2. ReadsWord(n, 2)
    <3>1. "]" \notin Parts
      BY LiteralsAre DEF Literals
    <3> QED
      BY <1>10, <2>1, <3>1, Reading
  <2>3. text[pos] = "]" /\ n.cut[3] = n.cut[2] + 1 /\ n.at[3] = n.at[2]
    BY <1>4, <1>5, <1>6, <2>1, <2>2 DEF ReadsWord
  <2>4. At(pos) = "]"
    <3>1. pos \in 1..Len(text)
      BY <1>4, <1>5, <1>6, <1>10, <2>3 DEF IsSeq
    <3> QED
      BY <1>10, <2>3, <3>1, Looks
  <2>5. Proceed(1, <<>>, <<>>)
    BY <2>4, Zenon DEF Begin
  <2>6. IsLeft(n.tree.kind, n.symbols, 3, <<>> \o Tail(Top.rest))
    <3>1. <<>> \o Tail(Top.rest) = <<>>
      BY <1>5
    <3>2. PlainLeft(n.symbols, 3, <<>>)
      BY <2>1 DEF PlainLeft, IsSeq
    <3> QED
      BY <3>1, <3>2, Zenon DEF IsLeft
  <2>7. GoesTo(n, i, 3, 1, <<>> \o Tail(Top.rest), <<>>)
    BY <1>5, <1>6, <1>9, <1>10, <2>3, <2>6, GoesToPlain
  <2> QED
    BY <1>1, <1>2, <1>3, <2>5, <2>7, FollowsOn
<1>12. CASE m # 0
  <2>1. n.symbols[2] = element
    <3>1. 1 \in 1..m /\ 2 * 1 = 2
      BY <1>12
    <3> QED
      BY <1>8, <3>1
  <2>2. At(pos) # "]"
    BY <1>4, <1>5, <1>6, <1>7, <1>9, <2>1, ElementBegins
  <2>3. Proceed(0, <<element, "more">>, <<>>)
    BY <1>7, <2>2, Zenon DEF Begin
  <2>4. IsLeft(n.tree.kind, n.symbols, 2, <<element, "more">> \o Tail(Top.rest))
    <3>1. <<element, "more">> \o Tail(Top.rest) = <<element, "more">>
      <4>1. IsSeq(<<element, "more">>)
        BY DEF IsSeq
      <4> QED
        BY <1>5, <4>1, ConcatEmpty, Zenon
    <3>2. ListLeft(n.tree.kind, n.symbols, 2, <<element, "more">>)
      <4>1. 1 \in 1..m /\ 2 = 2 * 1
        BY <1>12
      <4> QED
        BY <1>5, <1>6, <1>7, <4>1 DEF ListLeft
    <3> QED
      BY <3>1, <3>2, Zenon DEF IsLeft
  <2>5. GoesTo(n, i, 2, 0, <<element, "more">> \o Tail(Top.rest), <<>>)
    <3>1. n.cut[2] = n.cut[2] + 0 /\ 2 \in 1..(Len(n.symbols) + 1)
      BY <1>9, <1>10
    <3> QED
      BY <1>5, <1>6, <1>10, <2>4, <3>1, GoesToPlain
  <2> QED
    BY <1>1, <1>2, <1>3, <2>3, <2>5, FollowsOn
<1> QED
  BY <1>11, <1>12

LEMMA MoreFollows ==
  ASSUME PInv, More, NEW D, IsDerivation(D), NEW r, Path(D, r)
  PROVE  Path(D, r)' /\ status' = "parsing"
<1>1. PICK node, index : FollowsAll(D, r, stack, pos, node, index)
  BY DEF Path
<1>2. status = "parsing" /\ Top.rest # <<>> /\ Symbol = "more"
  BY Zenon DEF More, Expects
<1>3. PICK n, i : n = node[Len(stack)] /\ i = index[Len(stack)]
  OBVIOUS
<1>4. n \in D /\ IsReading(n, i, Top) /\ pos = n.cut[i] /\ IsSeq(Top.rest) /\ SoFar(D, n)
  BY <1>1, <1>3, Here
<1>5. /\ Top.kind \in DOMAIN Lists /\ Tail(Top.rest) = <<>> /\ Top.kind = n.tree.kind
      /\ \E m \in Nat : Decides(n, i, Top, m)
  <2>1. PICK a : a = Top
    OBVIOUS
  <2>2. a.rest # <<>> /\ Head(a.rest) \in {"begin", "more"}
    BY <1>2, <2>1 DEF Symbol
  <2>3. a.kind \in DOMAIN Lists /\ Tail(a.rest) = <<>> /\ \E m \in Nat : Decides(n, i, a, m)
    BY <1>4, <2>1, <2>2, ListIs
  <2>4. a.kind = n.tree.kind
    BY <1>4, <2>1 DEF IsReading
  <2> QED
    BY <2>1, <2>3, <2>4
<1>6. PICK m \in Nat : IsList(Lists[Top.kind], n.symbols, m) /\ \E k \in 1..m : i = 2 * k + 1
  BY <1>2, <1>5 DEF Decides, Symbol
<1>7. PICK element, k : element = Lists[Top.kind] /\ k \in 1..m /\ i = 2 * k + 1
  BY <1>6
<1>8. /\ Len(n.symbols) = 2 * m + 1 /\ n.symbols[Len(n.symbols)] = "]"
      /\ \A l \in 1..(m - 1) : n.symbols[2 * l + 1] = Comma
  BY <1>6, <1>7 DEF IsList
<1>9. i \in Nat /\ i > 0 /\ i \in 1..Len(n.symbols) /\ i + 1 \in 1..(Len(n.symbols) + 1)
  BY <1>7, <1>8
<1>10. /\ n.cut[i] \in 1..(Len(text) + 1) /\ n.cut[i + 1] \in 1..(Len(text) + 1)
       /\ n.at[i] \in Nat /\ n.at[i + 1] \in Nat
       /\ ReadsWord(n, i) \/ ReadsLeaf(n, i) \/ ReadsValue(n, i) \/ ReadsNode(D, n, i)
       /\ IsSeq(text)
  <2>1. i \in 1..(Len(n.symbols) + 1)
    BY <1>8, <1>9
  <2> QED
    BY <1>4, <1>9, <2>1 DEF SoFar, PInv, InText
<1>11. k < m => n.symbols[i] = Comma
  BY <1>7, <1>8
<1>12. k = m => n.symbols[i] = "]"
  BY <1>7, <1>8
<1>13. /\ text[pos] = n.symbols[i] /\ n.cut[i + 1] = n.cut[i] + 1 /\ n.at[i + 1] = n.at[i]
       /\ At(pos) = n.symbols[i]
  <2>1. n.symbols[i] \notin Parts
    <3>1. "]" \notin Parts /\ Comma \notin Parts
      BY LiteralsAre DEF Literals
    <3> QED
      BY <1>6, <1>7, <1>11, <1>12, <3>1
  <2>2. ReadsWord(n, i)
    BY <1>10, <2>1, Reading
  <2>3. text[pos] = n.symbols[i] /\ n.cut[i + 1] = n.cut[i] + 1 /\ n.at[i + 1] = n.at[i]
    BY <1>4, <2>2 DEF ReadsWord
  <2>4. pos \in 1..Len(text)
    BY <1>4, <1>10, <2>3 DEF IsSeq
  <2> QED
    BY <1>10, <2>3, <2>4, Looks
<1>14. CASE k < m
  <2>1. Proceed(1, <<element, "more">>, <<>>)
    <3>1. At(pos) = Comma
      BY <1>11, <1>13, <1>14
    <3> QED
      BY <1>7, <3>1, Zenon DEF More, Comma
  <2>2. IsLeft(n.tree.kind, n.symbols, i + 1, <<element, "more">> \o Tail(Top.rest))
    <3>1. <<element, "more">> \o Tail(Top.rest) = <<element, "more">>
      <4>1. IsSeq(<<element, "more">>)
        BY DEF IsSeq
      <4> QED
        BY <1>5, <4>1, ConcatEmpty, Zenon
    <3>2. ListLeft(n.tree.kind, n.symbols, i + 1, <<element, "more">>)
      <4>1. k + 1 \in 1..m /\ i + 1 = 2 * (k + 1)
        BY <1>7, <1>14
      <4> QED
        BY <1>5, <1>6, <1>7, <4>1 DEF ListLeft
    <3> QED
      BY <3>1, <3>2, Zenon DEF IsLeft
  <2>3. GoesTo(n, i, i + 1, 1, <<element, "more">> \o Tail(Top.rest), <<>>)
    BY <1>9, <1>10, <1>13, <2>2, GoesToPlain
  <2> QED
    BY <1>1, <1>2, <1>3, <2>1, <2>3, FollowsOn
<1>15. CASE k = m
  <2>1. Proceed(0, <<"]">>, <<>>)
    <3>1. At(pos) = "]" /\ "]" # Comma
      BY <1>12, <1>13, <1>15, Zenon DEF Comma
    <3> QED
      BY <3>1, Zenon DEF More, Comma
  <2>2. IsLeft(n.tree.kind, n.symbols, i, <<"]">> \o Tail(Top.rest))
    <3>1. <<"]">> \o Tail(Top.rest) = <<"]">>
      <4>1. IsSeq(<<"]">>)
        BY DEF IsSeq
      <4> QED
        BY <1>5, <4>1, ConcatEmpty, Zenon
    <3>2. PlainLeft(n.symbols, i, <<"]">>)
      BY <1>7, <1>8, <1>12, <1>15 DEF PlainLeft, IsSeq
    <3> QED
      BY <3>1, <3>2, Zenon DEF IsLeft
  <2>3. GoesTo(n, i, i, 0, <<"]">> \o Tail(Top.rest), <<>>)
    <3>1. n.cut[i] = n.cut[i] + 0 /\ i \in 1..(Len(n.symbols) + 1)
      BY <1>8, <1>9, <1>10
    <3> QED
      BY <1>10, <2>2, <3>1, GoesToPlain
  <2> QED
    BY <1>1, <1>2, <1>3, <2>1, <2>3, FollowsOn
<1> QED
  BY <1>7, <1>14, <1>15

\* A function that is over has read the whole node.
LEMMA WholeNode ==
  ASSUME NEW D, NEW n, SoFar(D, n), NEW i, NEW a, IsReading(n, i, a), a.rest = <<>>
  PROVE  Node(a.kind, a.parts) = n.tree /\ n.cut[i] = To(n)
<1>1. IsLeft(a.kind, n.symbols, i, <<>>) /\ i \in 1..(Len(n.symbols) + 1)
  BY DEF IsReading
<1>2. Len(n.symbols) \in Nat /\ IsSeq(n.tree.parts)
  BY DEF SoFar, IsSeq
<1>3. ~EndLeft(n.symbols, i, <<>>)
  <2>1. Len(<<>>) = 0
    OBVIOUS
  <2> QED
    BY <2>1 DEF EndLeft
<1>4. ~ListLeft(a.kind, n.symbols, i, <<>>)
  <2>1. /\ <<>> # <<"[", "begin">> /\ <<>> # <<"begin">> /\ <<>> # <<"more">>
        /\ <<>> # <<Lists[a.kind], "more">>
    OBVIOUS
  <2> QED
    BY <2>1, Zenon DEF ListLeft
<1>5. i = Len(n.symbols) + 1
  <2>1. PlainLeft(n.symbols, i, <<>>)
    BY <1>1, <1>3, <1>4, Zenon DEF IsLeft
  <2> QED
    BY <1>1, <1>2, <2>1 DEF PlainLeft
<1>6. a.parts = n.tree.parts
  <2>1. /\ IsSeq(a.parts) /\ Len(a.parts) = Len(n.tree.parts)
        /\ \A k \in 1..Len(a.parts) : a.parts[k] = n.tree.parts[k]
    BY <1>5 DEF IsReading, IsBeginning, SoFar
  <2> QED
    BY <1>2, <2>1 DEF IsSeq
<1>7. n.tree = Node(n.tree.kind, n.tree.parts) /\ a.kind = n.tree.kind
  BY DEF SoFar, IsReading
<1> QED
  BY <1>5, <1>6, <1>7 DEF To

LEMMA ReturnFollows ==
  ASSUME PInv, Return, NEW D, IsDerivation(D), NEW r, Path(D, r)
  PROVE  Path(D, r)' /\ status' = "parsing"
<1>1. PICK node, index : FollowsAll(D, r, stack, pos, node, index)
  BY DEF Path
<1>2. Top.rest = <<>> /\ pos' = pos /\ status' = "parsing"
  BY Zenon DEF Return
<1>3. PICK caller, l : caller = Front(stack) /\ l = Len(caller)
  OBVIOUS
<1>4. PICK b, a : b = Last(caller) /\ a = Later(b, Tail(b.rest), Append(b.parts, Result))
  OBVIOUS
<1>5. /\ l \in Nat /\ l > 0 /\ Len(stack) = l + 1 /\ IsSeq(caller)
      /\ \A d \in 1..l : caller[d] = stack[d]
      /\ stack' = [caller EXCEPT ![l] = a]
  BY <1>3, <1>4, ReturnIs, Zenon
<1>6. l \in 1..l /\ l \in 1..(l + 1) /\ b = stack[l]
  BY <1>3, <1>4, <1>5 DEF Last
<1>7. PICK n, i, c : n = node[l] /\ i = index[l] /\ c = node[l + 1]
  OBVIOUS
<1>8. n \in D /\ IsReading(n, i, b) /\ Calls(n, i, b, c) /\ SoFar(D, n)
  <2>1. n \in D /\ IsReading(n, i, b)
    BY <1>1, <1>5, <1>6, <1>7 DEF FollowsAll
  <2>2. l \in 1..(Len(stack) - 1)
    BY <1>5
  <2>3. Calls(n, i, b, c)
    BY <1>1, <1>6, <1>7, <2>2 DEF FollowsAll
  <2> QED
    BY <2>1, <2>3 DEF IsDerivation
\* What it has read is the node its caller waits for.
<1>9. Result = c.tree /\ pos = To(c)
  <2>1. PICK j : j = index[l + 1]
    OBVIOUS
  <2>2. SoFar(D, c) /\ IsReading(c, j, Top) /\ pos = c.cut[j]
    BY <1>1, <1>5, <1>7, <2>1, Here
  <2> QED
    BY <1>2, <2>2, WholeNode DEF Result
<1>10. /\ i \in 1..Len(n.symbols) /\ n.symbols[i] = Head(b.rest)
       /\ IsLeft(b.kind, n.symbols, i + 1, Tail(b.rest))
       /\ n.at[i] \in Nat
       /\ ReadsWord(n, i) \/ ReadsLeaf(n, i) \/ ReadsValue(n, i) \/ ReadsNode(D, n, i)
       /\ Head(b.rest) \in DOMAIN Called \cup DOMAIN Lists
  <2>1. b.rest # <<>> /\ Head(b.rest) \in DOMAIN Called \cup DOMAIN Lists
    BY <1>8 DEF Calls
  <2>2. Head(b.rest) \notin DOMAIN Ends \cup {"begin", "more"}
    BY <2>1 DEF Called, Lists, Ends
  <2> QED
    BY <1>8, <2>1, <2>2, NextSymbol
<1>11. n.at[i + 1] = n.at[i] + 1
  <2>1. ReadsNode(D, n, i)
    BY <1>10, Reading
  <2> QED
    BY <2>1 DEF ReadsNode
<1>12. c.tree = n.tree.parts[n.at[i] + 1] /\ To(c) = n.cut[i + 1]
  BY <1>8 DEF Calls, IsChild
<1>13. a.kind = b.kind /\ a.rest = Tail(b.rest) /\ a.parts = Append(b.parts, c.tree)
  BY <1>4, <1>9 DEF Later
<1>14. IsBeginning(a.parts, n.tree.parts, n.at[i + 1])
  <2>1. PICK t : t = c.tree
    OBVIOUS
  <2>2. IsSeq(<<t>>) /\ Len(<<t>>) = 1 /\ <<t>>[1] = t
    BY DEF IsSeq
  <2>3. \A k \in 1..1 : <<t>>[k] = n.tree.parts[n.at[i] + k]
    <3>1. \A k \in 1..1 : k = 1
      OBVIOUS
    <3> QED
      BY <1>12, <2>1, <2>2, <3>1, Zenon
  <2>4. IsBeginning(b.parts, n.tree.parts, n.at[i])
    BY <1>8 DEF IsReading
  <2>5. IsBeginning(b.parts \o <<t>>, n.tree.parts, n.at[i] + 1)
    BY <2>2, <2>3, <2>4, PartsGrow, Zenon
  <2>6. b.parts \o <<t>> = Append(b.parts, t)
    <3>1. b.parts \in Seq(ElementsOf(b.parts))
      BY <2>4, SeqOfElements DEF IsBeginning
    <3> QED
      BY <3>1
  <2> QED
    BY <1>11, <1>13, <2>1, <2>5, <2>6
<1>15. IsReading(n, i + 1, a)
  <2>1. i + 1 \in 1..(Len(n.symbols) + 1)
    BY <1>8, <1>10 DEF SoFar, IsSeq
  <2>2. a.kind = n.tree.kind
    BY <1>8, <1>13 DEF IsReading
  <2> QED
    BY <1>10, <1>13, <1>14, <2>1, <2>2 DEF IsReading
<1>16. /\ Len(stack') = l /\ stack'[l] = a
       /\ \A d \in 1..l : d # l => stack'[d] = stack[d]
  BY <1>3, <1>5, Replaced
<1>17. PICK index2 : index2 = [d \in 1..l |-> IF d = l THEN i + 1 ELSE index[d]]
  OBVIOUS
<1>18. \A d \in 1..l : index2[d] = IF d = l THEN i + 1 ELSE index[d]
  BY <1>17
<1>19. ASSUME NEW d \in 1..l PROVE node[d] \in D /\ IsReading(node[d], index2[d], stack'[d])
  <2>1. CASE d = l
    BY <1>6, <1>7, <1>8, <1>15, <1>16, <1>18, <2>1
  <2>2. CASE d # l
    <3>1. d \in 1..Len(stack)
      BY <1>5
    <3>2. node[d] \in D /\ IsReading(node[d], index[d], stack[d])
      BY <1>1, <3>1 DEF FollowsAll
    <3> QED
      BY <1>16, <1>18, <2>2, <3>2
  <2> QED
    BY <2>1, <2>2
<1>20. ASSUME NEW d \in 1..(l - 1) PROVE Calls(node[d], index2[d], stack'[d], node[d + 1])
  <2>1. d \in 1..l /\ d # l /\ d \in 1..(Len(stack) - 1)
    BY <1>5
  <2>2. Calls(node[d], index[d], stack[d], node[d + 1])
    BY <1>1, <2>1 DEF FollowsAll
  <2> QED
    BY <1>16, <1>18, <2>1, <2>2
<1>21. pos' = node[l].cut[index2[l]]
  BY <1>2, <1>6, <1>7, <1>9, <1>12, <1>18
<1>22. node[1] = r
  BY <1>1 DEF FollowsAll
<1>23. FollowsAll(D, r, stack', pos', node, index2)
  BY <1>16, <1>19, <1>20, <1>21, <1>22 DEF FollowsAll
<1> QED
  BY <1>2, <1>23 DEF Path

LEMMA FinishFollows ==
  ASSUME PInv, Finish, NEW D, NEW r, IsRoot(D, r), Path(D, r)
  PROVE  status' = "accepted" /\ module' = r.tree
<1>1. PICK node, index : FollowsAll(D, r, stack, pos, node, index)
  BY DEF Path
<1>2. Top.rest = <<>> /\ Len(stack) = 1
  BY DEF Finish
<1>3. PICK i : i = index[1]
  OBVIOUS
<1>4. node[1] = r
  BY <1>1 DEF FollowsAll
<1>5. SoFar(D, r) /\ IsReading(r, i, Top) /\ pos = r.cut[i]
  <2>1. IsDerivation(D)
    BY DEF IsRoot
  <2> QED
    BY <1>1, <1>2, <1>3, <1>4, <2>1, Here
<1>6. Result = r.tree /\ pos = To(r)
  BY <1>2, <1>5, WholeNode DEF Result
<1>7. pos = Len(text) + 1
  BY <1>6 DEF IsRoot
<1> QED
  BY <1>6, <1>7 DEF Finish

LEMMA InitFollows ==
  ASSUME PInit, NEW D, NEW r, IsRoot(D, r)
  PROVE  Path(D, r)
<1>1. r \in D /\ r.tree.kind = "Module" /\ From(r) = 1 /\ SoFar(D, r)
      /\ Produces("Module", r.symbols)
  BY DEF IsRoot, IsDerivation
<1>2. PICK form : /\ IsForm("Module", form)
                  /\ \/ r.symbols = form /\ Last(form) \notin DOMAIN Ends
                     \/ IsEnded(form, r.symbols)
  BY <1>1, KindsApart DEF Produces
<1>3. form = generate_module
  BY <1>2, KindsApart DEF IsForm
<1>4. IsSeq(form)
  BY <1>3, ModuleForm, FormIsSeq
<1>5. IsLeft("Module", r.symbols, 1, form)
  BY <1>2, <1>4, FormLeft DEF IsLeft
<1>6. PICK a : a = Activation("Module", form)
  OBVIOUS
<1>7. IsReading(r, 1, a)
  BY <1>1, <1>5, <1>6, FollowsNew
<1>8. stack = <<a>> /\ pos = 1
  BY <1>3, <1>6 DEF PInit
<1>9. PICK node, index : node = <<r>> /\ index = <<1>>
  OBVIOUS
<1>10. node[1] = r /\ index[1] = 1 /\ stack[1] = a /\ Len(stack) = 1
  BY <1>8, <1>9
<1>11. \A d \in 1..Len(stack) : node[d] \in D /\ IsReading(node[d], index[d], stack[d])
  <2>1. \A d \in 1..1 : d = 1
    OBVIOUS
  <2> QED
    BY <1>1, <1>7, <1>10, <2>1
<1>12. \A d \in 1..(Len(stack) - 1) : Calls(node[d], index[d], stack[d], node[d + 1])
  BY <1>10
<1>13. pos = node[Len(stack)].cut[index[Len(stack)]]
  BY <1>1, <1>8, <1>10 DEF From
<1>14. FollowsAll(D, r, stack, pos, node, index)
  BY <1>10, <1>11, <1>12, <1>13 DEF FollowsAll
<1> QED
  BY <1>14 DEF Path

LEMMA RootStays ==
  ASSUME text' = text, NEW D, NEW r
  PROVE  IsRoot(D, r)' <=> IsRoot(D, r)
BY DEF IsRoot, IsDerivation, SoFar, ReadsWord, ReadsLeaf, ReadsValue, ReadsNode,
       IsValue, IsInt, IsFloat, Value

DumpsAreRead ==
  \A D, r : IsRoot(D, r) => /\ status = "parsing" => Path(D, r)
                            /\ status = "accepted" => module = r.tree
                            /\ status # "rejected"

LEMMA StepFollows ==
  ASSUME PInv, NEW D, NEW r, IsRoot(D, r), Path(D, r), PStep
  PROVE  \/ Path(D, r)' /\ status' = "parsing"
         \/ status' = "accepted" /\ module' = r.tree
<1>1. IsDerivation(D)
  BY DEF IsRoot
<1>2. CASE Literal
  BY <1>1, <1>2, LiteralFollows
<1>3. CASE Leaf
  BY <1>1, <1>3, LeafFollows
<1>4. CASE Constant
  BY <1>1, <1>4, ConstantFollows
<1>5. CASE Call
  BY <1>1, <1>5, CallFollows
<1>6. CASE End
  BY <1>1, <1>6, EndFollows
<1>7. CASE Vector
  BY <1>1, <1>7, VectorFollows
<1>8. CASE Begin
  BY <1>1, <1>8, BeginFollows
<1>9. CASE More
  BY <1>1, <1>9, MoreFollows
<1>10. CASE Return
  BY <1>1, <1>10, ReturnFollows
<1>11. CASE Finish
  BY <1>11, FinishFollows
<1> QED
  BY <1>2, <1>3, <1>4, <1>5, <1>6, <1>7, <1>8, <1>9, <1>10, <1>11 DEF PStep

LEMMA TextStays ==
  ASSUME [PNext]_pvars
  PROVE  text' = text
BY Zenon DEF PNext, PStep, PStop, pvars, Literal, Leaf, Constant, Call, End, Vector, Begin,
   More, Return, Finish, Proceed, ParseError

LEMMA Stopped ==
  ASSUME [PNext]_pvars, status # "parsing"
  PROVE  UNCHANGED pvars
BY DEF PNext, PStep, PStop, Literal, Leaf, Constant, Call, End, Vector, Begin,
   More, Return, Finish, Expects

\* However long and deep it is, a text that is the dump of a tree is never
\* refused, and the parser builds that tree and no other: no choice by what the
\* text begins with, no number that is read as far as it goes, no end of a list
\* and no position leads it away from the derivation.
THEOREM DumpsAreAccepted == PSpec => []DumpsAreRead
<1>1. PInit => PInv /\ DumpsAreRead
  <2> SUFFICES ASSUME PInit PROVE PInv /\ DumpsAreRead
    OBVIOUS
  <2>1. status = "parsing"
    BY DEF PInit
  <2> QED
    BY <2>1, PInitKeeps, InitFollows DEF DumpsAreRead
<1>2. PInv /\ DumpsAreRead /\ [PNext]_pvars => DumpsAreRead'
  <2> SUFFICES ASSUME PInv, DumpsAreRead, [PNext]_pvars, NEW D, NEW r, IsRoot(D, r)'
               PROVE  /\ status' = "parsing" => Path(D, r)'
                      /\ status' = "accepted" => module' = r.tree
                      /\ status' # "rejected"
    BY DEF DumpsAreRead
  <2>1. IsRoot(D, r)
    BY TextStays, RootStays
  <2>2. /\ status = "parsing" => Path(D, r)
        /\ status = "accepted" => module = r.tree
        /\ status # "rejected"
    BY <2>1 DEF DumpsAreRead
  <2>3. CASE UNCHANGED pvars
    BY <2>2, <2>3 DEF Path, pvars, FollowsAll
  <2>4. CASE status = "parsing" /\ ~UNCHANGED pvars
    <3>1. PStep
      BY <2>4 DEF PNext, PStop
    <3> QED
      BY <2>1, <2>2, <2>4, <3>1, StepFollows
  <2>5. CASE status # "parsing"
    BY <2>3, <2>5, Stopped
  <2> QED
    BY <2>3, <2>4, <2>5
<1> QED
  BY <1>1, <1>2, ParserInvariance, PTL DEF PSpec

-----------------------------------------------------------------------------
(* Reading what is there.                                                  *)

\* The parts that are read for a symbol are among those of the node.
Bounded(n) == \A i \in 1..(Len(n.symbols) + 1) : n.at[i] <= Len(n.tree.parts)

\* The node with one symbol more, which has been read up to q and has given parts.
Extended(n, s, q, parts) ==
  [tree |-> Node(n.tree.kind, n.tree.parts \o parts), symbols |-> Append(n.symbols, s),
   cut |-> [i \in 1..(Len(n.symbols) + 2) |-> IF i = Len(n.symbols) + 2 THEN q ELSE n.cut[i]],
   at |-> [i \in 1..(Len(n.symbols) + 2) |->
             IF i = Len(n.symbols) + 2 THEN Len(n.tree.parts) + Len(parts) ELSE n.at[i]]]

\* m is n with one symbol more.
Extends(m, n, s, q, parts) ==
  /\ m.tree = Node(n.tree.kind, m.tree.parts) /\ m.tree.kind = n.tree.kind
  /\ IsSeq(m.tree.parts) /\ Len(m.tree.parts) = Len(n.tree.parts) + Len(parts)
  /\ \A k \in 1..Len(n.tree.parts) : m.tree.parts[k] = n.tree.parts[k]
  /\ \A k \in 1..Len(parts) : m.tree.parts[Len(n.tree.parts) + k] = parts[k]
  /\ IsSeq(m.symbols) /\ Len(m.symbols) = Len(n.symbols) + 1
  /\ m.symbols[Len(n.symbols) + 1] = s
  /\ \A i \in 1..Len(n.symbols) : m.symbols[i] = n.symbols[i]
  /\ m.cut \in [1..(Len(m.symbols) + 1) -> 1..(Len(text) + 1)]
  /\ \A i \in 1..(Len(n.symbols) + 1) : m.cut[i] = n.cut[i]
  /\ m.cut[Len(n.symbols) + 2] = q
  /\ m.at \in [1..(Len(m.symbols) + 1) -> Nat]
  /\ \A i \in 1..(Len(n.symbols) + 1) : m.at[i] = n.at[i]
  /\ m.at[Len(n.symbols) + 2] = Len(m.tree.parts)

MayExtend(n, s, q, parts) ==
  \E m : /\ Extends(m, n, s, q, parts)
         /\ m.symbols = Append(n.symbols, s) /\ m.tree.parts = n.tree.parts \o parts

LEMMA ExtendedIs ==
  ASSUME NEW D, NEW n, SoFar(D, n), NEW s, NEW q \in 1..(Len(text) + 1),
         NEW parts, IsSeq(parts)
  PROVE  MayExtend(n, s, q, parts)
<1>0. PICK m : m = Extended(n, s, q, parts)
  OBVIOUS
<1>1. /\ IsSeq(n.tree.parts) /\ IsSeq(n.symbols)
      /\ n.cut \in [1..(Len(n.symbols) + 1) -> 1..(Len(text) + 1)]
      /\ n.at \in [1..(Len(n.symbols) + 1) -> Nat]
  BY DEF SoFar
<1>2. PICK l : l = Len(n.symbols) /\ l \in Nat
  BY <1>1 DEF IsSeq
<1>3. PICK a : a = Len(n.tree.parts) /\ a \in Nat
  BY <1>1 DEF IsSeq
<1>4. PICK b : b = Len(parts) /\ b \in Nat
  BY DEF IsSeq
<1>5. /\ m.tree = Node(n.tree.kind, n.tree.parts \o parts) /\ m.symbols = Append(n.symbols, s)
      /\ m.cut = [i \in 1..(l + 2) |-> IF i = l + 2 THEN q ELSE n.cut[i]]
      /\ m.at = [i \in 1..(l + 2) |-> IF i = l + 2 THEN a + b ELSE n.at[i]]
  BY <1>0, <1>2, <1>3, <1>4 DEF Extended
<1>6. /\ m.tree.parts = n.tree.parts \o parts /\ m.tree.kind = n.tree.kind
      /\ m.tree = Node(n.tree.kind, m.tree.parts)
  BY <1>5 DEF Node
<1>7. /\ IsSeq(m.tree.parts) /\ Len(m.tree.parts) = a + b
      /\ \A k \in 1..a : m.tree.parts[k] = n.tree.parts[k]
      /\ \A k \in 1..b : m.tree.parts[a + k] = parts[k]
  <2> DEFINE U == ElementsOf(n.tree.parts) \cup ElementsOf(parts)
  <2>1. n.tree.parts \in Seq(U) /\ parts \in Seq(U)
    BY <1>1, SeqOfElements, SeqGrows
  <2> HIDE DEF U
  <2>2. PICK x : x = n.tree.parts
    OBVIOUS
  <2>3. /\ x \o parts \in Seq(U) /\ Len(x \o parts) = a + b
        /\ \A k \in 1..a : (x \o parts)[k] = x[k]
        /\ \A k \in 1..b : (x \o parts)[a + k] = parts[k]
    BY <1>3, <1>4, <2>1, <2>2
  <2> QED
    BY <1>6, <2>2, <2>3, SeqIs
<1>8. /\ IsSeq(m.symbols) /\ Len(m.symbols) = l + 1 /\ m.symbols[l + 1] = s
      /\ \A i \in 1..l : m.symbols[i] = n.symbols[i]
  <2> DEFINE U == ElementsOf(n.symbols) \cup {s}
  <2>1. n.symbols \in Seq(U) /\ s \in U
    BY <1>1, SeqOfElements, SeqGrows
  <2> HIDE DEF U
  <2>2. PICK x : x = n.symbols
    OBVIOUS
  <2>3. /\ Append(x, s) \in Seq(U) /\ Len(Append(x, s)) = l + 1 /\ Append(x, s)[l + 1] = s
        /\ \A i \in 1..l : Append(x, s)[i] = x[i]
    BY <1>2, <2>1, <2>2
  <2> QED
    BY <1>5, <2>2, <2>3, SeqIs
<1>9. \A i \in 1..(l + 2) : i # l + 2 => i \in 1..(l + 1)
  BY <1>2
<1>10. /\ l + 1 + 1 = l + 2 /\ l + 2 \in 1..(l + 2)
       /\ \A i \in 1..(l + 1) : i \in 1..(l + 2) /\ i # l + 2
  BY <1>2
<1>11. \A i \in 1..(l + 1) : n.cut[i] \in 1..(Len(text) + 1) /\ n.at[i] \in Nat
  BY <1>1, <1>2
<1>12. a + b \in Nat
  BY <1>3, <1>4
<1>13. /\ m.cut \in [1..(l + 2) -> 1..(Len(text) + 1)] /\ m.cut[l + 2] = q
       /\ \A i \in 1..(l + 1) : m.cut[i] = n.cut[i]
  BY <1>5, <1>9, <1>10, <1>11
<1>14. /\ m.at \in [1..(l + 2) -> Nat] /\ m.at[l + 2] = a + b
       /\ \A i \in 1..(l + 1) : m.at[i] = n.at[i]
  BY <1>5, <1>9, <1>10, <1>11, <1>12
<1>15. Extends(m, n, s, q, parts)
  BY <1>2, <1>3, <1>4, <1>6, <1>7, <1>8, <1>10, <1>13, <1>14 DEF Extends
<1> QED
  BY <1>5, <1>6, <1>15 DEF MayExtend

\* What has been read for a symbol of n has been read for it in m.
LEMMA ReadBefore ==
  ASSUME NEW D, NEW E, D \subseteq E, NEW n, SoFar(D, n), Bounded(n),
         NEW m, NEW s, NEW q, NEW parts, Extends(m, n, s, q, parts), NEW i \in 1..Len(n.symbols)
  PROVE  ReadsWord(m, i) \/ ReadsLeaf(m, i) \/ ReadsValue(m, i) \/ ReadsNode(E, m, i)
<1>1. /\ Len(n.symbols) \in Nat /\ Len(n.tree.parts) \in Nat
      /\ n.at \in [1..(Len(n.symbols) + 1) -> Nat]
      /\ n.cut \in [1..(Len(n.symbols) + 1) -> 1..(Len(text) + 1)]
      /\ ReadsWord(n, i) \/ ReadsLeaf(n, i) \/ ReadsValue(n, i) \/ ReadsNode(D, n, i)
  BY DEF SoFar, IsSeq
<1>2. i \in 1..(Len(n.symbols) + 1) /\ i + 1 \in 1..(Len(n.symbols) + 1)
  BY <1>1
<1>3. /\ m.symbols[i] = n.symbols[i] /\ m.cut[i] = n.cut[i] /\ m.cut[i + 1] = n.cut[i + 1]
      /\ m.at[i] = n.at[i] /\ m.at[i + 1] = n.at[i + 1]
  BY <1>2 DEF Extends
<1>4. n.at[i] \in Nat /\ n.at[i + 1] \in Nat /\ n.at[i + 1] <= Len(n.tree.parts)
  BY <1>1, <1>2 DEF Bounded
<1>5. \A k \in 1..(n.at[i + 1] - n.at[i]) :
        m.tree.parts[n.at[i] + k] = n.tree.parts[n.at[i] + k]
  <2> SUFFICES ASSUME NEW k \in 1..(n.at[i + 1] - n.at[i])
               PROVE  m.tree.parts[n.at[i] + k] = n.tree.parts[n.at[i] + k]
    OBVIOUS
  <2>1. PICK u, v, w : u = n.at[i] /\ v = n.at[i + 1] /\ w = Len(n.tree.parts)
    OBVIOUS
  <2>2. u \in Nat /\ v \in Nat /\ w \in Nat /\ v <= w /\ k \in 1..(v - u)
    BY <1>1, <1>4, <2>1
  <2>3. u + k \in 1..w
    BY <2>2
  <2> QED
    BY <2>1, <2>3 DEF Extends
<1>6. CASE ReadsWord(n, i)
  BY <1>3, <1>6 DEF ReadsWord
<1>7. CASE ReadsLeaf(n, i)
  <2>1. 1 \in 1..(n.at[i + 1] - n.at[i])
    BY <1>4, <1>7 DEF ReadsLeaf
  <2>2. m.tree.parts[n.at[i] + 1] = n.tree.parts[n.at[i] + 1]
    BY <1>5, <2>1
  <2>3. ReadsLeaf(m, i)
    BY <1>3, <1>7, <2>2, Zenon DEF ReadsLeaf
  <2> QED
    BY <2>3
<1>8. CASE ReadsValue(n, i)
  <2>1. PICK value : value = Value(n.cut[i], n.cut[i + 1])
    OBVIOUS
  <2>2. /\ Len(value) = n.at[i + 1] - n.at[i]
        /\ \A k \in 1..Len(value) : n.tree.parts[n.at[i] + k] = value[k]
    BY <1>8, <2>1, Zenon DEF ReadsValue
  <2>3. \A k \in 1..Len(value) : m.tree.parts[n.at[i] + k] = value[k]
    BY <1>5, <2>2
  <2>4. ReadsValue(m, i)
    BY <1>3, <1>8, <2>1, <2>2, <2>3, Zenon DEF ReadsValue
  <2> QED
    BY <2>4
<1>9. CASE ReadsNode(D, n, i)
  <2>1. PICK c \in D : IsChild(n, i, c)
    BY <1>9 DEF ReadsNode
  <2>2. 1 \in 1..(n.at[i + 1] - n.at[i])
    BY <1>4, <1>9 DEF ReadsNode
  <2>3. m.tree.parts[n.at[i] + 1] = n.tree.parts[n.at[i] + 1]
    BY <1>5, <2>2
  <2>4. IsChild(m, i, c) /\ c \in E
    BY <1>3, <2>1, <2>3, Zenon DEF IsChild
  <2>5. ReadsNode(E, m, i)
    BY <1>3, <1>9, <2>4, Zenon DEF ReadsNode
  <2> QED
    BY <2>5
<1> QED
  BY <1>1, <1>6, <1>7, <1>8, <1>9

LEMMA ExtendedSoFar ==
  ASSUME NEW D, NEW E, D \subseteq E, NEW n, SoFar(D, n), Bounded(n),
         NEW m, NEW s, NEW q, NEW parts, IsSeq(parts), Extends(m, n, s, q, parts),
         NEW l, l = Len(n.symbols) + 1,
         ReadsWord(m, l) \/ ReadsLeaf(m, l) \/ ReadsValue(m, l) \/ ReadsNode(E, m, l)
  PROVE  SoFar(E, m) /\ Bounded(m) /\ From(m) = From(n) /\ To(m) = q
<1>1. /\ Len(n.symbols) \in Nat /\ Len(n.tree.parts) \in Nat /\ Len(parts) \in Nat
      /\ n.at \in [1..(Len(n.symbols) + 1) -> Nat] /\ n.at[1] = 0
  BY DEF SoFar, IsSeq
<1>2. 1 \in 1..(Len(n.symbols) + 1) /\ Len(m.symbols) = l /\ l + 1 = Len(n.symbols) + 2
  BY <1>1 DEF Extends
<1>3. /\ From(m) = From(n) /\ To(m) = q /\ m.at[1] = 0
      /\ m.at[Len(m.symbols) + 1] = Len(m.tree.parts)
  BY <1>1, <1>2 DEF From, To, Extends
<1>4. Len(m.tree.parts) = Len(n.tree.parts) + Len(parts)
  BY DEF Extends
<1>5. Bounded(m)
  <2> SUFFICES ASSUME NEW i \in 1..(Len(m.symbols) + 1) PROVE m.at[i] <= Len(m.tree.parts)
    BY DEF Bounded
  <2>1. CASE i = l + 1
    BY <1>1, <1>2, <1>3, <1>4, <2>1
  <2>2. CASE i # l + 1
    <3>1. i \in 1..(Len(n.symbols) + 1)
      BY <1>1, <1>2, <2>2
    <3>2. m.at[i] = n.at[i] /\ n.at[i] <= Len(n.tree.parts) /\ n.at[i] \in Nat
      BY <1>1, <3>1 DEF Extends, Bounded
    <3> QED
      BY <1>1, <1>4, <3>2
  <2> QED
    BY <2>1, <2>2
<1>6. ASSUME NEW i \in 1..Len(m.symbols)
      PROVE  ReadsWord(m, i) \/ ReadsLeaf(m, i) \/ ReadsValue(m, i) \/ ReadsNode(E, m, i)
  <2>1. CASE i = l
    BY <2>1
  <2>2. CASE i # l
    <3>1. i \in 1..Len(n.symbols)
      BY <1>1, <1>2, <2>2
    <3> QED
      BY <3>1, ReadBefore
  <2> QED
    BY <2>1, <2>2
<1>7. SoFar(E, m)
  BY <1>3, <1>6 DEF SoFar, Extends
<1> QED
  BY <1>3, <1>5, <1>7

LEMMA AppendIs ==
  ASSUME NEW s, IsSeq(s), NEW x
  PROVE  /\ IsSeq(Append(s, x)) /\ Len(Append(s, x)) = Len(s) + 1
         /\ Append(s, x)[Len(s) + 1] = x /\ Append(s, x) = s \o <<x>>
         /\ \A i \in 1..Len(s) : Append(s, x)[i] = s[i]
<1> DEFINE U == ElementsOf(s) \cup {x}
<1>1. s \in Seq(U) /\ x \in U
  BY SeqOfElements, SeqGrows
<1> HIDE DEF U
<1>2. /\ Append(s, x) \in Seq(U) /\ Len(Append(s, x)) = Len(s) + 1
      /\ Append(s, x)[Len(s) + 1] = x /\ Append(s, x) = s \o <<x>>
      /\ \A i \in 1..Len(s) : Append(s, x)[i] = s[i]
  BY <1>1
<1> QED
  BY <1>2, SeqIs

LEMMA ConcatShift ==
  ASSUME NEW s, IsSeq(s), NEW r, IsSeq(r), r # <<>>
  PROVE  Append(s, Head(r)) \o Tail(r) = s \o r
<1> DEFINE U == ElementsOf(s) \cup ElementsOf(r)
<1>1. s \in Seq(U) /\ r \in Seq(U)
  BY SeqOfElements, SeqGrows
<1> HIDE DEF U
<1>2. /\ Head(r) = r[1] /\ r[1] \in U /\ Tail(r) \in Seq(U) /\ Len(Tail(r)) = Len(r) - 1
      /\ \A i \in 1..(Len(r) - 1) : Tail(r)[i] = r[i + 1]
      /\ Len(r) \in Nat /\ Len(r) > 0 /\ Len(s) \in Nat
  BY <1>1
<1>3. PICK u, t, a, b : /\ u = Append(s, r[1]) /\ t = Tail(r)
                       /\ a = Len(s) /\ b = Len(r) - 1 /\ a \in Nat /\ b \in Nat
  <2>1. Len(s) \in Nat /\ Len(r) - 1 \in Nat
    BY <1>2
  <2> QED
    BY <2>1, Zenon
<1>4. /\ u \in Seq(U) /\ Len(u) = a + 1 /\ u[a + 1] = r[1]
      /\ \A i \in 1..a : u[i] = s[i]
  BY <1>1, <1>2, <1>3
<1>5. t \in Seq(U) /\ Len(t) = b /\ \A i \in 1..b : t[i] = r[i + 1]
  BY <1>2, <1>3
<1>6. /\ u \o t \in Seq(U) /\ Len(u \o t) = a + 1 + b
      /\ \A i \in 1..(a + 1 + b) : (u \o t)[i] = IF i <= a + 1 THEN u[i] ELSE t[i - (a + 1)]
  BY <1>3, <1>4, <1>5
<1>7. /\ s \o r \in Seq(U) /\ Len(s \o r) = a + 1 + b
      /\ \A i \in 1..(a + 1 + b) : (s \o r)[i] = IF i <= a THEN s[i] ELSE r[i - a]
  <2>1. Len(s) = a /\ Len(r) = b + 1 /\ a + (b + 1) = a + 1 + b
    BY <1>2, <1>3
  <2> QED
    BY <1>1, <1>3, <2>1
<1>8. ASSUME NEW i \in 1..(a + 1 + b) PROVE (u \o t)[i] = (s \o r)[i]
  <2>1. CASE i <= a
    <3>1. i \in 1..a /\ i <= a + 1
      BY <1>3, <2>1
    <3> QED
      BY <1>4, <1>6, <1>7, <2>1, <3>1
  <2>2. CASE i = a + 1
    <3>1. i <= a + 1 /\ ~(i <= a) /\ i - a = 1
      BY <1>3, <2>2
    <3> QED
      BY <1>4, <1>6, <1>7, <2>2, <3>1
  <2>3. CASE i > a + 1
    <3>1. PICK j : j = i - (a + 1) /\ j \in 1..b /\ i - a = j + 1 /\ ~(i <= a + 1) /\ ~(i <= a)
      BY <1>3, <2>3
    <3> QED
      BY <1>5, <1>6, <1>7, <3>1
  <2> QED
    BY <1>3, <2>1, <2>2, <2>3
<1>9. u \o t = s \o r
  <2>1. PICK v, w : v = u \o t /\ w = s \o r
    OBVIOUS
  <2>2. v \in Seq(U) /\ w \in Seq(U) /\ Len(v) = Len(w) /\ \A i \in 1..Len(v) : v[i] = w[i]
    BY <1>6, <1>7, <1>8, <2>1
  <2>3. v = w
    BY <2>2
  <2> QED
    BY <2>1, <2>3
<1> QED
  BY <1>2, <1>3, <1>9

\* What is left of a form after these symbols,
FormRemains(kind, symbols, rest) ==
  \E form : /\ IsForm(kind, form)
            /\ symbols \o rest = form \/ IsEnded(form, symbols \o rest)

\* [ and n elements, with commas between them.
HasElements(element, symbols, n) ==
  /\ IsSeq(symbols) /\ n \in Nat /\ symbols[1] = "["
  /\ \A k \in 1..n : symbols[2 * k] = element
  /\ \A k \in 1..(n - 1) : symbols[2 * k + 1] = Comma

\* An element may follow,
Awaits(element, symbols, n) ==
  /\ HasElements(element, symbols, n) /\ Len(symbols) = 2 * n + 1
  /\ n > 0 => symbols[2 * n + 1] = Comma
\* or has been read.
Knows(element, symbols, n) ==
  HasElements(element, symbols, n) /\ Len(symbols) = 2 * n /\ n > 0

\* or of a list.
ListRemains(kind, symbols, rest) ==
  /\ kind \in DOMAIN Lists
  /\ \/ symbols = <<>> /\ rest = <<"[", "begin">>
     \/ symbols = <<"[">> /\ rest = <<"begin">>
     \/ rest = <<Lists[kind], "more">> /\ \E n : Awaits(Lists[kind], symbols, n)
     \/ rest \in {<<"more">>, <<"]">>} /\ \E n : Knows(Lists[kind], symbols, n)
     \/ rest = <<>> /\ \E n : IsList(Lists[kind], symbols, n)

Remains(kind, symbols, rest) ==
  FormRemains(kind, symbols, rest) \/ ListRemains(kind, symbols, rest)

LEMMA ElementRead ==
  ASSUME NEW element, NEW symbols, NEW n, Awaits(element, symbols, n)
  PROVE  Knows(element, Append(symbols, element), n + 1)
<1>1. PICK t : t = Append(symbols, element)
  OBVIOUS
<1>2. /\ IsSeq(symbols) /\ n \in Nat /\ Len(symbols) = 2 * n + 1 /\ symbols[1] = "["
      /\ \A k \in 1..n : symbols[2 * k] = element
      /\ \A k \in 1..(n - 1) : symbols[2 * k + 1] = Comma
      /\ n > 0 => symbols[2 * n + 1] = Comma
  BY DEF Awaits, HasElements
<1>3. /\ IsSeq(t) /\ Len(t) = 2 * n + 2 /\ t[2 * n + 2] = element
      /\ \A i \in 1..(2 * n + 1) : t[i] = symbols[i]
  <2>1. /\ IsSeq(t) /\ Len(t) = Len(symbols) + 1 /\ t[Len(symbols) + 1] = element
        /\ \A i \in 1..Len(symbols) : t[i] = symbols[i]
    BY <1>1, <1>2, AppendIs
  <2>2. PICK l : l = Len(symbols) /\ l = 2 * n + 1 /\ l + 1 = 2 * n + 2
    BY <1>2
  <2> QED
    BY <2>1, <2>2
<1>4. t[1] = "["
  BY <1>2, <1>3
<1>5. ASSUME NEW k \in 1..(n + 1) PROVE t[2 * k] = element
  <2>1. CASE k = n + 1
    <3>1. 2 * k = 2 * n + 2
      BY <1>2, <2>1
    <3> QED
      BY <1>3, <3>1
  <2>2. CASE k # n + 1
    <3>1. k \in 1..n /\ 2 * k \in 1..(2 * n + 1)
      BY <1>2, <2>2
    <3> QED
      BY <1>2, <1>3, <3>1
  <2> QED
    BY <2>1, <2>2
<1>6. ASSUME NEW k \in 1..n PROVE t[2 * k + 1] = Comma
  <2>1. 2 * k + 1 \in 1..(2 * n + 1) /\ n > 0
    BY <1>2
  <2>2. CASE k = n
    BY <1>2, <1>3, <2>1, <2>2
  <2>3. CASE k # n
    <3>1. k \in 1..(n - 1)
      BY <1>2, <2>3
    <3> QED
      BY <1>2, <1>3, <2>1, <3>1
  <2> QED
    BY <2>2, <2>3
<1>7. n + 1 \in Nat /\ 2 * n + 2 = 2 * (n + 1) /\ n + 1 > 0 /\ (n + 1) - 1 = n
  BY <1>2
<1>8. HasElements(element, t, n + 1)
  BY <1>3, <1>4, <1>5, <1>6, <1>7 DEF HasElements
<1> QED
  BY <1>1, <1>3, <1>7, <1>8 DEF Knows

LEMMA CommaRead ==
  ASSUME NEW element, NEW symbols, NEW n, Knows(element, symbols, n)
  PROVE  Awaits(element, Append(symbols, Comma), n)
<1>1. PICK t : t = Append(symbols, Comma)
  OBVIOUS
<1>2. /\ IsSeq(symbols) /\ n \in Nat /\ n > 0 /\ Len(symbols) = 2 * n /\ symbols[1] = "["
      /\ \A k \in 1..n : symbols[2 * k] = element
      /\ \A k \in 1..(n - 1) : symbols[2 * k + 1] = Comma
  BY DEF Knows, HasElements
<1>3. /\ IsSeq(t) /\ Len(t) = 2 * n + 1 /\ t[2 * n + 1] = Comma
      /\ \A i \in 1..(2 * n) : t[i] = symbols[i]
  <2>1. /\ IsSeq(t) /\ Len(t) = Len(symbols) + 1 /\ t[Len(symbols) + 1] = Comma
        /\ \A i \in 1..Len(symbols) : t[i] = symbols[i]
    BY <1>1, <1>2, AppendIs
  <2>2. PICK l : l = Len(symbols) /\ l = 2 * n /\ l + 1 = 2 * n + 1
    BY <1>2
  <2> QED
    BY <2>1, <2>2
<1>4. t[1] = "["
  BY <1>2, <1>3
<1>5. \A k \in 1..n : t[2 * k] = element
  BY <1>2, <1>3
<1>6. \A k \in 1..(n - 1) : t[2 * k + 1] = Comma
  BY <1>2, <1>3
<1>7. HasElements(element, t, n)
  BY <1>2, <1>3, <1>4, <1>5, <1>6 DEF HasElements
<1> QED
  BY <1>1, <1>3, <1>7 DEF Awaits

LEMMA BracketRead ==
  ASSUME NEW element, NEW symbols, NEW n, Knows(element, symbols, n)
  PROVE  IsList(element, Append(symbols, "]"), n)
<1>1. PICK t : t = Append(symbols, "]")
  OBVIOUS
<1>2. /\ IsSeq(symbols) /\ n \in Nat /\ n > 0 /\ Len(symbols) = 2 * n /\ symbols[1] = "["
      /\ \A k \in 1..n : symbols[2 * k] = element
      /\ \A k \in 1..(n - 1) : symbols[2 * k + 1] = Comma
  BY DEF Knows, HasElements
<1>3. /\ IsSeq(t) /\ Len(t) = 2 * n + 1 /\ t[2 * n + 1] = "]"
      /\ \A i \in 1..(2 * n) : t[i] = symbols[i]
  <2>1. /\ IsSeq(t) /\ Len(t) = Len(symbols) + 1 /\ t[Len(symbols) + 1] = "]"
        /\ \A i \in 1..Len(symbols) : t[i] = symbols[i]
    BY <1>1, <1>2, AppendIs
  <2>2. PICK l : l = Len(symbols) /\ l = 2 * n /\ l + 1 = 2 * n + 1
    BY <1>2
  <2> QED
    BY <2>1, <2>2
<1>4. t[1] = "["
  BY <1>2, <1>3
<1>5. \A k \in 1..n : t[2 * k] = element
  BY <1>2, <1>3
<1>6. \A k \in 1..(n - 1) : t[2 * k + 1] = Comma
  BY <1>2, <1>3
<1> QED
  BY <1>1, <1>2, <1>3, <1>4, <1>5, <1>6 DEF IsList

LEMMA RemainsTail ==
  ASSUME NEW kind, NEW symbols, IsSeq(symbols), NEW rest, IsSeq(rest), rest # <<>>,
         Head(rest) \notin {"begin", "more"}, Remains(kind, symbols, rest)
  PROVE  Remains(kind, Append(symbols, Head(rest)), Tail(rest))
<1>1. CASE FormRemains(kind, symbols, rest)
  BY <1>1, ConcatShift DEF FormRemains, Remains
<1>2. CASE ListRemains(kind, symbols, rest)
  <2>1. kind \in DOMAIN Lists
    BY <1>2 DEF ListRemains
  <2>2. PICK element : element = Lists[kind]
    OBVIOUS
  <2>3. /\ Head(<<"begin">>) = "begin" /\ Head(<<"more">>) = "more"
        /\ Head(<<"[", "begin">>) = "[" /\ Tail(<<"[", "begin">>) = <<"begin">>
        /\ Head(<<element, "more">>) = element /\ Tail(<<element, "more">>) = <<"more">>
        /\ Head(<<"]">>) = "]" /\ Tail(<<"]">>) = <<>>
        /\ Append(<<>>, "[") = <<"[">>
    OBVIOUS
  <2>4. \/ symbols = <<>> /\ rest = <<"[", "begin">>
        \/ rest = <<element, "more">> /\ \E n : Awaits(element, symbols, n)
        \/ rest = <<"]">> /\ \E n : Knows(element, symbols, n)
    BY <1>2, <2>2, <2>3, Zenon DEF ListRemains
  <2>5. CASE symbols = <<>> /\ rest = <<"[", "begin">>
    <3>1. Append(symbols, Head(rest)) = <<"[">> /\ Tail(rest) = <<"begin">>
      BY <2>3, <2>5, Zenon
    <3> QED
      BY <2>1, <3>1, Zenon DEF ListRemains, Remains
  <2>6. CASE rest = <<element, "more">> /\ \E n : Awaits(element, symbols, n)
    <3>1. \E n : Knows(element, Append(symbols, element), n)
      BY <2>6, ElementRead, Zenon
    <3>2. Head(rest) = element /\ Tail(rest) = <<"more">>
      BY <2>3, <2>6, Zenon
    <3> QED
      BY <2>1, <2>2, <3>1, <3>2, Zenon DEF ListRemains, Remains
  <2>7. CASE rest = <<"]">> /\ \E n : Knows(element, symbols, n)
    <3>1. \E n : IsList(element, Append(symbols, "]"), n)
      BY <2>7, BracketRead, Zenon
    <3>2. Head(rest) = "]" /\ Tail(rest) = <<>>
      BY <2>3, <2>7, Zenon
    <3> QED
      BY <2>1, <2>2, <3>1, <3>2, Zenon DEF ListRemains, Remains
  <2> QED
    BY <2>4, <2>5, <2>6, <2>7
<1> QED
  BY <1>1, <1>2 DEF Remains

\* The function a has read the node n so far.
HasRead(D, a, n) ==
  /\ SoFar(D, n) /\ Bounded(n) /\ n.tree.kind = a.kind /\ n.tree.parts = a.parts
  /\ Remains(a.kind, n.symbols, a.rest)

\* Each function of the stack s has read what is between its caller and the one
\* it has called, up to p.
ReadsAll(D, s, p, node) ==
  /\ IsDerivation(D) /\ From(node[1]) = 1 /\ p = To(node[Len(s)])
  /\ \A d \in 1..Len(s) : HasRead(D, s[d], node[d])
  /\ \A d \in 1..(Len(s) - 1) : To(node[d]) = From(node[d + 1])

HasBeenRead == \E D, node : ReadsAll(D, stack, pos, node)

LEMMA DerivationStays ==
  ASSUME text' = text, NEW D, NEW n
  PROVE  (IsDerivation(D)' <=> IsDerivation(D)) /\ (SoFar(D, n)' <=> SoFar(D, n))
BY DEF IsDerivation, SoFar, ReadsWord, ReadsLeaf, ReadsValue, ReadsNode,
       IsValue, IsInt, IsFloat, Value

LEMMA ReadStays ==
  ASSUME text' = text, NEW D, NEW node, ReadsAll(D, stack', pos', node)
  PROVE  HasBeenRead'
<1>1. /\ IsDerivation(D)' /\ From(node[1]) = 1 /\ pos' = To(node[Len(stack')])
      /\ \A d \in 1..(Len(stack') - 1) : To(node[d]) = From(node[d + 1])
  BY DerivationStays DEF ReadsAll
<1>2. ASSUME NEW d \in 1..Len(stack') PROVE HasRead(D, stack[d], node[d])'
  <2>1. HasRead(D, stack'[d], node[d])
    BY DEF ReadsAll
  <2>2. SoFar(D, node[d])'
    BY <2>1, DerivationStays DEF HasRead
  <2>3. /\ Bounded(node[d]) /\ node[d].tree.kind = stack'[d].kind
        /\ node[d].tree.parts = stack'[d].parts
        /\ Remains(stack'[d].kind, node[d].symbols, stack'[d].rest)
    BY <2>1 DEF HasRead
  <2>4. Bounded(node[d])' /\ Remains(stack[d].kind, node[d].symbols, stack[d].rest)'
    BY <2>3
  <2> QED
    BY <2>2, <2>3, <2>4 DEF HasRead
<1>3. ReadsAll(D, stack, pos, node)'
  BY <1>1, <1>2 DEF ReadsAll
<1> QED
  BY <1>3 DEF HasBeenRead

\* What the running function has read.
LEMMA HereRead ==
  ASSUME PInv, NEW D, NEW node, ReadsAll(D, stack, pos, node)
  PROVE  /\ Len(stack) \in Nat /\ Len(stack) > 0 /\ Len(stack) \in 1..Len(stack)
         /\ Top = stack[Len(stack)] /\ IsSeq(stack) /\ IsSeq(Top.rest)
         /\ HasRead(D, Top, node[Len(stack)]) /\ pos = To(node[Len(stack)])
         /\ IsSeq(text) /\ Len(text) \in Nat /\ pos \in 1..(Len(text) + 1)
<1>1. PICK T : StackOK(stack, T) /\ ActivationOK(Top, T)
  BY Running
<1>2. /\ Len(stack) \in Nat /\ Len(stack) > 0 /\ Len(stack) \in 1..Len(stack)
      /\ Top = stack[Len(stack)] /\ IsSeq(stack)
  BY <1>1, TopIs DEF StackOK, Top
<1>3. HasRead(D, Top, node[Len(stack)]) /\ pos = To(node[Len(stack)])
  BY <1>2 DEF ReadsAll
<1>4. IsSeq(Top.rest)
  BY <1>1 DEF ActivationOK
<1>5. IsSeq(text) /\ Len(text) \in Nat /\ pos \in 1..(Len(text) + 1)
  BY DEF PInv, InText, IsSeq
<1> QED
  BY <1>2, <1>3, <1>4, <1>5

\* The running function reads on.
LEMMA ReadsOn ==
  ASSUME PInv, NEW D, NEW node, ReadsAll(D, stack, pos, node), status = "parsing",
         NEW k, NEW form, NEW parts, Proceed(k, form, parts),
         NEW m, HasRead(D, Later(Top, form \o Tail(Top.rest), Top.parts \o parts), m),
         From(m) = From(node[Len(stack)]), To(m) = pos + k
  PROVE  HasBeenRead' /\ status' = "parsing"
<1>1. PICK l : l = Len(stack)
  OBVIOUS
<1>2. l \in Nat /\ l > 0 /\ l \in 1..l /\ IsSeq(stack) /\ pos = To(node[l])
  BY <1>1, HereRead
<1>3. PICK a : a = Later(Top, form \o Tail(Top.rest), Top.parts \o parts)
  OBVIOUS
<1>4. stack' = [stack EXCEPT ![l] = a]
  BY <1>1, <1>3, ProceedIs
<1>5. pos' = pos + k /\ status' = "parsing" /\ text' = text
  BY DEF Proceed
<1>6. Len(stack') = l /\ stack'[l] = a /\ \A d \in 1..l : d # l => stack'[d] = stack[d]
  BY <1>1, <1>2, <1>4, Replaced
<1>7. PICK node2 : node2 = [d \in 1..l |-> IF d = l THEN m ELSE node[d]]
  OBVIOUS
<1>8. \A d \in 1..l : node2[d] = IF d = l THEN m ELSE node[d]
  BY <1>7
<1>9. ASSUME NEW d \in 1..l PROVE HasRead(D, stack'[d], node2[d])
  <2>1. CASE d = l
    BY <1>3, <1>6, <1>8, <2>1
  <2>2. CASE d # l
    <3>1. HasRead(D, stack[d], node[d])
      BY <1>1 DEF ReadsAll
    <3> QED
      BY <1>6, <1>8, <2>2, <3>1
  <2> QED
    BY <2>1, <2>2
<1>10. \A d \in 1..l : From(node2[d]) = From(node[d])
  BY <1>1, <1>8
<1>11. \A d \in 1..l : d # l => To(node2[d]) = To(node[d])
  BY <1>8
<1>12. ASSUME NEW d \in 1..(l - 1) PROVE To(node2[d]) = From(node2[d + 1])
  <2>1. d \in 1..l /\ d # l /\ d + 1 \in 1..l
    BY <1>2
  <2>2. To(node[d]) = From(node[d + 1])
    BY <1>1 DEF ReadsAll
  <2> QED
    BY <1>10, <1>11, <2>1, <2>2
<1>13. From(node2[1]) = 1
  <2>1. 1 \in 1..l
    BY <1>2
  <2>2. From(node[1]) = 1
    BY DEF ReadsAll
  <2> QED
    BY <1>10, <2>1, <2>2
<1>14. pos' = To(node2[l])
  BY <1>2, <1>5, <1>8
<1>15. ReadsAll(D, stack', pos', node2)
  BY <1>6, <1>9, <1>12, <1>13, <1>14 DEF ReadsAll
<1> QED
  BY <1>5, <1>15, ReadStays

\* A node of which nothing has been read.
LEMMA Unread ==
  ASSUME pos \in 1..(Len(text) + 1), NEW D, NEW kind, NEW form, Remains(kind, <<>>, form)
  PROVE  \E c : HasRead(D, Activation(kind, form), c) /\ From(c) = pos /\ To(c) = pos
<1>1. PICK c : c = [tree |-> Node(kind, <<>>), symbols |-> <<>>,
                    cut |-> [i \in 1..1 |-> pos], at |-> [i \in 1..1 |-> 0]]
  OBVIOUS
<1>2. /\ c.tree = Node(kind, <<>>) /\ c.symbols = <<>>
      /\ c.cut = [i \in 1..1 |-> pos] /\ c.at = [i \in 1..1 |-> 0]
      /\ c.tree.kind = kind /\ c.tree.parts = <<>>
  BY <1>1 DEF Node
<1>3. Len(<<>>) = 0 /\ IsSeq(<<>>) /\ 0 + 1 = 1 /\ 1 \in 1..1 /\ \A i \in 1..1 : i = 1
  BY DEF IsSeq
<1>4. c.cut[1] = pos /\ c.at[1] = 0
  BY <1>2
<1>5. c.cut \in [1..1 -> 1..(Len(text) + 1)] /\ c.at \in [1..1 -> Nat]
  BY <1>2
<1>6. SoFar(D, c)
  BY <1>2, <1>3, <1>4, <1>5 DEF SoFar
<1>7. Bounded(c) /\ From(c) = pos /\ To(c) = pos
  BY <1>2, <1>3, <1>4 DEF Bounded, From, To
<1>8. PICK a : a = Activation(kind, form)
  OBVIOUS
<1>9. a.kind = kind /\ a.rest = form /\ a.parts = <<>>
  BY <1>8 DEF Activation
<1>10. HasRead(D, a, c)
  BY <1>2, <1>6, <1>7, <1>9 DEF HasRead
<1> QED
  BY <1>7, <1>8, <1>10

\* It calls another one.
LEMMA ReadsDown ==
  ASSUME PInv, NEW D, NEW node, ReadsAll(D, stack, pos, node),
         NEW kind, NEW form, Remains(kind, <<>>, form),
         stack' = Append(stack, Activation(kind, form)), UNCHANGED <<text, pos, status>>
  PROVE  HasBeenRead' /\ status' = status
<1>1. PICK l, a : l = Len(stack) /\ a = Activation(kind, form)
  OBVIOUS
<1>2. /\ l \in Nat /\ l > 0 /\ l \in 1..l /\ IsSeq(stack) /\ pos = To(node[l])
      /\ pos \in 1..(Len(text) + 1)
  BY <1>1, HereRead
<1>3. PICK c : HasRead(D, a, c) /\ From(c) = pos /\ To(c) = pos
  BY <1>1, <1>2, Unread
<1>4. /\ Len(stack') = l + 1 /\ stack'[l + 1] = a
      /\ \A d \in 1..l : stack'[d] = stack[d]
  BY <1>1, <1>2, AppendIs
<1>5. PICK node2 : node2 = [d \in 1..(l + 1) |-> IF d = l + 1 THEN c ELSE node[d]]
  OBVIOUS
<1>6. \A d \in 1..(l + 1) : node2[d] = IF d = l + 1 THEN c ELSE node[d]
  BY <1>5
<1>7. l + 1 \in 1..(l + 1) /\ node2[l + 1] = c
  BY <1>2, <1>6
<1>8. \A d \in 1..l : node2[d] = node[d]
  <2>1. \A d \in 1..l : d \in 1..(l + 1) /\ d # l + 1
    BY <1>2
  <2> QED
    BY <1>6, <2>1
<1>9. ASSUME NEW d \in 1..(l + 1) PROVE HasRead(D, stack'[d], node2[d])
  <2>1. CASE d = l + 1
    BY <1>3, <1>4, <1>7, <2>1
  <2>2. CASE d # l + 1
    <3>1. d \in 1..l
      BY <1>2, <2>2
    <3> QED
      BY <1>1, <1>4, <1>8, <3>1 DEF ReadsAll
  <2> QED
    BY <2>1, <2>2
<1>10. ASSUME NEW d \in 1..l PROVE To(node2[d]) = From(node2[d + 1])
  <2>1. CASE d = l
    BY <1>2, <1>3, <1>7, <1>8, <2>1
  <2>2. CASE d # l
    <3>1. d \in 1..(l - 1) /\ d + 1 \in 1..l
      BY <1>2, <2>2
    <3>2. To(node[d]) = From(node[d + 1])
      BY <1>1, <3>1 DEF ReadsAll
    <3> QED
      BY <1>8, <3>1, <3>2
  <2> QED
    BY <2>1, <2>2
<1>11. From(node2[1]) = 1
  <2>1. 1 \in 1..l
    BY <1>2
  <2> QED
    BY <1>8, <2>1 DEF ReadsAll
<1>12. IsDerivation(D)
  BY DEF ReadsAll
<1>13. Len(stack') - 1 = l /\ pos' = To(node2[Len(stack')])
  BY <1>2, <1>3, <1>4, <1>7
<1>14. ReadsAll(D, stack', pos', node2)
  BY <1>4, <1>9, <1>10, <1>11, <1>12, <1>13 DEF ReadsAll
<1> QED
  BY <1>14, ReadStays

\* m has the symbol s in place l, and k tokens have been read for it.
Adds(m, l, s, k, parts) ==
  /\ m.symbols[l] = s /\ m.cut[l] = pos /\ m.cut[l + 1] = pos + k
  /\ m.at[l] \in Nat /\ m.at[l + 1] = m.at[l] + Len(parts)
  /\ \A j \in 1..Len(parts) : m.tree.parts[m.at[l] + j] = parts[j]

LEMMA AddsOne ==
  ASSUME NEW D, NEW n, SoFar(D, n), IsSeq(text), pos = To(n), NEW k, NEW s,
         NEW parts, IsSeq(parts), NEW m, Extends(m, n, s, pos + k, parts),
         NEW l, l = Len(n.symbols) + 1
  PROVE  Adds(m, l, s, k, parts)
<1>1. /\ Len(n.symbols) \in Nat /\ Len(n.tree.parts) \in Nat /\ Len(parts) \in Nat
      /\ n.at[l] = Len(n.tree.parts) /\ n.cut[l] = pos
  BY DEF SoFar, IsSeq, To
<1>2. l \in 1..l /\ l + 1 = Len(n.symbols) + 2
  BY <1>1
<1>3. /\ m.symbols[l] = s /\ m.cut[l] = pos /\ m.cut[l + 1] = pos + k
      /\ m.at[l] = Len(n.tree.parts) /\ m.at[l + 1] = Len(n.tree.parts) + Len(parts)
      /\ \A j \in 1..Len(parts) : m.tree.parts[Len(n.tree.parts) + j] = parts[j]
  BY <1>1, <1>2 DEF Extends
<1> QED
  BY <1>1, <1>3 DEF Adds

\* The k tokens that are there are read for the symbol s and give these parts.
ReadFor(D, s, k, parts) ==
  \A m, l : Adds(m, l, s, k, parts) =>
    ReadsWord(m, l) \/ ReadsLeaf(m, l) \/ ReadsValue(m, l) \/ ReadsNode(D, m, l)

LEMMA ReadsSymbol ==
  ASSUME PInv, NEW D, NEW node, ReadsAll(D, stack, pos, node), status = "parsing",
         NEW k, NEW form, NEW parts, IsSeq(parts), Proceed(k, form, parts),
         NEW s, ReadFor(D, s, k, parts), pos + k \in 1..(Len(text) + 1),
         \A symbols : IsSeq(symbols) /\ Remains(Top.kind, symbols, Top.rest)
                        => Remains(Top.kind, Append(symbols, s), form \o Tail(Top.rest))
  PROVE  HasBeenRead' /\ status' = "parsing"
<1>1. PICK n : n = node[Len(stack)]
  OBVIOUS
<1>2. HasRead(D, Top, n) /\ pos = To(n) /\ IsSeq(text)
  BY <1>1, HereRead
<1>3. /\ SoFar(D, n) /\ Bounded(n) /\ n.tree.kind = Top.kind /\ n.tree.parts = Top.parts
      /\ Remains(Top.kind, n.symbols, Top.rest) /\ IsSeq(n.symbols)
  BY <1>2 DEF HasRead, SoFar
<1>4. PICK q : q = pos + k
  OBVIOUS
<1>5. PICK m : /\ Extends(m, n, s, q, parts)
               /\ m.symbols = Append(n.symbols, s) /\ m.tree.parts = n.tree.parts \o parts
  <2>1. SoFar(D, n) /\ q \in 1..(Len(text) + 1)
    BY <1>3, <1>4
  <2>2. MayExtend(n, s, q, parts)
    BY <2>1, ExtendedIs
  <2> QED
    BY <2>2 DEF MayExtend
<1>6. PICK l : l = Len(n.symbols) + 1
  OBVIOUS
<1>7. Adds(m, l, s, k, parts)
  BY <1>2, <1>3, <1>4, <1>5, <1>6, AddsOne
<1>8. ReadsWord(m, l) \/ ReadsLeaf(m, l) \/ ReadsValue(m, l) \/ ReadsNode(D, m, l)
  BY <1>7, Zenon DEF ReadFor
<1>9. SoFar(D, m) /\ Bounded(m) /\ From(m) = From(n) /\ To(m) = pos + k
  BY <1>3, <1>4, <1>5, <1>6, <1>8, ExtendedSoFar
<1>10. m.tree.kind = Top.kind
  BY <1>3, <1>5 DEF Extends
<1>11. PICK a : a = Later(Top, form \o Tail(Top.rest), Top.parts \o parts)
  OBVIOUS
<1>12. /\ a.kind = Top.kind /\ a.rest = form \o Tail(Top.rest)
       /\ a.parts = Top.parts \o parts
  BY <1>11 DEF Later
<1>13. Remains(a.kind, m.symbols, a.rest)
  <2>1. Remains(Top.kind, Append(n.symbols, s), form \o Tail(Top.rest))
    BY <1>3
  <2> QED
    BY <1>5, <1>12, <2>1
<1>14. HasRead(D, a, m)
  BY <1>3, <1>5, <1>9, <1>10, <1>12, <1>13, Zenon DEF HasRead
<1> QED
  BY <1>1, <1>9, <1>11, <1>14, ReadsOn

\* The symbol the form goes on with has been read.
LEMMA SymbolRead ==
  ASSUME PInv, Top.rest # <<>>, Symbol \notin {"begin", "more"}, IsSeq(Top.rest),
         NEW symbols, IsSeq(symbols), Remains(Top.kind, symbols, Top.rest)
  PROVE  Remains(Top.kind, Append(symbols, Symbol), <<>> \o Tail(Top.rest))
<1>1. <<>> \o Tail(Top.rest) = Tail(Top.rest)
  BY TailOf, ConcatEmpty
<1>2. Remains(Top.kind, Append(symbols, Head(Top.rest)), Tail(Top.rest))
  BY RemainsTail, Zenon DEF Symbol
<1> QED
  BY <1>1, <1>2, Zenon DEF Symbol

LEMMA LiteralReads ==
  ASSUME PInv, Literal, HasBeenRead
  PROVE  HasBeenRead' \/ status' = "rejected"
<1>1. CASE At(pos) = Symbol
  <2>1. PICK D, node : ReadsAll(D, stack, pos, node)
    BY DEF HasBeenRead
  <2>2. status = "parsing" /\ Top.rest # <<>> /\ Symbol \notin Parts /\ Proceed(1, <<>>, <<>>)
    BY <1>1, Zenon DEF Literal
  <2>3. IsSeq(Top.rest) /\ IsSeq(text) /\ Len(text) \in Nat /\ pos \in 1..(Len(text) + 1)
    BY <2>1, HereRead
  <2>4. Symbol # EndOfText
    <3>1. PICK T : ActivationOK(Top, T)
      BY Running
    <3> QED
      BY <2>2, <3>1, FirstSymbol DEF Symbol
  <2>5. pos <= Len(text) /\ text[pos] = Symbol
    BY <1>1, <2>4, AtText
  <2>6. ReadFor(D, Symbol, 1, <<>>)
    <3> SUFFICES ASSUME NEW m, NEW l, Adds(m, l, Symbol, 1, <<>>) PROVE ReadsWord(m, l)
      BY Zenon DEF ReadFor
    <3>1. Len(<<>>) = 0
      OBVIOUS
    <3> QED
      BY <2>2, <2>5, <3>1 DEF Adds, ReadsWord
  <2>7. pos + 1 \in 1..(Len(text) + 1) /\ IsSeq(<<>>)
    BY <2>3, <2>5 DEF IsSeq
  <2>8. Symbol \notin {"begin", "more"}
    BY <2>2, SymbolsAre
  <2>9. \A symbols : IsSeq(symbols) /\ Remains(Top.kind, symbols, Top.rest)
          => Remains(Top.kind, Append(symbols, Symbol), <<>> \o Tail(Top.rest))
    BY <2>2, <2>3, <2>8, SymbolRead
  <2> QED
    BY <2>1, <2>2, <2>6, <2>7, <2>9, ReadsSymbol
<1>2. CASE At(pos) # Symbol
  BY <1>2, Zenon DEF Literal, ParseError
<1> QED
  BY <1>1, <1>2

LEMMA LeafReads ==
  ASSUME PInv, Leaf, HasBeenRead
  PROVE  HasBeenRead' \/ status' = "rejected"
<1>1. CASE At(pos) \in Leaves[Symbol]
  <2>1. PICK D, node : ReadsAll(D, stack, pos, node)
    BY DEF HasBeenRead
  <2>2. PICK w : w = Word(At(pos))
    OBVIOUS
  <2>3. /\ status = "parsing" /\ Top.rest # <<>> /\ Symbol \in DOMAIN Leaves
        /\ Proceed(1, <<>>, <<w>>)
    BY <1>1, <2>2, Zenon DEF Leaf, Expects
  <2>4. IsSeq(Top.rest) /\ IsSeq(text) /\ Len(text) \in Nat /\ pos \in 1..(Len(text) + 1)
    BY <2>1, HereRead
  <2>5. pos <= Len(text) /\ At(pos) = text[pos]
    BY <1>1, <2>3, LeafTypes, AtText
  <2>6. IsSeq(<<w>>) /\ Len(<<w>>) = 1 /\ <<w>>[1] = w
    BY DEF IsSeq
  <2>7. ReadFor(D, Symbol, 1, <<w>>)
    <3> SUFFICES ASSUME NEW m, NEW l, Adds(m, l, Symbol, 1, <<w>>) PROVE ReadsLeaf(m, l)
      BY Zenon DEF ReadFor
    <3>1. m.tree.parts[m.at[l] + 1] = w
      <4>1. 1 \in 1..Len(<<w>>)
        BY <2>6
      <4> QED
        BY <2>6, <4>1 DEF Adds
    <3>2. m.symbols[l] = Symbol /\ m.cut[l] = pos /\ m.cut[l + 1] = pos + 1
          /\ m.at[l + 1] = m.at[l] + 1
      BY <2>6 DEF Adds
    <3> QED
      BY <1>1, <2>2, <2>3, <2>5, <3>1, <3>2, Zenon DEF ReadsLeaf
  <2>8. pos + 1 \in 1..(Len(text) + 1)
    BY <2>4, <2>5
  <2>9. \A symbols : IsSeq(symbols) /\ Remains(Top.kind, symbols, Top.rest)
          => Remains(Top.kind, Append(symbols, Symbol), <<>> \o Tail(Top.rest))
    <3>1. Symbol \notin {"begin", "more"}
      BY <2>3 DEF Leaves
    <3> QED
      BY <2>3, <2>4, <3>1, SymbolRead
  <2> QED
    BY <2>1, <2>3, <2>6, <2>7, <2>8, <2>9, ReadsSymbol
<1>2. CASE At(pos) \notin Leaves[Symbol]
  BY <1>2, Zenon DEF Leaf, ParseError
<1> QED
  BY <1>1, <1>2

\* An integer that is read is one.
LEMMA IntRead ==
  ASSUME IsSeq(text), NEW p \in 1..(Len(text) + 1)
  PROVE  /\ IntLength(p) \in Nat /\ p + IntLength(p) <= Len(text) + 1
         /\ IsInt(p, p + IntLength(p))
<1> DEFINE sign == IF At(p) = "-" /\ p < Len(text) THEN 1 ELSE 0
           Others == {i \in (p + sign)..Len(text) : text[i] \notin Digits}
           stop == IF Others # {} THEN Min(Others) ELSE 0
<1>1. Len(text) \in Nat
  BY DEF IsSeq
<1>2. PICK n : n = IntLength(p) /\ n \in Nat /\ p + n <= Len(text) + 1
  BY IntegerAt DEF IsInteger
<1>3. n = (IF stop = 0 THEN Len(text) + 1 ELSE stop) - p
  BY <1>2 DEF IntLength, SelectInSubSeq
<1>4. /\ sign \in {0, 1} /\ p + sign \in Nat /\ p + sign <= Len(text) + 1
      /\ sign = 1 => At(p) = "-" /\ p < Len(text)
  BY <1>1
<1>5. sign = 1 => text[p] = "-"
  <2>1. "-" # EndOfText
    BY Zenon DEF EndOfText
  <2> QED
    BY <1>4, <2>1, AtText
<1> HIDE DEF sign
<1>6. Others \in SUBSET Nat /\ \A i \in Others : i \in (p + sign)..Len(text)
  BY <1>1, <1>4
<1>7. ASSUME NEW i \in (p + sign)..(p + n - 1) PROVE i \notin Others
  <2> SUFFICES ASSUME i \in Others PROVE FALSE
    OBVIOUS
  <2> HIDE DEF Others
  <2>1. \E m \in Others : \A j \in Others : m <= j
    BY <1>6, LeastExists
  <2>2. PICK m : m = Min(Others) /\ m \in Others /\ \A j \in Others : m <= j
    BY <2>1 DEF Min
  <2>3. stop = m /\ m \in Nat /\ m > 0 /\ m <= i
    <3>1. m \in (p + sign)..Len(text) /\ m <= i
      BY <1>6, <2>2
    <3>2. m \in Nat /\ m > 0
      BY <1>1, <1>4, <3>1
    <3> QED
      BY <2>2, <3>1, <3>2
  <2> HIDE DEF stop
  <2>4. n = m - p
    BY <1>3, <2>3
  <2> QED
    BY <1>2, <1>4, <2>3, <2>4
<1>8. ASSUME NEW i \in p..(p + n - 1)
      PROVE  text[i] \in Digits \/ (i = p /\ text[i] = "-")
  <2>1. (i = p /\ sign = 1) \/ i \in (p + sign)..(p + n - 1)
    BY <1>2, <1>4
  <2>2. CASE i = p /\ sign = 1
    BY <1>5, <2>2
  <2>3. CASE i \in (p + sign)..(p + n - 1)
    <3>1. i \in (p + sign)..Len(text)
      BY <1>1, <1>2, <1>4, <2>3
    <3> QED
      BY <1>7, <2>3, <3>1
  <2> QED
    BY <2>1, <2>2, <2>3
<1>9. PICK q : q = p + n /\ q \in Nat /\ p <= q
  BY <1>2
<1>10. \A i \in p..(q - 1) : text[i] \in Digits \/ (i = p /\ text[i] = "-")
  <2> SUFFICES ASSUME NEW i \in p..(q - 1)
               PROVE  text[i] \in Digits \/ (i = p /\ text[i] = "-")
    OBVIOUS
  <2>1. i \in p..(p + n - 1)
    BY <1>2, <1>9
  <2> QED
    BY <1>8, <2>1
<1>11. IsInt(p, q)
  BY <1>9, <1>10 DEF IsInt
<1> QED
  BY <1>2, <1>9, <1>11

\* A constant that is read is one.
LEMMA ConstantRead ==
  ASSUME InText, NEW n, n = ConstantLength, n > 0
  PROVE  n \in Nat /\ pos + n \in 1..(Len(text) + 1) /\ IsValue(pos, pos + n)
<1>1. /\ IsSeq(text) /\ Len(text) \in Nat /\ pos \in 1..(Len(text) + 1)
      /\ n \in Nat /\ pos + n <= Len(text) + 1
  BY ConstantAt DEF InText, IsSeq, IsPieces
<1>2. PICK i : i = IntLength(pos) /\ i \in Nat /\ IsInt(pos, pos + i)
  BY <1>1, IntRead
<1>3. At(pos) \in Quoted \cup {"True", "False"} => IsValue(pos, pos + 1)
  <2> SUFFICES ASSUME At(pos) \in Quoted \cup {"True", "False"} PROVE IsValue(pos, pos + 1)
    OBVIOUS
  <2>1. At(pos) # EndOfText
    BY Zenon, ParserAssumption DEF EndOfText
  <2>2. text[pos] \in Quoted \cup {"True", "False"}
    BY <2>1, AtText
  <2> QED
    BY <2>2 DEF IsValue
<1>4. i > 0 => IsValue(pos, pos + i)
  <2> SUFFICES ASSUME i > 0 PROVE IsValue(pos, pos + i)
    OBVIOUS
  <2>1. PICK q : q = pos + i /\ pos < q /\ IsInt(pos, q)
    BY <1>1, <1>2
  <2>2. IsValue(pos, q)
    BY <2>1 DEF IsValue
  <2> QED
    BY <2>1, <2>2
<1>5. FloatLength(pos) > 0 => IsValue(pos, pos + FloatLength(pos))
  <2> SUFFICES ASSUME FloatLength(pos) > 0 PROVE IsValue(pos, pos + FloatLength(pos))
    OBVIOUS
  <2>1. PICK dot : dot = pos + i /\ dot \in Nat
    BY <1>1, <1>2
  <2>2. i # 0 /\ At(dot) = "." /\ FloatLength(pos) = i + 1 + IntLength(pos + i + 1)
    BY <1>2, <2>1 DEF FloatLength
  <2>3. dot <= Len(text) /\ text[dot] = "."
    <3>1. "." # EndOfText
      BY Zenon DEF EndOfText
    <3> QED
      BY <2>2, <3>1, AtText
  <2>4. PICK p : p = dot + 1 /\ p = pos + i + 1 /\ p \in 1..(Len(text) + 1)
    BY <1>1, <1>2, <2>1, <2>3
  <2>5. PICK f : f = IntLength(p) /\ f \in Nat /\ IsInt(p, p + f)
    BY <1>1, <2>4, IntRead
  <2>6. PICK to : to = p + f
    OBVIOUS
  <2>7. dot \in pos..(to - 1) /\ pos < dot
    <3>1. to = dot + 1 + f /\ dot \in Nat /\ f \in Nat /\ pos \in Nat
      BY <1>1, <2>1, <2>4, <2>5, <2>6
    <3>2. pos < dot
      BY <1>1, <1>2, <2>1, <2>2
    <3> QED
      BY <3>1, <3>2
  <2>8. IsInt(pos, dot) /\ IsInt(dot + 1, to)
    BY <1>2, <2>1, <2>4, <2>5, <2>6
  <2>9. IsFloat(pos, to)
    BY <2>3, <2>7, <2>8, Zenon DEF IsFloat
  <2>10. to = pos + FloatLength(pos)
    <3>1. FloatLength(pos) = i + 1 + f
      BY <2>2, <2>4, <2>5
    <3> QED
      BY <1>1, <1>2, <2>4, <2>5, <2>6, <3>1
  <2> QED
    BY <2>9, <2>10 DEF IsValue
<1>6. \/ n = 1 /\ At(pos) \in Quoted \cup {"True", "False"}
      \/ n = FloatLength(pos) /\ FloatLength(pos) > 0
      \/ n = i
      \/ n = 0
  BY <1>2 DEF ConstantLength
<1>7. IsValue(pos, pos + n)
  BY <1>1, <1>3, <1>4, <1>5, <1>6
<1>8. pos + n \in 1..(Len(text) + 1)
  BY <1>1
<1> QED
  BY <1>1, <1>7, <1>8

LEMMA ConstantReads ==
  ASSUME PInv, Constant, HasBeenRead
  PROVE  HasBeenRead' \/ status' = "rejected"
<1>1. PICK n : n = ConstantLength
  OBVIOUS
<1>2. status = "parsing" /\ Top.rest # <<>> /\ Symbol = "value"
  BY Zenon DEF Constant, Expects
<1>3. CASE n > 0
  <2>1. PICK D, node : ReadsAll(D, stack, pos, node)
    BY DEF HasBeenRead
  <2>2. n \in Nat /\ pos + n \in 1..(Len(text) + 1) /\ IsValue(pos, pos + n)
    BY <1>1, <1>3, ConstantRead DEF PInv
  <2>3. PICK new : new = Value(pos, pos + n)
    OBVIOUS
  <2>4. Proceed(n, <<>>, new)
    BY <1>1, <1>3, <2>3, Zenon DEF Constant
  <2>5. IsSeq(new) /\ Len(new) \in Nat
    <3>1. IsPieces(n)
      BY <1>1, <1>3, ConstantAt DEF PInv
    <3> QED
      BY <2>3, <3>1, ValueIs DEF PInv
  <2>6. IsSeq(Top.rest) /\ pos \in Nat
    BY <2>1, HereRead
  <2>7. ReadFor(D, Symbol, n, new)
    <3> SUFFICES ASSUME NEW m, NEW l, Adds(m, l, Symbol, n, new) PROVE ReadsValue(m, l)
      BY Zenon DEF ReadFor
    <3>1. /\ m.symbols[l] = "value" /\ m.cut[l] = pos /\ m.cut[l + 1] = pos + n
          /\ m.at[l + 1] = m.at[l] + Len(new)
          /\ \A k \in 1..Len(new) : m.tree.parts[m.at[l] + k] = new[k]
      BY <1>2, <2>5 DEF Adds
    <3>2. Len(new) = m.at[l + 1] - m.at[l]
      <4>1. m.at[l] \in Nat
        BY DEF Adds
      <4> QED
        BY <2>5, <3>1, <4>1
    <3> QED
      BY <2>2, <2>3, <3>1, <3>2, Zenon DEF ReadsValue
  <2>8. \A symbols : IsSeq(symbols) /\ Remains(Top.kind, symbols, Top.rest)
          => Remains(Top.kind, Append(symbols, Symbol), <<>> \o Tail(Top.rest))
    <3>1. Symbol \notin {"begin", "more"}
      BY <1>2
    <3> QED
      BY <1>2, <2>6, <3>1, SymbolRead
  <2> QED
    BY <1>2, <2>1, <2>2, <2>4, <2>5, <2>7, <2>8, ReadsSymbol
<1>4. CASE ~(n > 0)
  BY <1>1, <1>4, Zenon DEF Constant, ParseError
<1> QED
  BY <1>3, <1>4

LEMMA CallReads ==
  ASSUME PInv, Call, HasBeenRead
  PROVE  HasBeenRead' \/ status' = "rejected"
<1> DEFINE forms == Called[Symbol]
           chosen == {kind \in DOMAIN forms : Matches(Opening(forms[kind]))}
<1>1. status = "parsing" /\ Top.rest # <<>> /\ Symbol \in DOMAIN Called
  BY Zenon DEF Call, Expects
<1>2. CASE chosen = {}
  BY <1>2, Zenon DEF Call, ParseError
<1>3. CASE chosen # {}
  <2>1. PICK D, node : ReadsAll(D, stack, pos, node)
    BY DEF HasBeenRead
  <2>2. PICK kind \in chosen : stack' = Append(stack, Activation(kind, forms[kind]))
    BY <1>3, Zenon DEF Call
  <2>3. UNCHANGED <<text, pos, status>>
    BY <1>3, Zenon DEF Call
  <2>4. PICK form : form = Called[Symbol][kind]
    OBVIOUS
  <2>5. IsSeq(form) /\ IsForm(kind, form)
    BY <1>1, <2>4, FormsBegin DEF Begins, IsForm
  <2>6. Remains(kind, <<>>, form)
    <3>1. <<>> \o form = form
      BY <2>5, ConcatEmpty
    <3> QED
      BY <2>5, <3>1, Zenon DEF Remains, FormRemains
  <2>7. stack' = Append(stack, Activation(kind, form))
    BY <2>2, <2>4
  <2> QED
    BY <2>1, <2>3, <2>6, <2>7, ReadsDown
<1> QED
  BY <1>2, <1>3

LEMMA VectorReads ==
  ASSUME PInv, Vector, HasBeenRead
  PROVE  HasBeenRead' \/ status' = "rejected"
<1>1. PICK D, node : ReadsAll(D, stack, pos, node)
  BY DEF HasBeenRead
<1>2. /\ Symbol \in DOMAIN Lists
      /\ stack' = Append(stack, Activation(Symbol, <<"[", "begin">>))
      /\ UNCHANGED <<text, pos, status>>
  BY Zenon DEF Vector, Expects
<1>3. Remains(Symbol, <<>>, <<"[", "begin">>)
  BY <1>2, Zenon DEF Remains, ListRemains
<1> QED
  BY <1>1, <1>2, <1>3, ReadsDown

\* The node stays as it is, and what is left of it is known better.
LEMMA ReadsSame ==
  ASSUME PInv, NEW D, NEW node, ReadsAll(D, stack, pos, node), status = "parsing",
         NEW form, Proceed(0, form, <<>>),
         \A symbols : IsSeq(symbols) /\ Remains(Top.kind, symbols, Top.rest)
                        => Remains(Top.kind, symbols, form \o Tail(Top.rest))
  PROVE  HasBeenRead' /\ status' = "parsing"
<1>1. PICK n : n = node[Len(stack)]
  OBVIOUS
<1>2. HasRead(D, Top, n) /\ pos = To(n) /\ pos + 0 = pos
  BY <1>1, HereRead
<1>3. /\ SoFar(D, n) /\ Bounded(n) /\ n.tree.kind = Top.kind /\ n.tree.parts = Top.parts
      /\ Remains(Top.kind, n.symbols, Top.rest) /\ IsSeq(n.symbols) /\ IsSeq(n.tree.parts)
  BY <1>2 DEF HasRead, SoFar
<1>4. PICK a : a = Later(Top, form \o Tail(Top.rest), Top.parts \o <<>>)
  OBVIOUS
<1>5. Top.parts \o <<>> = Top.parts
  BY <1>3, ConcatEmpty
<1>6. a.kind = Top.kind /\ a.rest = form \o Tail(Top.rest) /\ a.parts = Top.parts
  BY <1>4, <1>5 DEF Later
<1>7. Remains(a.kind, n.symbols, a.rest)
  BY <1>3, <1>6
<1>8. HasRead(D, a, n)
  BY <1>3, <1>6, <1>7, Zenon DEF HasRead
<1> QED
  BY <1>1, <1>2, <1>4, <1>8, ReadsOn

\* The last symbol of an end is a bracket.
LEMMA EndsClose ==
  \A symbol \in DOMAIN Ends : \A e \in DOMAIN Ends[symbol] :
    Len(Ends[symbol][e]) > 0 /\ Ends[symbol][e][Len(Ends[symbol][e])] = ")"
<1>1. DOMAIN Ends = {"returned", "optionalVars", "endOfDef"}
  BY SymbolsAre
<1>2. Len(Ends["returned"][1]) > 0 /\ Ends["returned"][1][Len(Ends["returned"][1])] = ")"
  BY DEF Ends
<1>3. Len(Ends["returned"][2]) > 0 /\ Ends["returned"][2][Len(Ends["returned"][2])] = ")"
  BY DEF Ends
<1>4. Len(Ends["optionalVars"][1]) > 0
      /\ Ends["optionalVars"][1][Len(Ends["optionalVars"][1])] = ")"
  BY DEF Ends
<1>5. Len(Ends["optionalVars"][2]) > 0
      /\ Ends["optionalVars"][2][Len(Ends["optionalVars"][2])] = ")"
  BY DEF Ends
<1>6. Len(Ends["endOfDef"][1]) > 0 /\ Ends["endOfDef"][1][Len(Ends["endOfDef"][1])] = ")"
  BY DEF Ends
<1>7. Len(Ends["endOfDef"][2]) > 0 /\ Ends["endOfDef"][2][Len(Ends["endOfDef"][2])] = ")"
  BY DEF Ends
<1>8. DOMAIN Ends["returned"] = {1, 2}
  BY DEF Ends
<1>9. DOMAIN Ends["optionalVars"] = {1, 2}
  BY DEF Ends
<1>10. DOMAIN Ends["endOfDef"] = {1, 2}
  BY DEF Ends
<1> QED
  BY <1>1, <1>2, <1>3, <1>4, <1>5, <1>6, <1>7, <1>8, <1>9, <1>10

\* A form with one of its ends is not one that has an end to choose.
LEMMA EndedCloses ==
  ASSUME NEW form, IsSeq(form), NEW symbols, IsEnded(form, symbols)
  PROVE  Last(symbols) \notin DOMAIN Ends
<1>1. form # <<>> /\ Last(form) \in DOMAIN Ends
  BY DEF IsEnded
<1>2. PICK e \in DOMAIN Ends[Last(form)] : symbols = Front(form) \o Ends[Last(form)][e]
  BY DEF IsEnded
<1>3. PICK end : end = Ends[Last(form)][e]
  OBVIOUS
<1>4. IsSeq(end) /\ Len(end) > 0 /\ end[Len(end)] = ")"
  BY <1>1, <1>2, <1>3, EndsAreForms, EndsClose
<1>5. Last(symbols) = ")"
  <2> DEFINE U == ElementsOf(form) \cup ElementsOf(end)
  <2>1. form \in Seq(U) /\ end \in Seq(U)
    BY <1>4, SeqOfElements, SeqGrows
  <2> HIDE DEF U
  <2>2. PICK f : f = Front(form) /\ f \in Seq(U)
    BY <1>1, <2>1, FrontOf
  <2>3. PICK x : x = f \o end /\ x = symbols
    BY <1>2, <1>3, <2>2
  <2>4. PICK b : b = Len(end) /\ b \in Nat /\ b > 0
    BY <1>4 DEF IsSeq
  <2>5. PICK a : a = Len(f) /\ a \in Nat
    BY <2>2
  <2>6. Len(x) = a + b /\ x[a + b] = end[b]
    <3>1. PICK g : g = end /\ g \in Seq(U) /\ f \in Seq(U) /\ Len(g) = b /\ Len(f) = a
      BY <2>1, <2>2, <2>4, <2>5
    <3>2. Len(f \o g) = a + b /\ \A k \in 1..b : (f \o g)[a + k] = g[k]
      BY <2>4, <2>5, <3>1
    <3>3. b \in 1..b
      BY <2>4
    <3> QED
      BY <2>3, <3>1, <3>2, <3>3
  <2> QED
    BY <1>4, <2>3, <2>4, <2>6 DEF Last
<1> QED
  BY <1>5, SymbolsAre

\* The end that is chosen takes the place of the symbol for it.
LEMMA EndRemains ==
  ASSUME NEW kind, NEW symbols, IsSeq(symbols), NEW rest, IsSeq(rest), rest # <<>>,
         Tail(rest) = <<>>, Head(rest) \in DOMAIN Ends, Remains(kind, symbols, rest),
         NEW e \in DOMAIN Ends[Head(rest)]
  PROVE  Remains(kind, symbols, Ends[Head(rest)][e] \o Tail(rest))
<1>1. PICK x : x = Head(rest)
  OBVIOUS
<1>2. rest = <<x>>
  <2>1. Len(rest) > 0 /\ x = rest[1] /\ Len(Tail(rest)) = Len(rest) - 1 /\ Len(<<>>) = 0
    BY <1>1, TailOf
  <2>2. Len(rest) = 1
    BY <2>1 DEF IsSeq
  <2>3. rest = [i \in 1..1 |-> rest[i]] /\ \A i \in 1..1 : i = 1
    BY <2>2 DEF IsSeq
  <2>4. <<x>> = [i \in 1..1 |-> x]
    OBVIOUS
  <2> QED
    BY <2>1, <2>3, <2>4
<1>3. ~ListRemains(kind, symbols, rest)
  <2>1. /\ Head(<<"begin">>) = "begin" /\ Head(<<"more">>) = "more"
        /\ Head(<<"[", "begin">>) = "[" /\ Head(<<"]">>) = "]"
        /\ \A y : Head(<<y, "more">>) = y
    OBVIOUS
  <2>2. /\ x \notin {"begin", "more", "[", "]"}
        /\ kind \in DOMAIN Lists => x # Lists[kind]
    BY <1>1, SymbolsAre DEF Lists
  <2> QED
    BY <1>1, <2>1, <2>2, Zenon DEF ListRemains
<1>4. FormRemains(kind, symbols, <<x>>)
  BY <1>2, <1>3, Zenon DEF Remains
<1>5. PICK form : /\ IsForm(kind, form)
                  /\ symbols \o <<x>> = form \/ IsEnded(form, symbols \o <<x>>)
  BY <1>4, Zenon DEF FormRemains
<1>6. PICK all : all = Append(symbols, x) /\ all = symbols \o <<x>>
  BY AppendIs
<1>7. /\ IsSeq(all) /\ Len(all) = Len(symbols) + 1 /\ all[Len(all)] = x
      /\ \A i \in 1..Len(symbols) : all[i] = symbols[i]
  <2>1. /\ IsSeq(Append(symbols, x)) /\ Len(Append(symbols, x)) = Len(symbols) + 1
        /\ Append(symbols, x)[Len(symbols) + 1] = x
        /\ \A i \in 1..Len(symbols) : Append(symbols, x)[i] = symbols[i]
    BY AppendIs
  <2> QED
    BY <1>6, <2>1, Zenon
<1>8. Last(all) = x /\ x \in DOMAIN Ends
  BY <1>1, <1>7 DEF Last
<1>9. IsSeq(form)
  BY <1>5, FormsBegin, ModuleForm, FormIsSeq DEF Begins, IsForm
<1>10. form = all
  <2>1. ~IsEnded(form, all)
    BY <1>8, <1>9, EndedCloses
  <2> QED
    BY <1>5, <1>6, <2>1
<1>11. form # <<>> /\ Front(form) = symbols
  <2>1. Len(symbols) \in Nat /\ Len(<<>>) = 0
    BY DEF IsSeq
  <2>2. all # <<>>
    BY <1>7, <2>1
  <2>3. all \in Seq(ElementsOf(all))
    BY <1>7, SeqOfElements
  <2>4. PICK f : f = Front(all)
    OBVIOUS
  <2>5. /\ f \in Seq(ElementsOf(all)) /\ Len(f) = Len(all) - 1
        /\ \A k \in 1..(Len(all) - 1) : f[k] = all[k]
    BY <2>2, <2>3, <2>4, FrontOf
  <2>6. IsSeq(f) /\ Len(f) = Len(symbols) /\ \A k \in 1..Len(symbols) : f[k] = symbols[k]
    <3>1. Len(all) - 1 = Len(symbols)
      BY <1>7, <2>1
    <3> QED
      BY <1>7, <2>5, <3>1, SeqIs
  <2>7. f = symbols
    BY <2>6 DEF IsSeq
  <2> QED
    BY <1>10, <2>2, <2>4, <2>7
<1>12. IsEnded(form, symbols \o Ends[x][e])
  BY <1>1, <1>8, <1>10, <1>11, Zenon DEF IsEnded
<1>13. Ends[x][e] \o Tail(rest) = Ends[x][e]
  BY <1>1, <1>8, EndsAreForms, ConcatEmpty
<1> QED
  BY <1>1, <1>5, <1>12, <1>13, Zenon DEF Remains, FormRemains

LEMMA EndReads ==
  ASSUME PInv, End, HasBeenRead
  PROVE  HasBeenRead' \/ status' = "rejected"
<1> DEFINE n == SelectInSeq(Ends[Symbol], LAMBDA form : Matches(Opening(form)))
<1>1. status = "parsing" /\ Top.rest # <<>> /\ Symbol \in DOMAIN Ends
  BY Zenon DEF End, Expects
<1>2. CASE n # 0
  <2>1. PICK D, node : ReadsAll(D, stack, pos, node)
    BY DEF HasBeenRead
  <2>2. n \in DOMAIN Ends[Symbol]
    BY <1>1, <1>2, EndChosen
  <2>3. PICK e \in DOMAIN Ends[Symbol] : Proceed(0, Ends[Symbol][e], <<>>)
    <3>1. Proceed(0, Ends[Symbol][n], <<>>)
      BY <1>2, Zenon DEF End
    <3> HIDE DEF n
    <3> QED
      BY <2>2, <3>1
  <2>4. PICK form : form = Ends[Symbol][e]
    OBVIOUS
  <2>5. IsSeq(Top.rest)
    BY <2>1, HereRead
  <2>6. Tail(Top.rest) = <<>>
    <3>1. PICK T : ActivationOK(Top, T)
      BY Running
    <3>2. Top.kind \notin DOMAIN Elements
      BY <1>1, <3>1, VectorTail DEF ActivationOK, InStep, Symbol
    <3> QED
      BY <1>1, <3>1, <3>2, FormEnd DEF ActivationOK, InStep, Symbol
  <2>7. ASSUME NEW symbols, IsSeq(symbols), Remains(Top.kind, symbols, Top.rest)
        PROVE  Remains(Top.kind, symbols, form \o Tail(Top.rest))
    BY <1>1, <2>4, <2>5, <2>6, <2>7, EndRemains DEF Symbol
  <2> QED
    BY <1>1, <2>1, <2>3, <2>4, <2>7, ReadsSame
<1>3. CASE n = 0
  BY <1>3, Zenon DEF End, ParseError
<1> QED
  BY <1>2, <1>3

LEMMA WordRead ==
  ASSUME NEW D, NEW s, s \notin Parts, text[pos] = s
  PROVE  ReadFor(D, s, 1, <<>>)
<1> SUFFICES ASSUME NEW m, NEW l, Adds(m, l, s, 1, <<>>) PROVE ReadsWord(m, l)
  BY Zenon DEF ReadFor
<1>1. Len(<<>>) = 0
  OBVIOUS
<1> QED
  BY <1>1 DEF Adds, ReadsWord

\* Where a vector decides whether there is another element, its [ has been read, or
\* an element.
LEMMA ListDecides ==
  ASSUME NEW kind \in DOMAIN Lists, NEW symbols, NEW rest, rest # <<>>,
         Remains(kind, symbols, rest)
  PROVE  /\ Head(rest) = "begin" => symbols = <<"[">>
         /\ Head(rest) = "more" => \E n : Knows(Lists[kind], symbols, n)
<1>1. ListRemains(kind, symbols, rest)
  <2>1. \A form : ~IsForm(kind, form)
    BY KindsApart DEF IsForm
  <2> QED
    BY <2>1 DEF Remains, FormRemains
<1>2. /\ Head(<<"more">>) = "more" /\ Head(<<"[", "begin">>) = "[" /\ Head(<<"]">>) = "]"
      /\ Head(<<"begin">>) = "begin" /\ \A y : Head(<<y, "more">>) = y
  OBVIOUS
<1>3. Lists[kind] \notin {"begin", "more"}
  BY DEF Lists
<1>4. CASE Head(rest) = "begin"
  <2>1. "begin" \notin {"more", "[", "]"}
    OBVIOUS
  <2> QED
    BY <1>1, <1>2, <1>3, <1>4, <2>1, Zenon DEF ListRemains
<1>5. CASE Head(rest) = "more"
  <2>1. "more" \notin {"begin", "[", "]"}
    OBVIOUS
  <2> QED
    BY <1>1, <1>2, <1>3, <1>5, <2>1, Zenon DEF ListRemains
<1> QED
  BY <1>4, <1>5

LEMMA BeginReads ==
  ASSUME PInv, Begin, HasBeenRead
  PROVE  HasBeenRead' \/ status' = "rejected"
<1>1. PICK D, node : ReadsAll(D, stack, pos, node)
  BY DEF HasBeenRead
<1>2. status = "parsing" /\ Top.rest # <<>> /\ Symbol = "begin"
  BY Zenon DEF Begin, Expects
<1>3. Top.kind \in DOMAIN Lists /\ Tail(Top.rest) = <<>>
  <2>1. PICK T : ActivationOK(Top, T)
    BY Running
  <2> QED
    BY <1>2, <2>1, FirstSymbol DEF Symbol
<1>4. \A symbols : Remains(Top.kind, symbols, Top.rest) => symbols = <<"[">>
  BY <1>2, <1>3, ListDecides DEF Symbol
<1>5. IsSeq(text) /\ Len(text) \in Nat /\ pos \in 1..(Len(text) + 1)
  BY <1>1, HereRead
<1>6. PICK element : element = Lists[Top.kind]
  OBVIOUS
<1>7. CASE At(pos) = "]"
  <2>1. Proceed(1, <<>>, <<>>)
    BY <1>7, Zenon DEF Begin
  <2>2. pos <= Len(text) /\ text[pos] = "]"
    <3>1. "]" # EndOfText
      BY Zenon DEF EndOfText
    <3> QED
      BY <1>7, <3>1, AtText
  <2>3. ReadFor(D, "]", 1, <<>>)
    <3>1. "]" \notin Parts
      BY SymbolsAre
    <3> QED
      BY <2>2, <3>1, WordRead
  <2>4. pos + 1 \in 1..(Len(text) + 1) /\ IsSeq(<<>>)
    BY <1>5, <2>2 DEF IsSeq
  <2>5. Remains(Top.kind, Append(<<"[">>, "]"), <<>> \o Tail(Top.rest))
    <3>1. <<>> \o Tail(Top.rest) = <<>>
      BY <1>3, <2>4, ConcatEmpty
    <3>2. IsList(element, Append(<<"[">>, "]"), 0)
      <4>1. PICK o : o = <<"[">> /\ IsSeq(o) /\ Len(o) = 1 /\ o[1] = "["
        <5>1. IsSeq(<<"[">>) /\ Len(<<"[">>) = 1 /\ <<"[">>[1] = "["
          BY DEF IsSeq
        <5> QED
          BY <5>1, Zenon
      <4>2. PICK t : t = Append(o, "]")
        OBVIOUS
      <4>3. IsSeq(t) /\ Len(t) = 2 /\ t[2] = "]" /\ t[1] = "["
        <5>1. /\ IsSeq(t) /\ Len(t) = 1 + 1 /\ t[1 + 1] = "]"
              /\ \A i \in 1..1 : t[i] = o[i]
          <6>0. IsSeq(o)
            BY <4>1
          <6>1. /\ IsSeq(Append(o, "]")) /\ Len(Append(o, "]")) = Len(o) + 1
                /\ Append(o, "]")[Len(o) + 1] = "]"
                /\ \A i \in 1..Len(o) : Append(o, "]")[i] = o[i]
            BY <6>0, AppendIs, Zenon
          <6> QED
            BY <4>1, <4>2, <6>1, Zenon
        <5> QED
          BY <4>1, <5>1
      <4> QED
        BY <4>1, <4>2, <4>3 DEF IsList
    <3> QED
      BY <1>3, <1>6, <3>1, <3>2, Zenon DEF Remains, ListRemains
  <2>6. \A symbols : IsSeq(symbols) /\ Remains(Top.kind, symbols, Top.rest)
          => Remains(Top.kind, Append(symbols, "]"), <<>> \o Tail(Top.rest))
    BY <1>4, <2>5, Zenon
  <2> QED
    BY <1>1, <1>2, <2>1, <2>3, <2>4, <2>6, ReadsSymbol
<1>8. CASE At(pos) # "]"
  <2>1. PICK form : form = <<element, "more">>
    OBVIOUS
  <2>2. Proceed(0, form, <<>>)
    BY <1>6, <1>8, <2>1, Zenon DEF Begin
  <2>3. Remains(Top.kind, <<"[">>, form \o Tail(Top.rest))
    <3>1. form \o Tail(Top.rest) = <<element, "more">>
      <4>1. IsSeq(<<element, "more">>)
        BY DEF IsSeq
      <4> QED
        BY <1>3, <2>1, <4>1, ConcatEmpty, Zenon
    <3>2. Awaits(element, <<"[">>, 0)
      BY DEF Awaits, HasElements, IsSeq
    <3> QED
      BY <1>3, <1>6, <3>1, <3>2, Zenon DEF Remains, ListRemains
  <2>4. \A symbols : IsSeq(symbols) /\ Remains(Top.kind, symbols, Top.rest)
          => Remains(Top.kind, symbols, form \o Tail(Top.rest))
    BY <1>4, <2>3, Zenon
  <2> QED
    BY <1>1, <1>2, <2>2, <2>4, ReadsSame
<1> QED
  BY <1>7, <1>8

LEMMA MoreReads ==
  ASSUME PInv, More, HasBeenRead
  PROVE  HasBeenRead' \/ status' = "rejected"
<1>1. PICK D, node : ReadsAll(D, stack, pos, node)
  BY DEF HasBeenRead
<1>2. status = "parsing" /\ Top.rest # <<>> /\ Symbol = "more"
  BY Zenon DEF More, Expects
<1>3. Top.kind \in DOMAIN Lists /\ Tail(Top.rest) = <<>>
  <2>1. PICK T : ActivationOK(Top, T)
    BY Running
  <2> QED
    BY <1>2, <2>1, FirstSymbol DEF Symbol
<1>4. PICK element : element = Lists[Top.kind]
  OBVIOUS
<1>5. \A symbols : Remains(Top.kind, symbols, Top.rest) => \E n : Knows(element, symbols, n)
  BY <1>2, <1>3, <1>4, ListDecides DEF Symbol
<1>6. IsSeq(text) /\ Len(text) \in Nat /\ pos \in 1..(Len(text) + 1)
  BY <1>1, HereRead
<1>7. CASE At(pos) = Comma
  <2>1. PICK form : form = <<element, "more">>
    OBVIOUS
  <2>2. Proceed(1, form, <<>>)
    BY <1>4, <1>7, <2>1, Zenon DEF More, Comma
  <2>3. Comma \in Literals
    BY DEF Literals
  <2>4. Comma \notin Parts /\ Comma # EndOfText
    BY <2>3, LiteralsAre
  <2>5. pos <= Len(text) /\ text[pos] = Comma
    BY <1>7, <2>4, AtText
  <2>6. ReadFor(D, Comma, 1, <<>>)
    BY <2>4, <2>5, WordRead
  <2>7. pos + 1 \in 1..(Len(text) + 1) /\ IsSeq(<<>>)
    BY <1>6, <2>5 DEF IsSeq
  <2>8. form \o Tail(Top.rest) = <<element, "more">>
    <3>1. IsSeq(<<element, "more">>)
      BY DEF IsSeq
    <3> QED
      BY <1>3, <2>1, <3>1, ConcatEmpty, Zenon
  <2>9. ASSUME NEW symbols, IsSeq(symbols), Remains(Top.kind, symbols, Top.rest)
        PROVE  Remains(Top.kind, Append(symbols, Comma), form \o Tail(Top.rest))
    <3>1. PICK n : Knows(element, symbols, n)
      BY <1>5, <2>9
    <3>2. Awaits(element, Append(symbols, Comma), n)
      BY <3>1, CommaRead
    <3> QED
      BY <1>3, <1>4, <2>8, <3>2, Zenon DEF Remains, ListRemains
  <2> QED
    BY <1>1, <1>2, <2>2, <2>6, <2>7, <2>9, ReadsSymbol
<1>8. CASE At(pos) # Comma
  <2>1. PICK form : form = <<"]">>
    OBVIOUS
  <2>2. Proceed(0, form, <<>>)
    BY <1>8, <2>1, Zenon DEF More, Comma
  <2>3. form \o Tail(Top.rest) = <<"]">>
    <3>1. IsSeq(<<"]">>)
      BY DEF IsSeq
    <3> QED
      BY <1>3, <2>1, <3>1, ConcatEmpty, Zenon
  <2>4. ASSUME NEW symbols, IsSeq(symbols), Remains(Top.kind, symbols, Top.rest)
        PROVE  Remains(Top.kind, symbols, form \o Tail(Top.rest))
    <3>1. \E n : Knows(element, symbols, n)
      BY <1>5, <2>4
    <3> QED
      BY <1>3, <1>4, <2>3, <3>1, Zenon DEF Remains, ListRemains
  <2> QED
    BY <1>1, <1>2, <2>2, <2>4, ReadsSame
<1> QED
  BY <1>7, <1>8

LEMMA ReadByMore ==
  ASSUME NEW D, NEW E, D \subseteq E, NEW n, SoFar(D, n)
  PROVE  SoFar(E, n)
<1>1. \A i : ReadsNode(D, n, i) => ReadsNode(E, n, i)
  BY DEF ReadsNode
<1> QED
  BY <1>1 DEF SoFar

LEMMA HasReadByMore ==
  ASSUME NEW D, NEW E, D \subseteq E, NEW a, NEW n, HasRead(D, a, n)
  PROVE  HasRead(E, a, n)
BY ReadByMore DEF HasRead

\* A function that is over has read a whole node of its kind.
LEMMA Finished ==
  ASSUME NEW D, IsDerivation(D), NEW a, NEW n, HasRead(D, a, n), a.rest = <<>>
  PROVE  /\ IsDerivation(D \cup {n}) /\ n.tree = Node(a.kind, a.parts)
         /\ n.tree.kind = a.kind
<1>1. /\ SoFar(D, n) /\ n.tree.kind = a.kind /\ n.tree.parts = a.parts
      /\ Remains(a.kind, n.symbols, <<>>) /\ IsSeq(n.symbols) /\ Len(n.symbols) \in Nat
  BY DEF HasRead, SoFar, IsSeq
<1>2. n.tree = Node(a.kind, a.parts)
  BY <1>1 DEF SoFar
<1>3. ASSUME FormRemains(a.kind, n.symbols, <<>>) PROVE Produces(a.kind, n.symbols)
  <2>1. n.symbols \o <<>> = n.symbols
    BY <1>1, ConcatEmpty
  <2>2. PICK form : IsForm(a.kind, form) /\ (n.symbols = form \/ IsEnded(form, n.symbols))
    BY <1>3, <2>1, Zenon DEF FormRemains
  <2>3. CASE n.symbols = form
    <3>1. Len(form) > 0
      <4>1. CASE form = generate_module
        <5>1. \E b, c, d, e, f, g, h, j : form = <<b, c, d, e, f, g, h, j>>
          BY <4>1, Zenon DEF generate_module
        <5> QED
          BY <5>1
      <4>2. CASE form # generate_module
        <5>1. PICK s \in DOMAIN Called : a.kind \in DOMAIN Called[s] /\ form = Called[s][a.kind]
          BY <2>2, <4>2 DEF IsForm
        <5>2. PICK kind : kind = a.kind
          OBVIOUS
        <5>3. Begins(kind, form) /\ Len(form) \in Nat
          BY <5>1, <5>2, FormsBegin DEF Begins, IsSeq
        <5> QED
          BY <5>3 DEF Begins
      <4> QED
        BY <4>1, <4>2
    <3>2. PICK i : i = Len(n.symbols) /\ i \in 1..Len(n.symbols)
      BY <1>1, <2>3, <3>1
    <3>3. ReadsWord(n, i) \/ ReadsLeaf(n, i) \/ ReadsValue(n, i) \/ ReadsNode(D, n, i)
      BY <1>1, <3>2 DEF SoFar
    <3>4. n.symbols[i] \notin DOMAIN Ends
      BY <3>3, Reading
    <3>5. Last(form) \notin DOMAIN Ends
      BY <2>3, <3>2, <3>4 DEF Last
    <3> QED
      BY <2>2, <2>3, <3>5, Zenon DEF Produces
  <2> QED
    BY <2>2, <2>3, Zenon DEF Produces
<1>4. ASSUME ListRemains(a.kind, n.symbols, <<>>) PROVE Produces(a.kind, n.symbols)
  <2>1. /\ <<>> # <<"[", "begin">> /\ <<>> # <<"begin">> /\ <<>> # <<"more">>
        /\ <<>> # <<"]">> /\ <<>> # <<Lists[a.kind], "more">>
    OBVIOUS
  <2>2. a.kind \in DOMAIN Lists /\ \E k : IsList(Lists[a.kind], n.symbols, k)
    BY <1>4, <2>1, Zenon DEF ListRemains
  <2>3. PICK k : IsList(Lists[a.kind], n.symbols, k)
    BY <2>2
  <2>4. k \in Nat
    BY <2>3 DEF IsList
  <2> QED
    BY <2>2, <2>3, <2>4, Zenon DEF Produces
<1>5. Produces(n.tree.kind, n.symbols)
  BY <1>1, <1>3, <1>4 DEF Remains
<1>6. ASSUME NEW x \in D \cup {n} PROVE SoFar(D \cup {n}, x) /\ Produces(x.tree.kind, x.symbols)
  <2>1. SoFar(D, x) /\ Produces(x.tree.kind, x.symbols)
    BY <1>1, <1>5 DEF IsDerivation
  <2> QED
    BY <2>1, ReadByMore
<1> QED
  BY <1>1, <1>2, <1>6 DEF IsDerivation

LEMMA FinishReads ==
  ASSUME PInv, Finish, HasBeenRead
  PROVE  (status' = "accepted" /\ IsDumpOf(module)') \/ status' = "rejected"
<1>1. PICK D, node : ReadsAll(D, stack, pos, node)
  BY DEF HasBeenRead
<1>2. Top.rest = <<>> /\ Len(stack) = 1 /\ text' = text
  BY DEF Finish
<1>3. PICK n : n = node[1]
  OBVIOUS
<1>4. /\ HasRead(D, Top, n) /\ pos = To(n) /\ From(n) = 1 /\ IsDerivation(D)
      /\ Top = stack[1]
  <2>1. From(node[1]) = 1 /\ IsDerivation(D)
    BY <1>1 DEF ReadsAll
  <2> QED
    BY <1>1, <1>2, <1>3, <2>1, HereRead
<1>5. Top.kind = "Module"
  <2>1. PICK T : StackOK(stack, T)
    BY Running
  <2> QED
    BY <1>4, <2>1 DEF StackOK
<1>6. /\ IsDerivation(D \cup {n}) /\ n.tree = Result /\ n.tree.kind = "Module"
  BY <1>2, <1>4, <1>5, Finished DEF Result
<1>7. CASE pos = Len(text) + 1
  <2>1. status' = "accepted" /\ module' = Result
    BY <1>7 DEF Finish
  <2>2. PICK E : E = D \cup {n} /\ n \in E
    <3>1. n \in D \cup {n}
      OBVIOUS
    <3> QED
      BY <3>1, Zenon
  <2>3. IsRoot(E, n)
    BY <1>4, <1>6, <1>7, <2>2 DEF IsRoot
  <2>4. IsRoot(E, n)'
    BY <1>2, <2>3, RootStays
  <2>5. n.tree = module'
    BY <1>6, <2>1
  <2> QED
    BY <2>1, <2>4, <2>5 DEF IsDumpOf
<1>8. CASE pos # Len(text) + 1
  BY <1>8 DEF Finish
<1> QED
  BY <1>7, <1>8

LEMMA InitReads ==
  ASSUME PInit
  PROVE  HasBeenRead
<1>1. PICK form : form = generate_module
  OBVIOUS
<1>2. PICK a : a = Activation("Module", form)
  OBVIOUS
<1>3. stack = <<a>> /\ pos = 1
  BY <1>1, <1>2 DEF PInit
<1>4. Len(text) \in Nat
  BY PInitKeeps DEF PInv, InText, IsSeq
<1>5. IsSeq(form)
  BY <1>1, ModuleForm, FormIsSeq
<1>6. Remains("Module", <<>>, form)
  <2>1. <<>> \o form = form
    BY <1>5, ConcatEmpty
  <2>2. IsForm("Module", form)
    BY <1>1 DEF IsForm
  <2> QED
    BY <2>1, <2>2, Zenon DEF Remains, FormRemains
<1>7. PICK c : HasRead({}, a, c) /\ From(c) = 1 /\ To(c) = 1
  <2>1. pos \in 1..(Len(text) + 1)
    BY <1>3, <1>4
  <2> QED
    BY <1>2, <1>3, <1>6, <2>1, Unread
<1>8. PICK node : node = <<c>>
  OBVIOUS
<1>9. Len(stack) = 1 /\ stack[1] = a /\ node[1] = c
  BY <1>3, <1>8
<1>10. IsDerivation({})
  BY DEF IsDerivation
<1>11. \A d \in 1..Len(stack) : HasRead({}, stack[d], node[d])
  <2>1. \A d \in 1..1 : d = 1
    OBVIOUS
  <2> QED
    BY <1>7, <1>9, <2>1
<1>12. ReadsAll({}, stack, pos, node)
  BY <1>3, <1>7, <1>9, <1>10, <1>11 DEF ReadsAll
<1> QED
  BY <1>12 DEF HasBeenRead

LEMMA ReturnReads ==
  ASSUME PInv, Return, HasBeenRead
  PROVE  HasBeenRead' /\ status' = "parsing"
<1>1. PICK D, node : ReadsAll(D, stack, pos, node)
  BY DEF HasBeenRead
<1>2. Top.rest = <<>> /\ pos' = pos /\ text' = text /\ status' = "parsing" /\ Len(stack) > 1
  BY Zenon DEF Return
<1>3. PICK caller, l : caller = Front(stack) /\ l = Len(caller)
  OBVIOUS
<1>4. PICK b, a : b = Last(caller) /\ a = Later(b, Tail(b.rest), Append(b.parts, Result))
  OBVIOUS
<1>5. /\ l \in Nat /\ l > 0 /\ Len(stack) = l + 1 /\ IsSeq(caller)
      /\ \A d \in 1..l : caller[d] = stack[d]
      /\ stack' = [caller EXCEPT ![l] = a]
  BY <1>3, <1>4, ReturnIs, Zenon
<1>6. l \in 1..l /\ l \in 1..(l + 1) /\ l + 1 \in 1..(l + 1) /\ b = stack[l]
  BY <1>3, <1>4, <1>5 DEF Last
<1>7. PICK n, c : n = node[l] /\ c = node[l + 1]
  OBVIOUS
<1>8. /\ HasRead(D, b, n) /\ HasRead(D, Top, c) /\ IsDerivation(D)
      /\ To(n) = From(c) /\ pos = To(c) /\ pos \in 1..(Len(text) + 1)
  <2>1. HasRead(D, b, n)
    BY <1>1, <1>5, <1>6, <1>7 DEF ReadsAll
  <2>2. l \in 1..(Len(stack) - 1)
    BY <1>5
  <2>3. To(n) = From(c) /\ IsDerivation(D)
    BY <1>1, <1>7, <2>2 DEF ReadsAll
  <2> QED
    BY <1>1, <1>5, <1>7, <2>1, <2>3, HereRead
<1>9. PICK s : s = Head(b.rest)
  OBVIOUS
<1>10. b.rest # <<>> /\ IsSeq(b.rest) /\ Answers(Top.kind, s)
  <2>1. PICK T : StackOK(stack, T)
    BY Running
  <2>2. b.rest # <<>> /\ Answers(Top.kind, s)
    BY <1>2, <1>3, <1>4, <1>9, <2>1, StackFront DEF Top
  <2>3. ActivationOK(b, T)
    BY <1>5, <1>6, <2>1 DEF StackOK
  <2> QED
    BY <2>2, <2>3 DEF ActivationOK
<1>11. s \in DOMAIN Called \cup DOMAIN Lists /\ s \notin {"begin", "more"}
  <2>1. s \in DOMAIN Called \cup DOMAIN Lists
    BY <1>10 DEF Answers
  <2> QED
    BY <2>1 DEF Called, Lists
\* The node that has been read is one of the derivation from now on.
<1>12. PICK E : E = D \cup {c} /\ c \in E /\ D \subseteq E
  <2>1. c \in D \cup {c} /\ D \subseteq D \cup {c}
    OBVIOUS
  <2> QED
    BY <2>1, Zenon
<1>13. IsDerivation(E) /\ c.tree = Result /\ c.tree.kind = Top.kind
  BY <1>2, <1>8, <1>12, Finished DEF Result
<1>14. /\ SoFar(D, n) /\ Bounded(n) /\ n.tree.kind = b.kind /\ n.tree.parts = b.parts
       /\ Remains(b.kind, n.symbols, b.rest) /\ IsSeq(n.symbols) /\ IsSeq(n.tree.parts)
  BY <1>8 DEF HasRead, SoFar
<1>15. PICK t, parts : t = Result /\ parts = <<t>>
  OBVIOUS
<1>16. IsSeq(parts) /\ Len(parts) = 1 /\ parts[1] = t
  BY <1>15 DEF IsSeq
<1>17. PICK m : /\ Extends(m, n, s, pos, parts)
                /\ m.symbols = Append(n.symbols, s) /\ m.tree.parts = n.tree.parts \o parts
  <2>1. MayExtend(n, s, pos, parts)
    BY <1>8, <1>14, <1>16, ExtendedIs
  <2> QED
    BY <2>1 DEF MayExtend
<1>18. PICK i : i = Len(n.symbols) + 1
  OBVIOUS
<1>19. ReadsNode(E, m, i)
  <2>1. /\ Len(n.symbols) \in Nat /\ Len(n.tree.parts) \in Nat
        /\ n.at[i] = Len(n.tree.parts) /\ n.cut[i] = To(n)
    BY <1>14, <1>18 DEF SoFar, IsSeq, To
  <2>2. i \in 1..i /\ i + 1 = Len(n.symbols) + 2
    BY <1>18, <2>1
  <2>3. /\ m.symbols[i] = s /\ m.cut[i] = To(n) /\ m.cut[i + 1] = pos
        /\ m.at[i] = Len(n.tree.parts) /\ m.at[i + 1] = Len(n.tree.parts) + 1
        /\ \A k \in 1..1 : m.tree.parts[Len(n.tree.parts) + k] = parts[k]
    BY <1>16, <1>17, <1>18, <2>1, <2>2 DEF Extends
  <2>4. 1 \in 1..1
    OBVIOUS
  <2>5. m.tree.parts[m.at[i] + 1] = t
    BY <1>16, <2>3, <2>4
  <2>6. IsChild(m, i, c)
    BY <1>8, <1>10, <1>13, <1>15, <2>3, <2>5 DEF IsChild
  <2>7. m.at[i + 1] = m.at[i] + 1
    BY <2>3
  <2> QED
    BY <1>11, <1>12, <2>3, <2>6, <2>7, Zenon DEF ReadsNode
<1>20. SoFar(E, m) /\ Bounded(m) /\ From(m) = From(n) /\ To(m) = pos
  BY <1>12, <1>14, <1>16, <1>17, <1>18, <1>19, ExtendedSoFar
<1>21. a.kind = b.kind /\ a.rest = Tail(b.rest) /\ a.parts = b.parts \o parts
  <2>1. Append(b.parts, t) = b.parts \o <<t>>
    BY <1>14, AppendIs
  <2> QED
    BY <1>4, <1>15, <2>1 DEF Later
<1>22. Remains(a.kind, m.symbols, a.rest)
  <2>1. Remains(b.kind, Append(n.symbols, Head(b.rest)), Tail(b.rest))
    BY <1>9, <1>10, <1>11, <1>14, RemainsTail
  <2> QED
    BY <1>9, <1>17, <1>21, <2>1
<1>23. HasRead(E, a, m)
  <2>1. m.tree.kind = n.tree.kind
    BY <1>17 DEF Extends
  <2>2. m.tree.kind = a.kind /\ m.tree.parts = a.parts
    BY <1>14, <1>17, <1>21, <2>1
  <2> QED
    BY <1>20, <1>22, <2>2 DEF HasRead
<1>24. /\ Len(stack') = l /\ stack'[l] = a
       /\ \A d \in 1..l : d # l => stack'[d] = stack[d]
  BY <1>3, <1>5, Replaced
<1>25. PICK node2 : node2 = [d \in 1..l |-> IF d = l THEN m ELSE node[d]]
  OBVIOUS
<1>26. \A d \in 1..l : node2[d] = IF d = l THEN m ELSE node[d]
  BY <1>25
<1>27. ASSUME NEW d \in 1..l PROVE HasRead(E, stack'[d], node2[d])
  <2>1. CASE d = l
    BY <1>23, <1>24, <1>26, <2>1
  <2>2. CASE d # l
    <3>1. d \in 1..Len(stack)
      BY <1>5
    <3>2. HasRead(D, stack[d], node[d])
      BY <1>1, <3>1 DEF ReadsAll
    <3>3. HasRead(E, stack[d], node[d])
      BY <1>12, <3>2, HasReadByMore
    <3> QED
      BY <1>24, <1>26, <2>2, <3>3
  <2> QED
    BY <2>1, <2>2
<1>28. \A d \in 1..l : From(node2[d]) = From(node[d])
  BY <1>7, <1>20, <1>26
<1>29. ASSUME NEW d \in 1..(l - 1) PROVE To(node2[d]) = From(node2[d + 1])
  <2>1. d \in 1..l /\ d # l /\ d + 1 \in 1..l /\ d \in 1..(Len(stack) - 1)
    BY <1>5
  <2>2. To(node[d]) = From(node[d + 1])
    BY <1>1, <2>1 DEF ReadsAll
  <2> QED
    BY <1>26, <1>28, <2>1, <2>2
<1>30. From(node2[1]) = 1
  <2>1. 1 \in 1..l
    BY <1>5
  <2>2. From(node[1]) = 1
    BY <1>1 DEF ReadsAll
  <2> QED
    BY <1>28, <2>1, <2>2
<1>31. pos' = To(node2[l])
  BY <1>2, <1>6, <1>20, <1>26
<1>32. ReadsAll(E, stack', pos', node2)
  BY <1>13, <1>24, <1>27, <1>29, <1>30, <1>31 DEF ReadsAll
<1> QED
  BY <1>2, <1>32, ReadStays

\* What has been read is a derivation, as far as it goes, and so is all of it.
DumpsOnly ==
  /\ status = "parsing" => HasBeenRead
  /\ status = "accepted" => IsDumpOf(module)

\* No function but generate_ast accepts.
LEMMA OnlyFinish ==
  ASSUME Literal \/ Leaf \/ Constant \/ Call \/ End \/ Vector \/ Begin \/ More \/ Return
  PROVE  status' # "accepted"
<1>1. status = "parsing"
  BY DEF Literal, Leaf, Constant, Call, End, Vector, Begin, More, Return, Expects
<1>2. status' = status \/ status' = "rejected"
  BY Zenon DEF Literal, Leaf, Constant, Call, End, Vector, Begin, More, Return, Proceed,
               ParseError
<1> QED
  BY <1>1, <1>2

LEMMA StepReads ==
  ASSUME PInv, HasBeenRead, PStep
  PROVE  DumpsOnly'
<1>1. CASE Finish
  BY <1>1, FinishReads DEF DumpsOnly
<1>2. CASE ~Finish
  <2>1. Literal \/ Leaf \/ Constant \/ Call \/ End \/ Vector \/ Begin \/ More \/ Return
    BY <1>2 DEF PStep
  <2>2. HasBeenRead' \/ status' = "rejected"
    BY <2>1, LiteralReads, LeafReads, ConstantReads, CallReads, EndReads, VectorReads,
       BeginReads, MoreReads, ReturnReads
  <2> QED
    BY <2>1, <2>2, OnlyFinish DEF DumpsOnly
<1> QED
  BY <1>1, <1>2

\* Nothing but dumps is accepted, and with the tree whose dump the text is.
THEOREM OnlyDumpsAreAccepted == PSpec => []DumpsOnly
<1>1. PInit => PInv /\ DumpsOnly
  <2> SUFFICES ASSUME PInit PROVE PInv /\ DumpsOnly
    OBVIOUS
  <2>1. status = "parsing"
    BY DEF PInit
  <2> QED
    BY <2>1, PInitKeeps, InitReads DEF DumpsOnly
<1>2. PInv /\ DumpsOnly /\ [PNext]_pvars => DumpsOnly'
  <2> SUFFICES ASSUME PInv, DumpsOnly, [PNext]_pvars PROVE DumpsOnly'
    OBVIOUS
  <2>1. text' = text
    BY TextStays
  <2>2. CASE UNCHANGED pvars
    <3>1. stack' = stack /\ pos' = pos /\ status' = status /\ module' = module
      BY <2>2 DEF pvars
    <3>2. HasBeenRead => HasBeenRead'
      <4> SUFFICES ASSUME HasBeenRead PROVE HasBeenRead'
        OBVIOUS
      <4>1. PICK D, node : ReadsAll(D, stack, pos, node)
        BY DEF HasBeenRead
      <4>2. ReadsAll(D, stack', pos', node)
        BY <3>1, <4>1
      <4> QED
        BY <2>1, <4>2, ReadStays
    <3>3. IsDumpOf(module) => IsDumpOf(module)'
      <4>1. \A D, r : IsRoot(D, r) => IsRoot(D, r)'
        BY <2>1, RootStays
      <4> QED
        BY <3>1, <4>1 DEF IsDumpOf
    <3> QED
      BY <3>1, <3>2, <3>3 DEF DumpsOnly
  <2>3. CASE status = "parsing" /\ ~UNCHANGED pvars
    <3>1. PStep
      BY <2>3 DEF PNext, PStop
    <3> QED
      BY <2>3, <3>1, StepReads DEF DumpsOnly
  <2>4. CASE status # "parsing"
    BY <2>2, <2>4, Stopped
  <2> QED
    BY <2>2, <2>3, <2>4
<1> QED
  BY <1>1, <1>2, ParserInvariance, PTL DEF PSpec

\* AcceptsExactly: the parser accepts the dumps and nothing else, each with the tree
\* whose dump it is, which is the only one.
THEOREM ParserAcceptsExactly == PSpec => []AcceptsExactly
<1>1. DumpsAreRead /\ DumpsOnly => AcceptsExactly
  <2> SUFFICES ASSUME DumpsAreRead, DumpsOnly PROVE AcceptsExactly
    OBVIOUS
  <2>1. ASSUME NEW tree, IsDumpOf(tree)
        PROVE  status # "rejected" /\ (status = "accepted" => module = tree)
    <3>1. PICK D, n : IsRoot(D, n) /\ n.tree = tree
      BY <2>1 DEF IsDumpOf
    <3> QED
      BY <3>1 DEF DumpsAreRead
  <2> QED
    BY <2>1 DEF DumpsOnly, AcceptsExactly
<1> QED
  BY <1>1, DumpsAreAccepted, OnlyDumpsAreAccepted, PTL
=============================================================================
