---------------------------- MODULE FramesProofs ----------------------------
(***************************************************************************)
(* Proofs about Frames, for every set of scopes and functions and every    *)
(* depth: the interpreter's recursion, its scope pointer and the tree of   *)
(* scopes follow each other through calls and returns.                     *)
(***************************************************************************)
EXTENDS Frames, NumberLemmas, TLAPS

-----------------------------------------------------------------------------
(* The stack.                                                              *)

ActivationType ==
  [kind : {"worker", "call", "while", "if"}, fn : Fn \cup {NoFn}, home : Scope]

\* The receiver of a return: no if, and the activations above it are ifs.
LEMMA ReceiverIsLastBlock ==
  ASSUME FTypeOK, StackInv
  PROVE  /\ Receiver \in DOMAIN stack
         /\ stack[Receiver].kind \in {"worker", "call", "while"}
         /\ \A n \in (Receiver + 1)..Len(stack) : stack[n].kind = "if"
<1> DEFINE S == {n \in DOMAIN stack : stack[n].kind # "if"}
<1>1. stack \in Seq(ActivationType)
  BY DEF FTypeOK, ActivationType
<1>2. Len(stack) \in Nat /\ DOMAIN stack = 1..Len(stack)
  BY <1>1
<1>3. 1 \in S
  BY <1>2 DEF StackInv
<1>4. Max(S) \in S /\ \A n \in S : n <= Max(S)
  BY <1>2, <1>3, MaxIsGreatest
<1>5. Receiver = Max(S)
  BY DEF Receiver
<1>6. \A n \in DOMAIN stack : stack[n].kind \in {"worker", "call", "while", "if"}
  <2> SUFFICES ASSUME NEW n \in 1..Len(stack)
               PROVE  stack[n].kind \in {"worker", "call", "while", "if"}
    BY <1>2
  <2>1. stack[n] \in ActivationType
    BY <1>1, <1>2
  <2> QED
    BY <2>1 DEF ActivationType
<1>7. ASSUME NEW n \in (Receiver + 1)..Len(stack) PROVE stack[n].kind = "if"
  <2>1. Receiver \in 1..Len(stack) /\ \A m \in S : m <= Receiver
    BY <1>2, <1>4, <1>5
  <2>2. n \in DOMAIN stack /\ n \notin S
    BY <1>2, <2>1
  <2> QED
    BY <2>2
<1> QED
  BY <1>4, <1>5, <1>6, <1>7

\* What FTypeOK says of the stack.
LEMMA StackShape ==
  ASSUME FTypeOK
  PROVE  /\ stack \in Seq(ActivationType)
         /\ Len(stack) \in Nat /\ DOMAIN stack = 1..Len(stack)
         /\ \A n \in 1..Len(stack) : stack[n] \in ActivationType
<1>1. stack \in Seq(ActivationType)
  BY DEF FTypeOK, ActivationType
<1> QED
  BY <1>1

\* The activations from k + 1 on are left.
LEMMA CutKeeps ==
  ASSUME FTypeOK, StackInv, NEW k \in 1..Len(stack),
         stack' = SubSeq(stack, 1, k),
         at' = "statement" \/ stack[k].kind = "while"
  PROVE  /\ stack' \in Seq(ActivationType)
         /\ Len(stack') = k /\ DOMAIN stack' = 1..k
         /\ \A n \in 1..k : stack'[n] = stack[n]
         /\ StackInv'
         /\ HomesInv => HomesInv'
<1>1. /\ stack \in Seq(ActivationType)
      /\ Len(stack) \in Nat /\ DOMAIN stack = 1..Len(stack)
  BY StackShape
<1>2. /\ stack' \in Seq(ActivationType)
      /\ Len(stack') = k /\ DOMAIN stack' = 1..k
      /\ \A n \in 1..k : stack'[n] = stack[n]
  BY <1>1
<1>3. StackInv'
  BY <1>1, <1>2 DEF StackInv, Top, Last
<1>4. ASSUME HomesInv PROVE HomesInv'
  BY <1>1, <1>2, <1>4 DEF HomesInv
<1> QED
  BY <1>2, <1>3, <1>4

\* An activation a is entered: a call in a scope of its own, a block in that
\* of the activation it stands in.
LEMMA PushKeeps ==
  ASSUME FTypeOK, StackInv, NEW a \in ActivationType, a.kind # "worker",
         stack' = Append(stack, a), at' = "statement"
  PROVE  /\ stack' \in Seq(ActivationType)
         /\ Len(stack') = Len(stack) + 1 /\ DOMAIN stack' = 1..(Len(stack) + 1)
         /\ \A n \in 1..Len(stack) : stack'[n] = stack[n]
         /\ stack'[Len(stack) + 1] = a
         /\ StackInv'
         /\ /\ HomesInv
            /\ IF a.kind = "call"
               THEN \A n \in 1..Len(stack) : stack[n].home # a.home
               ELSE a.home = Top.home
            => HomesInv'
<1>1. /\ stack \in Seq(ActivationType)
      /\ Len(stack) \in Nat /\ DOMAIN stack = 1..Len(stack)
  BY StackShape
<1>2. /\ stack' \in Seq(ActivationType)
      /\ Len(stack') = Len(stack) + 1 /\ DOMAIN stack' = 1..(Len(stack) + 1)
      /\ \A n \in 1..Len(stack) : stack'[n] = stack[n]
      /\ stack'[Len(stack) + 1] = a
  BY <1>1
<1>3. StackInv'
  BY <1>1, <1>2 DEF StackInv
<1>4. ASSUME HomesInv,
             IF a.kind = "call"
             THEN \A n \in 1..Len(stack) : stack[n].home # a.home
             ELSE a.home = Top.home
      PROVE  HomesInv'
  <2> SUFFICES ASSUME NEW i \in 1..(Len(stack) + 1),
                      NEW j \in 1..(Len(stack) + 1), i <= j
               PROVE  stack'[i].home = stack'[j].home <=>
                        \A n \in (i + 1)..j : stack'[n].kind # "call"
    BY <1>2 DEF HomesInv
  <2>1. CASE j <= Len(stack)
    <3>1. stack'[i] = stack[i] /\ stack'[j] = stack[j]
      BY <1>1, <1>2, <2>1
    <3>2. \A n \in (i + 1)..j : stack'[n] = stack[n]
      BY <1>1, <1>2, <2>1
    <3>3. stack[i].home = stack[j].home <=>
            \A n \in (i + 1)..j : stack[n].kind # "call"
      BY <1>1, <1>4, <2>1 DEF HomesInv
    <3> QED
      BY <3>1, <3>2, <3>3
  <2>2. CASE i = Len(stack) + 1
    <3>1. i = j
      BY <1>1, <2>2
    <3>2. \A n \in (i + 1)..i : stack'[n].kind # "call"
      OBVIOUS
    <3> QED
      BY <3>1, <3>2
  <2>3. CASE i <= Len(stack) /\ j = Len(stack) + 1 /\ a.kind = "call"
    <3>1. stack'[i].home # stack'[j].home
      BY <1>1, <1>2, <1>4, <2>3
    <3>2. j \in (i + 1)..j /\ stack'[j].kind = "call"
      BY <1>1, <1>2, <2>3
    <3> QED
      BY <3>1, <3>2
  <2>4. CASE i <= Len(stack) /\ j = Len(stack) + 1 /\ a.kind # "call"
    <3>1. stack'[j].home = stack[Len(stack)].home /\ stack'[i] = stack[i]
      BY <1>1, <1>2, <1>4, <2>4 DEF Top, Last
    <3>2. stack[i].home = stack[Len(stack)].home <=>
            \A n \in (i + 1)..Len(stack) : stack[n].kind # "call"
      BY <1>1, <1>4, <2>4 DEF HomesInv, StackInv
    <3>3. (\A n \in (i + 1)..Len(stack) : stack[n].kind # "call") <=>
            \A n \in (i + 1)..j : stack'[n].kind # "call"
      BY <1>1, <1>2, <2>4
    <3> QED
      BY <3>1, <3>2, <3>3
  <2> QED
    BY <1>1, <2>1, <2>2, <2>3, <2>4
<1> QED
  BY <1>2, <1>3, <1>4

\* The scopes of the last activations are one up to the last call.
LEMMA TopHome ==
  ASSUME FTypeOK, StackInv, HomesInv, NEW r \in DOMAIN stack,
         \A n \in (r + 1)..Len(stack) : stack[n].kind = "if"
  PROVE  stack[r].home = Top.home
<1>1. Len(stack) \in Nat /\ DOMAIN stack = 1..Len(stack)
  BY StackShape
<1> QED
  BY <1>1 DEF HomesInv, StackInv, Top, Last

-----------------------------------------------------------------------------
(* The inductive invariant.                                                *)

\* The initial states satisfy it: the worker alone, in the main scope.
LEMMA FInitInv == FInit => FInv
<1> SUFFICES ASSUME FInit PROVE FInv
  OBVIOUS
<1> USE FramesAssumption DEF FInit
<1>1. /\ stack \in Seq(ActivationType)
      /\ Len(stack) = 1 /\ DOMAIN stack = {1}
      /\ stack[1] = Activation("worker", NoFn, Main)
  BY DEF Activation, ActivationType
<1>2. FTypeOK
  BY <1>1 DEF FTypeOK, ActivationType, NoEntry
<1>3. StackInv /\ ParentInv
  BY <1>1 DEF StackInv, ParentInv, Activation
<1>4. HomesInv /\ CallsInv
  BY <1>1 DEF HomesInv, CallsInv, Activation
<1>5. ScopesInv
  BY <1>1 DEF ScopesInv, Calls, Activation, Top, Last
<1>6. EntriesInv
  BY DEF EntriesInv, NoEntry
<1> QED
  BY <1>2, <1>3, <1>4, <1>5, <1>6 DEF FInv, InPlace

\* A step that leaves stack, scopes and entries alone preserves it; what was
\* evaluated, which functions are defined and how a program ends is free.
LEMMA PlainStep ==
  ASSUME FInv, FTypeOK',
         UNCHANGED <<stack, scope, exists, parent, entry, astray>>,
         at' = at \/ at' = "statement" \/ Top.kind = "while",
         status' = status \/ status' \notin {"undefined", "running"}
  PROVE  FInv'
<1> USE DEF FInv
<1>1. StackInv' /\ ParentInv'
  BY DEF StackInv, ParentInv, Top
<1>2. InPlace => InPlace'
  BY DEF InPlace, HomesInv, CallsInv, ScopesInv, EntriesInv, Calls, Top
<1> QED
  BY <1>1, <1>2

\* Statements without a call, ends of a program and of the body of a while.
LEMMA StatementStep ==
  ASSUME FInv,
         \/ Evaluate \/ (\E f \in Fn : FunctionDef(f)) \/ Throw \/ EndBody
         \/ EndProgram \/ ReturnNothing \/ UNCHANGED fvars
  PROVE  FInv'
<1> USE DEF scopes, Statement, Running
<1>1. FTypeOK
  BY DEF FInv
<1>2. CASE Evaluate
  <2>1. FTypeOK'
    BY <1>1, <1>2 DEF FTypeOK, Evaluate
  <2> QED
    BY <1>2, <2>1, PlainStep DEF Evaluate
<1>3. ASSUME NEW f \in Fn, FunctionDef(f) PROVE FInv'
  <2>1. FTypeOK'
    BY <1>1, <1>3 DEF FTypeOK, FunctionDef
  <2> QED
    BY <1>3, <2>1, PlainStep DEF FunctionDef
<1>4. CASE Throw
  <2>1. FTypeOK'
    BY <1>1, <1>4 DEF FTypeOK, Throw
  <2> QED
    BY <1>4, <2>1, PlainStep DEF Throw
<1>5. CASE EndBody
  <2>1. FTypeOK'
    BY <1>1, <1>5 DEF FTypeOK, EndBody
  <2> QED
    BY <1>5, <2>1, PlainStep DEF EndBody
<1>6. CASE EndProgram
  <2>1. FTypeOK'
    BY <1>1, <1>6 DEF FTypeOK, EndProgram
  <2> QED
    BY <1>6, <2>1, PlainStep DEF EndProgram
<1>7. CASE ReturnNothing
  <2>1. FTypeOK'
    BY <1>1, <1>7 DEF FTypeOK, ReturnNothing
  <2> QED
    BY <1>7, <2>1, PlainStep DEF ReturnNothing
<1>8. CASE UNCHANGED fvars
  <2>1. FTypeOK'
    BY <1>1, <1>8 DEF FTypeOK, fvars
  <2> QED
    BY <1>8, <2>1, PlainStep DEF fvars
<1> QED
  BY <1>2, <1>3, <1>4, <1>5, <1>6, <1>7, <1>8

\* A deleted scope is current only after a while has swallowed a return.
LEMMA DeletedStep ==
  ASSUME FInv, UseDeleted
  PROVE  FInv'
<1> USE DEF FInv, UseDeleted, scopes
<1>1. FTypeOK'
  BY DEF FTypeOK
<1>2. StackInv' /\ ParentInv'
  BY DEF StackInv, ParentInv, Top
<1>3. Top.home = stack[Len(stack)].home /\ Len(stack) \in DOMAIN stack
  BY StackShape DEF StackInv, Top, Last
<1>4. ~InPlace
  BY <1>3 DEF InPlace, ScopesInv
<1> QED
  BY <1>1, <1>2, <1>4

\* A block that is entered or left: the scopes stay.
LEMMA BlockStep ==
  ASSUME FInv,
         Enter("while") \/ Enter("if") \/ EndIf \/ Test
  PROVE  FInv'
<1> USE DEF FInv, scopes, Statement, Running
<1> DEFINE L == Len(stack)
<1>1. /\ L \in Nat /\ L > 0 /\ DOMAIN stack = 1..L
      /\ \A n \in 1..L : stack[n] \in ActivationType
  BY StackShape DEF StackInv
<1>2. Top = stack[L]
  BY DEF Top, Last
<1>3. ASSUME NEW kind \in {"while", "if"}, Enter(kind) PROVE FInv'
  <2> DEFINE a == Activation(kind, NoFn, Top.home)
  <2>1. a \in ActivationType /\ a.kind = kind /\ a.home = Top.home
    BY <1>1, <1>2 DEF Activation, ActivationType
  <2>2. stack' = Append(stack, a) /\ at' = "statement"
    BY <1>3 DEF Enter, Push
  <2>3. /\ stack' \in Seq(ActivationType)
        /\ Len(stack') = L + 1 /\ DOMAIN stack' = 1..(L + 1)
        /\ \A n \in 1..L : stack'[n] = stack[n]
        /\ stack'[L + 1] = a
        /\ StackInv'
        /\ HomesInv => HomesInv'
    BY <2>1, <2>2, PushKeeps
  <2>4. FTypeOK'
    BY <1>3, <2>3 DEF Enter, FTypeOK, ActivationType
  <2>5. ParentInv'
    BY <1>3 DEF Enter, ParentInv
  <2>6. ASSUME InPlace PROVE InPlace'
    <3> USE <2>6 DEF InPlace
    <3>1. CallsInv'
      BY <1>1, <1>3, <2>1, <2>3 DEF Enter, CallsInv, StackInv
    <3>2. Calls' = Calls
      BY <1>1, <2>1, <2>3 DEF Calls
    <3>3. ScopesInv'
      <4>1. Top'.home = scope
        BY <2>1, <2>3, <2>6 DEF Top, Last, ScopesInv
      <4>2. {stack'[n].home : n \in Calls'} = {stack[n].home : n \in Calls}
        BY <1>1, <2>3, <3>2 DEF Calls
      <4>3. \A n \in DOMAIN stack' : stack'[n].home \in exists
        BY <1>1, <1>2, <2>1, <2>3 DEF ScopesInv
      <4> QED
        BY <1>3, <4>1, <4>2, <4>3 DEF Enter, ScopesInv
    <3>4. EntriesInv'
      BY <1>3 DEF Enter, EntriesInv
    <3> QED
      BY <2>3, <3>1, <3>3, <3>4
  <2> QED
    BY <1>3, <2>3, <2>4, <2>5, <2>6 DEF Enter
<1>4. ASSUME stack' = Front(stack), Top.kind \in {"while", "if"},
             at' = "statement", FTypeOK',
             UNCHANGED <<scope, exists, parent, entry, astray, status>>
      PROVE  FInv'
  <2>1. L # 1
    BY <1>1, <1>2, <1>4 DEF StackInv
  <2>2. L - 1 \in 1..L /\ stack' = SubSeq(stack, 1, L - 1)
    BY <1>1, <1>4, <2>1 DEF Front
  <2>3. /\ Len(stack') = L - 1 /\ DOMAIN stack' = 1..(L - 1)
        /\ \A n \in 1..(L - 1) : stack'[n] = stack[n]
        /\ StackInv'
        /\ HomesInv => HomesInv'
    BY <1>4, <2>2, CutKeeps
  <2>4. ParentInv'
    BY <1>4 DEF ParentInv
  <2>5. ASSUME InPlace PROVE InPlace'
    <3> USE <2>5 DEF InPlace
    <3>1. CallsInv'
      BY <1>1, <1>4, <2>3 DEF CallsInv, StackInv
    <3>2. Calls' = Calls
      BY <1>1, <1>2, <1>4, <2>3 DEF Calls
    <3>3. ScopesInv'
      <4>1. stack[L - 1].home = stack[L].home
        BY <1>1, <1>2, <1>4, <2>2 DEF HomesInv
      <4>2. Top'.home = scope
        BY <1>2, <2>2, <2>3, <4>1 DEF Top, Last, ScopesInv
      <4>3. {stack'[n].home : n \in Calls'} = {stack[n].home : n \in Calls}
        BY <1>1, <2>3, <3>2 DEF Calls
      <4>4. \A n \in DOMAIN stack' : stack'[n].home \in exists
        BY <1>1, <2>3 DEF ScopesInv
      <4> QED
        BY <1>4, <4>2, <4>3, <4>4 DEF ScopesInv
    <3>4. EntriesInv'
      BY <1>4 DEF EntriesInv
    <3> QED
      BY <2>3, <3>1, <3>3, <3>4
  <2> QED
    BY <1>4, <2>3, <2>4, <2>5
<1>5. CASE EndIf
  <2>1. FTypeOK'
    <3>1. stack' \in Seq(ActivationType)
      BY <1>5, StackShape DEF EndIf, Front
    <3> QED
      BY <1>5, <3>1 DEF EndIf, FTypeOK, ActivationType
  <2> QED
    BY <1>4, <1>5, <2>1 DEF EndIf
<1>6. CASE Test
  <2>1. Top.kind = "while"
    BY <1>6 DEF Test, StackInv
  <2>2. FTypeOK'
    <3>1. stack' \in Seq(ActivationType)
      BY <1>6, StackShape DEF Test, Front
    <3> QED
      BY <1>6, <3>1 DEF Test, FTypeOK, ActivationType
  <2>3. CASE stack' = stack
    BY <1>6, <2>2, <2>3, PlainStep DEF Test
  <2>4. CASE stack' = Front(stack)
    BY <1>4, <1>6, <2>1, <2>2, <2>4 DEF Test
  <2> QED
    BY <1>6, <2>3, <2>4 DEF Test
<1> QED
  BY <1>3, <1>5, <1>6

\* A call: the new scope hangs below the current one, and no entry is lost.
LEMMA CallStep ==
  ASSUME FInv, NEW f \in Fn, NEW s \in Scope, NEW any \in BOOLEAN,
         Call(f, any, s)
  PROVE  FInv'
<1> USE DEF FInv, Statement, Running
<1> DEFINE L == Len(stack)
           a == Activation("call", f, s)
<1>1. /\ L \in Nat /\ L > 0 /\ DOMAIN stack = 1..L
      /\ \A n \in 1..L : stack[n] \in ActivationType
  BY StackShape DEF StackInv
<1>2. Top = stack[L]
  BY DEF Top, Last
<1>3. a \in ActivationType /\ a.kind = "call" /\ a.home = s /\ a.fn = f
  BY DEF Activation, ActivationType
<1>4. /\ stack' = Append(stack, a) /\ at' = "statement"
      /\ scope \in exists /\ s \notin exists /\ s # scope
      /\ scope' = s /\ exists' = exists \cup {s}
      /\ UNCHANGED <<astray, status>> /\ status = "running"
  BY DEF Call, Push
<1>5. /\ parent' = [parent EXCEPT ![s] = scope]
      /\ defs' = [defs EXCEPT ![s] = {}]
      /\ entry' = [entry EXCEPT ![s] = NoEntry, ![scope][f] = s]
      /\ result' \subseteq result \cup {scope}
      /\ UNCHANGED thread
  BY DEF Call
<1>6. /\ stack' \in Seq(ActivationType)
      /\ Len(stack') = L + 1 /\ DOMAIN stack' = 1..(L + 1)
      /\ \A n \in 1..L : stack'[n] = stack[n]
      /\ stack'[L + 1] = a
      /\ StackInv'
      /\ HomesInv /\ (\A n \in 1..L : stack[n].home # s) => HomesInv'
  BY <1>3, <1>4, PushKeeps
<1>7. /\ \A t \in Scope : parent'[t] = IF t = s THEN scope ELSE parent[t]
      /\ \A t \in Scope, g \in Fn :
           entry'[t][g] = IF t = s THEN NoScope
                          ELSE IF t = scope /\ g = f THEN s ELSE entry[t][g]
      /\ scope \in Scope
  BY <1>4, <1>5 DEF FTypeOK, NoEntry
<1>8. FTypeOK'
  <2>1. entry' \in [Scope -> [Fn -> Scope \cup {NoScope}]]
    BY <1>5 DEF FTypeOK, NoEntry
  <2> QED
    BY <1>4, <1>5, <1>6, <2>1 DEF FTypeOK, ActivationType
<1>9. ParentInv'
  BY <1>4, <1>7 DEF ParentInv, FTypeOK
<1>10. ASSUME InPlace PROVE InPlace'
  <2> USE <1>10 DEF InPlace
  <2>1. /\ scope = stack[L].home
        /\ \A n \in 1..L : stack[n].home \in exists /\ stack[n].home # s
    BY <1>1, <1>2, <1>4 DEF ScopesInv
  <2>2. CallsInv'
    <3> SUFFICES ASSUME NEW n \in 1..(L + 1), stack'[n].kind = "call"
                 PROVE  /\ stack'[n].fn \in Fn
                        /\ parent'[stack'[n].home] = stack'[n - 1].home
                        /\ entry'[stack'[n - 1].home][stack'[n].fn]
                             = stack'[n].home
      BY <1>6 DEF CallsInv
    <3>1. n # 1
      BY <1>6 DEF StackInv
    <3>2. CASE n = L + 1
      BY <1>1, <1>3, <1>6, <1>7, <2>1, <3>2
    <3>3. CASE n # L + 1
      <4>1. n \in 2..L /\ n - 1 \in 1..L
        BY <1>1, <3>1, <3>3
      <4>2. stack'[n] = stack[n] /\ stack'[n - 1] = stack[n - 1]
        BY <1>6, <4>1
      <4>3. /\ stack[n].fn \in Fn
            /\ parent[stack[n].home] = stack[n - 1].home
            /\ entry[stack[n - 1].home][stack[n].fn] = stack[n].home
        BY <1>1, <4>1, <4>2 DEF CallsInv
      <4>4. stack[n - 1].home # stack[L].home
        BY <1>1, <4>1, <4>2 DEF HomesInv
      <4>5. stack[n].home \in Scope /\ stack[n - 1].home \in Scope
        BY <1>1, <4>1 DEF ActivationType
      <4> QED
        BY <1>7, <2>1, <4>1, <4>2, <4>3, <4>4, <4>5
    <3> QED
      BY <3>2, <3>3
  <2>3. ScopesInv'
    <3>1. scope' = Top'.home
      BY <1>3, <1>4, <1>6 DEF Top, Last
    <3>2. \A n \in DOMAIN stack' : stack'[n].home \in exists'
      BY <1>1, <1>3, <1>4, <1>6, <2>1
    <3>3. exists' = {stack'[n].home : n \in Calls'}
      <4>1. Calls' = Calls \cup {L + 1}
        BY <1>1, <1>3, <1>6 DEF Calls
      <4>2. \A n \in Calls : stack'[n].home = stack[n].home
        BY <1>1, <1>6 DEF Calls
      <4>3. {stack'[n].home : n \in Calls'} =
              {stack[n].home : n \in Calls} \cup {stack'[L + 1].home}
        BY <4>1, <4>2
      <4> QED
        BY <1>3, <1>4, <1>6, <4>3 DEF ScopesInv
    <3> QED
      BY <3>1, <3>2, <3>3 DEF ScopesInv
  <2>4. EntriesInv'
    <3> SUFFICES ASSUME NEW t \in exists', NEW g \in Fn, entry'[t][g] # NoScope
                 PROVE  /\ entry'[t][g] \in exists'
                        /\ parent'[entry'[t][g]] = t
                        /\ \A h \in Fn : entry'[t][h] = entry'[t][g] => h = g
      BY DEF EntriesInv
    <3>1. t \in Scope /\ t # s /\ t \in exists
      BY <1>4, <1>7 DEF FTypeOK
    <3>2. CASE t = scope /\ g = f
      <4>1. \A h \in Fn : h # f => entry'[t][h] = entry[t][h]
        BY <1>7, <3>1, <3>2
      <4>2. \A h \in Fn : entry[t][h] # s
        BY <1>4, <3>1, FramesAssumption DEF EntriesInv
      <4> QED
        BY <1>4, <1>7, <3>1, <3>2, <4>1, <4>2
    <3>3. CASE ~(t = scope /\ g = f)
      <4>1. entry'[t][g] = entry[t][g]
        BY <1>7, <3>1, <3>3
      <4>2. /\ entry[t][g] \in exists /\ parent[entry[t][g]] = t
            /\ \A h \in Fn : entry[t][h] = entry[t][g] => h = g
        BY <3>1, <4>1 DEF EntriesInv
      <4>3. entry[t][g] \in Scope /\ entry[t][g] # s
        BY <1>4, <4>2 DEF FTypeOK
      <4>4. \A h \in Fn : entry'[t][h] = entry[t][h] \/ entry'[t][h] = s
        BY <1>7, <3>1
      <4> QED
        BY <1>4, <1>7, <4>1, <4>2, <4>3, <4>4
    <3> QED
      BY <3>2, <3>3
  <2> QED
    BY <1>6, <2>1, <2>2, <2>3, <2>4
<1> QED
  BY <1>4, <1>6, <1>8, <1>9, <1>10

\* A return.  When a while receives it or the program ends, nothing more is
\* claimed; when a call does, the activations above it are ifs in its scope.
LEMMA ReturnStep ==
  ASSUME FInv, ReturnMain \/ (\E value \in BOOLEAN : Return(value))
  PROVE  FInv'
<1> USE DEF FInv, Statement, Running
<1> DEFINE L == Len(stack)
           r == Receiver
           left == [entry EXCEPT ![scope] = NoEntry]
<1>1. /\ stack \in Seq(ActivationType)
      /\ L \in Nat /\ L > 0 /\ DOMAIN stack = 1..L
      /\ \A n \in 1..L : stack[n] \in ActivationType
  BY StackShape DEF StackInv
<1>2. /\ r \in 1..L /\ stack[r].kind \in {"worker", "call", "while"}
      /\ \A n \in (r + 1)..L : stack[n].kind = "if"
  BY <1>1, ReceiverIsLastBlock
<1>3. /\ at = "statement" /\ status = "running" /\ scope \in exists
      /\ UNCHANGED thread
      /\ Deliver(left)
  BY DEF ReturnMain, Return
<1>4. \/ /\ scope = Main /\ exists' = exists \ {scope}
         /\ UNCHANGED <<scope, parent, defs, result>>
      \/ /\ scope # Main /\ scope' = parent[scope]
         /\ exists' = exists \ {scope}
         /\ result' = (result \cup {parent[scope]}) \ {scope}
         /\ parent' = [parent EXCEPT ![scope] = NoScope]
         /\ defs' = [defs EXCEPT ![scope] = {}]
  BY DEF ReturnMain, Return, InCall, Back, Freed
<1>5. /\ scope \in Scope /\ scope' \in Scope /\ exists' = exists \ {scope}
      /\ exists' \subseteq Scope /\ result' \subseteq Scope
      /\ parent' \in [Scope -> Scope \cup {NoScope}]
      /\ defs' \in [Scope -> SUBSET Fn]
      /\ \A t \in exists' : parent'[t] = parent[t]
  <2>1. CASE scope = Main /\ UNCHANGED <<scope, parent, defs, result>>
    BY <1>3, <1>4, <2>1 DEF FTypeOK
  <2>2. CASE /\ scope # Main /\ scope' = parent[scope]
             /\ result' = (result \cup {parent[scope]}) \ {scope}
             /\ parent' = [parent EXCEPT ![scope] = NoScope]
             /\ defs' = [defs EXCEPT ![scope] = {}]
    <3>1. parent[scope] \in Scope
      BY <1>3, <2>2 DEF ParentInv
    <3> QED
      BY <1>3, <1>4, <2>2, <3>1 DEF FTypeOK
  <2> QED
    BY <1>4, <2>1, <2>2
<1>6. left \in [Scope -> [Fn -> Scope \cup {NoScope}]]
  BY DEF FTypeOK, NoEntry
<1>7. ParentInv'
  BY <1>5 DEF ParentInv
<1>8. CASE stack[r].kind = "while"
  <2>1. /\ stack' = SubSeq(stack, 1, r) /\ at' = "test" /\ astray' = TRUE
        /\ entry' = left /\ UNCHANGED status
    BY <1>3, <1>8 DEF Deliver
  <2>2. stack' \in Seq(ActivationType) /\ StackInv'
    BY <1>2, <1>8, <2>1, CutKeeps
  <2>3. FTypeOK'
    BY <1>3, <1>5, <1>6, <2>1, <2>2 DEF FTypeOK, ActivationType
  <2> QED
    BY <1>7, <2>1, <2>2, <2>3
<1>9. CASE stack[r].kind = "worker"
  <2>1. /\ stack' = SubSeq(stack, 1, r) /\ status' = "ended"
        /\ entry' = left /\ UNCHANGED <<at, astray>>
    BY <1>3, <1>9 DEF Deliver
  <2>2. stack' \in Seq(ActivationType) /\ StackInv'
    BY <1>2, <1>3, <2>1, CutKeeps
  <2>3. FTypeOK'
    BY <1>3, <1>5, <1>6, <2>1, <2>2 DEF FTypeOK, ActivationType
  <2> QED
    BY <1>7, <2>1, <2>2, <2>3
<1>10. CASE stack[r].kind = "call"
  <2>1. /\ stack' = SubSeq(stack, 1, r - 1)
        /\ entry' = Forget(left, scope', stack[r].fn)
        /\ status' = IF scope' \in exists' THEN status ELSE "undefined"
        /\ UNCHANGED <<at, astray>>
    BY <1>3, <1>10 DEF Deliver
  <2>2. r - 1 \in 1..L
    BY <1>1, <1>2, <1>10 DEF StackInv
  <2>3. /\ stack' \in Seq(ActivationType)
        /\ Len(stack') = r - 1 /\ DOMAIN stack' = 1..(r - 1)
        /\ \A n \in 1..(r - 1) : stack'[n] = stack[n]
        /\ StackInv'
        /\ HomesInv => HomesInv'
    BY <1>3, <2>1, <2>2, CutKeeps
  <2>4. FTypeOK'
    <3>1. entry' \in [Scope -> [Fn -> Scope \cup {NoScope}]]
      BY <1>5, <1>6, <2>1 DEF Forget
    <3> QED
      BY <1>3, <1>5, <2>1, <2>3, <3>1 DEF FTypeOK, ActivationType
  <2>5. ASSUME InPlace PROVE InPlace' /\ status' = "running"
    <3> USE <2>5 DEF InPlace
    <3> DEFINE back == stack[r - 1].home
               fn == stack[r].fn
    <3>1. scope = stack[r].home
      BY <1>1, <1>2, TopHome DEF ScopesInv
    <3>2. \A n \in 1..(r - 1) : stack[n].home # scope
      BY <1>1, <1>2, <1>10, <2>2, <3>1 DEF HomesInv
    <3>3. fn \in Fn /\ parent[scope] = back /\ entry[back][fn] = scope
      BY <1>1, <1>2, <1>10, <3>1 DEF CallsInv
    <3>4. scope # Main
      BY <1>1, <2>2, <3>2 DEF StackInv
    <3>5. scope' = back
      BY <1>4, <3>3, <3>4
    <3>6. \A n \in 1..(r - 1) : stack[n].home \in exists'
      BY <1>1, <1>2, <1>5, <3>2 DEF ScopesInv
    <3>7. back \in exists' /\ status' = "running"
      BY <1>3, <2>1, <2>2, <3>5, <3>6
    <3>8. \A t \in exists', g \in Fn :
            entry'[t][g] = IF t = back /\ g = fn THEN NoScope ELSE entry[t][g]
      BY <1>5, <1>6, <2>1, <3>3, <3>5, <3>7 DEF Forget, FTypeOK
    <3>9. CallsInv'
      <4> SUFFICES ASSUME NEW n \in 1..(r - 1), stack'[n].kind = "call"
                   PROVE  /\ stack'[n].fn \in Fn
                          /\ parent'[stack'[n].home] = stack'[n - 1].home
                          /\ entry'[stack'[n - 1].home][stack'[n].fn]
                               = stack'[n].home
        BY <2>3 DEF CallsInv
      <4>1. n # 1
        BY <2>3 DEF StackInv
      <4>2. n \in 1..L /\ n - 1 \in 1..(r - 1) /\ n - 1 \in 1..L
        BY <1>1, <1>2, <4>1
      <4>3. stack'[n] = stack[n] /\ stack'[n - 1] = stack[n - 1]
        BY <2>3, <4>2
      <4>4. /\ stack[n].fn \in Fn
            /\ parent[stack[n].home] = stack[n - 1].home
            /\ entry[stack[n - 1].home][stack[n].fn] = stack[n].home
        BY <1>1, <4>2, <4>3 DEF CallsInv
      <4>5. stack[n - 1].home # back
        BY <1>1, <2>2, <4>2, <4>3 DEF HomesInv
      <4> QED
        BY <1>5, <3>6, <3>8, <4>2, <4>3, <4>4, <4>5
    <3>10. ScopesInv'
      <4>1. scope' = Top'.home
        BY <2>2, <2>3, <3>5 DEF Top, Last
      <4>2. \A n \in DOMAIN stack' : stack'[n].home \in exists'
        BY <2>3, <3>6
      <4>3. Calls' = {n \in Calls : n < r}
        BY <1>1, <1>2, <2>3 DEF Calls
      <4>4. Calls = Calls' \cup {r}
        BY <1>1, <1>2, <1>10, <4>3 DEF Calls
      <4>5. {stack'[n].home : n \in Calls'} = {stack[n].home : n \in Calls'}
        BY <1>1, <1>2, <2>3, <4>3 DEF Calls
      <4>6. exists = {stack[n].home : n \in Calls'} \cup {scope}
        BY <3>1, <4>4 DEF ScopesInv
      <4>7. scope \notin {stack[n].home : n \in Calls'}
        BY <1>1, <1>2, <3>2, <4>3 DEF Calls
      <4> QED
        BY <1>5, <4>1, <4>2, <4>5, <4>6, <4>7 DEF ScopesInv
    <3>11. EntriesInv'
      <4> SUFFICES ASSUME NEW t \in exists', NEW g \in Fn,
                          entry'[t][g] # NoScope
                   PROVE  /\ entry'[t][g] \in exists'
                          /\ parent'[entry'[t][g]] = t
                          /\ \A h \in Fn : entry'[t][h] = entry'[t][g] => h = g
        BY DEF EntriesInv
      <4>1. entry'[t][g] = entry[t][g] /\ ~(t = back /\ g = fn)
        BY <3>8
      <4>2. /\ entry[t][g] \in exists /\ parent[entry[t][g]] = t
            /\ \A h \in Fn : entry[t][h] = entry[t][g] => h = g
        BY <1>5, <4>1 DEF EntriesInv
      <4>3. entry[t][g] # scope
        BY <3>3, <4>1, <4>2
      <4>4. \A h \in Fn : entry'[t][h] = entry[t][h] \/ entry'[t][h] = NoScope
        BY <3>8
      <4> QED
        BY <1>5, <4>1, <4>2, <4>3, <4>4
    <3> QED
      BY <2>3, <3>7, <3>9, <3>10, <3>11
  <2> QED
    BY <1>3, <1>7, <2>1, <2>3, <2>4, <2>5
<1> QED
  BY <1>2, <1>8, <1>9, <1>10

\* Every step preserves it.
LEMMA FNextInv == FInv /\ [FNext]_fvars => FInv'
<1> SUFFICES ASSUME FInv, [FNext]_fvars PROVE FInv'
  OBVIOUS
<1>1. ASSUME NEW f \in Fn, NEW s \in Scope, NEW any \in BOOLEAN,
             Call(f, any, s)
      PROVE  FInv'
  BY <1>1, CallStep
<1> QED
  BY <1>1, StatementStep, DeletedStep, BlockStep, ReturnStep DEF FNext, FStop

-----------------------------------------------------------------------------
(* The properties.                                                         *)

(***************************************************************************)
(* The invariant holds in every reachable state (interpreter.cpp, the call *)
(* of a Python function, the return statement and the blocks).             *)
(***************************************************************************)
THEOREM FramesInvariance == FSpec => []FInv
<1> QED
  BY FInitInv, FNextInv, PTL DEF FSpec

(***************************************************************************)
(* A function runs in the scope made for this call of it, however deep the *)
(* recursion, unless a return stood in a while (interpreter.cpp:804-812).  *)
(***************************************************************************)
THEOREM CallsRunInTheirScope == FSpec => []RunsInItsScope
<1>1. FInv => RunsInItsScope
  BY DEF FInv, InPlace, ScopesInv, RunsInItsScope, Running
<1> QED
  BY <1>1, FramesInvariance, PTL

(***************************************************************************)
(* Every call deletes its scope and only its own (interpreter.cpp:810).    *)
(***************************************************************************)
THEOREM ScopesFollowCalls == FSpec => []ScopesAreTheCalls
<1>1. FInv => ScopesAreTheCalls
  BY DEF FInv, InPlace, ScopesInv, ScopesAreTheCalls, Running
<1> QED
  BY <1>1, FramesInvariance, PTL

(***************************************************************************)
(* The collector, which walks down from the main scope, meets every scope  *)
(* that exists and no other (interpreter.cpp:698 and 717, scope.cpp).      *)
(***************************************************************************)
THEOREM RootSeesEveryScope == FSpec => []RootReachesAll
<1>1. FInv => RootReachesAll
  <2> SUFFICES ASSUME FInv, ~astray, Running PROVE RootReachesAll
    BY DEF RootReachesAll
  <2> USE DEF FInv, InPlace, Running
  <2>1. ASSUME NEW s \in exists \ {Main}
        PROVE  \E f \in Fn : entry[parent[s]][f] = s
    <3>1. PICK n \in Calls : s = stack[n].home
      BY DEF ScopesInv
    <3>2. n \in DOMAIN stack /\ stack[n].kind = "call"
      BY <3>1 DEF Calls, StackInv
    <3> QED
      BY <3>1, <3>2 DEF CallsInv
  <2> QED
    BY <2>1 DEF EntriesInv, RootReachesAll
<1> QED
  BY <1>1, FramesInvariance, PTL

(***************************************************************************)
(* No deleted scope is used, unless a return stood in a while              *)
(* (interpreter.cpp:877).                                                  *)
(***************************************************************************)
THEOREM DeletedScopesAreLeft == FSpec => []NoDeletedScopeUsed
<1>1. FInv => NoDeletedScopeUsed
  BY DEF FInv, NoDeletedScopeUsed
<1> QED
  BY <1>1, FramesInvariance, PTL
=============================================================================
