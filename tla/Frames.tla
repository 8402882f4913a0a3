------------------------------- MODULE Frames -------------------------------
(***************************************************************************)
(* Calls, returns and blocks of one interpreter (src/interpreter.cpp,      *)
(* interpret_stmt and the call of a Python function in interpret_expr):    *)
(* which scope is current while the statements of a program run, and what  *)
(* the scopes refer to.                                                    *)
(*                                                                         *)
(* The interpreter is recursive: its own C++ stack, here the sequence      *)
(* stack, has an activation for every call, while and if that is being     *)
(* executed.  A statement returns true to the block it stands in, and a    *)
(* return statement returns false; the Python scope is not on that stack,  *)
(* it is the pointer scope_, which calls and returns move.                 *)
(*                                                                         *)
(* A program is any sequence of statements: each step executes one, takes  *)
(* a branch or ends a block; a call in an expression is taken as a         *)
(* statement before it.  Of a value only its presence is kept.  The scopes *)
(* above the main scope of a thread belong to other interpreters; the      *)
(* functions found there are taken to be in the main scope.                *)
(***************************************************************************)
EXTENDS Naturals, SequencesExt

CONSTANTS
  Scope, Main,           \* addresses of Scopes, and that of main_scope_
  NoScope,
  Fn,                    \* functions of the program
  MaxDepth               \* bound on the nesting of calls and blocks

ASSUME FramesAssumption ==
  /\ Main \in Scope /\ NoScope \notin Scope
  /\ MaxDepth \in Nat \ {0}

VARIABLES
  thread,                \* its program is the body of a function
  stack,                 \* activations, the running one last
  at,                    \* at a statement, or at the test of a while
  scope,                 \* scope_
  exists,                \* scopes that are not deleted
  parent,                \* parent[s]: parent_
  defs,                  \* defs[s]: functions with an entry in s
  result,                \* scopes with an entry lst_exec_res
  entry,                 \* entry[s][f]: the scope of the call of f made in s
  astray,                \* history: a while has received the false of a return
  status

scopes == <<scope, exists, parent, defs, result, entry>>
fvars == <<thread, stack, at, scopes, astray, status>>

Activation(kind, fn, home) == [kind |-> kind, fn |-> fn, home |-> home]
NoFn == "none"
Top == Last(stack)

NoEntry == [f \in Fn |-> NoScope]

FTypeOK ==
  /\ thread \in BOOLEAN /\ astray \in BOOLEAN
  /\ stack \in Seq([kind : {"worker", "call", "while", "if"},
                    fn : Fn \cup {NoFn}, home : Scope])
  /\ at \in {"statement", "test"}
  /\ scope \in Scope /\ exists \subseteq Scope /\ result \subseteq Scope
  /\ parent \in [Scope -> Scope \cup {NoScope}]
  /\ defs \in [Scope -> SUBSET Fn]
  /\ entry \in [Scope -> [Fn -> Scope \cup {NoScope}]]
  /\ status \in {"running", "ended", "thrown", "empty", "undefined"}

FInit ==
  /\ thread \in BOOLEAN
  /\ astray = FALSE
  /\ stack = <<Activation("worker", NoFn, Main)>>
  /\ at = "statement"
  /\ scope = Main
  /\ exists = {Main}
  /\ parent = [s \in Scope |-> NoScope]
  /\ defs = [s \in Scope |-> IF s = Main /\ thread THEN Fn ELSE {}]
  /\ result = IF thread THEN {} ELSE {Main}
  /\ entry = [s \in Scope |-> NoEntry]
  /\ status = "running"

-----------------------------------------------------------------------------
(* Scopes.                                                                 *)

\* The n-th scope on the way up from the current one.
Above(n) ==
  LET above[k \in Nat] ==
        IF k = 0 THEN scope
        ELSE IF above[k - 1] = NoScope THEN NoScope ELSE parent[above[k - 1]]
  IN above[n]

\* Scope::name_lookup: the nearest scope on the way up that has the function.
Holder(f) ==
  LET found == {n \in 0..Cardinality(Scope) :
                  Above(n) # NoScope /\ f \in defs[Above(n)]}
  IN IF found = {} THEN NoScope ELSE Above(Min(found))

\* Every statement begins with the scope as it is.
Running == status = "running" /\ scope \in exists
Statement == Running /\ at = "statement"

\* The pointer scope_ refers to a scope that was deleted, and the next
\* statement or test uses it.
UseDeleted ==
  /\ status = "running"
  /\ scope \notin exists
  /\ status' = "undefined"
  /\ UNCHANGED <<thread, stack, at, scopes, astray>>

-----------------------------------------------------------------------------
(* Simple statements.                                                      *)

\* An assignment to a variable or a list element, list += value; likewise an
\* expression, and a while or an if whose test is false.  What was evaluated
\* last becomes the last result of this scope.
Evaluate ==
  /\ Statement
  /\ result' = result \cup {scope}
  /\ UNCHANGED <<stack, at, scope, exists, parent, defs, entry,
                 thread, astray, status>>

\* def f(...): the function is an entry of this scope.
FunctionDef(f) ==
  /\ Statement
  /\ defs' = [defs EXCEPT ![scope] = @ \cup {f}]
  /\ UNCHANGED <<stack, at, scope, exists, parent, result, entry,
                 thread, astray, status>>

\* A name that is not found, an operand of a wrong type, a wrong number of
\* arguments, a function whose last statement is not a return: nobody catches
\* the exception.
Throw ==
  /\ Running
  /\ status' = "thrown"
  /\ UNCHANGED <<thread, stack, at, scopes, astray>>

-----------------------------------------------------------------------------
(* Blocks.                                                                 *)

Push(a) == Len(stack) < MaxDepth /\ stack' = Append(stack, a)

\* The test of a while or an if is evaluated in this scope, and is true (or
\* the if has an else).
Enter(kind) ==
  /\ Statement
  /\ result' = result \cup {scope}
  /\ Push(Activation(kind, NoFn, Top.home))
  /\ UNCHANGED <<at, scope, exists, parent, defs, entry,
                 thread, astray, status>>

\* The last statement of an if has returned true.
EndIf ==
  /\ Statement
  /\ Top.kind = "if"
  /\ stack' = Front(stack)
  /\ UNCHANGED <<thread, at, scopes, astray, status>>

\* The last statement of the body of a while has.
EndBody ==
  /\ Statement
  /\ Top.kind = "while"
  /\ at' = "test"
  /\ UNCHANGED <<thread, stack, scopes, astray, status>>

\* The test is evaluated again: another round, or the while returns true.
Test ==
  /\ Running
  /\ at = "test"
  /\ at' = "statement"
  /\ result' = result \cup {scope}
  /\ stack' \in {stack, Front(stack)}
  /\ UNCHANGED <<scope, exists, parent, defs, entry,
                 thread, astray, status>>

-----------------------------------------------------------------------------
(* Calls and returns.                                                      *)

\* A call of a Python function: its arguments are evaluated, a scope below the
\* current one is made, is entered there and becomes the current one.
Call(f, withArguments, s) ==
  /\ Statement
  /\ Holder(f) # NoScope
  /\ s \notin exists
  /\ Push(Activation("call", f, s))
  /\ scope' = s
  /\ exists' = exists \cup {s}
  /\ parent' = [parent EXCEPT ![s] = scope]
  /\ defs' = [defs EXCEPT ![s] = {}]
  /\ result' = (IF withArguments THEN result \cup {scope} ELSE result) \ {s}
  /\ entry' = [entry EXCEPT ![s] = NoEntry, ![scope][f] = s]
  /\ UNCHANGED <<thread, at, astray, status>>

\* The activation that receives false: an if passes it on.
Receiver == Max({n \in DOMAIN stack : stack[n].kind # "if"})

\* A call that is over deletes its entry from the scope s.
\* Mutation: the entry stays.
Forget_not(e, s, f) == e
Forget(e, s, f) == [e EXCEPT ![s][f] = NoScope]

\* What the receiver does with it; left are the entries of the scopes that the
\* return statement has left.  A while only ends this round; a call is
\* over and its entry is deleted in what is the current scope by then; the
\* worker is over.
Deliver(left) ==
  LET r == stack[Receiver]
  IN CASE r.kind = "while" ->
            /\ stack' = SubSeq(stack, 1, Receiver)
            /\ at' = "test"
            /\ astray' = TRUE
            /\ entry' = left /\ UNCHANGED status
       [] r.kind = "call" ->
            /\ stack' = SubSeq(stack, 1, Receiver - 1)
            /\ entry' = Forget(left, scope', r.fn)
            /\ status' = IF scope' \in exists' THEN status ELSE "undefined"
            /\ UNCHANGED <<at, astray>>
       [] r.kind = "worker" ->
            /\ stack' = SubSeq(stack, 1, Receiver)
            /\ status' = "ended"
            /\ entry' = left /\ UNCHANGED <<at, astray>>

\* In the main scope a return ends the interpreter and deletes that scope: in
\* the function of a thread, or at the top of the main program, where ast.parse
\* takes a return.
ReturnMain ==
  /\ Statement
  /\ scope = Main
  /\ exists' = exists \ {Main}
  /\ UNCHANGED <<thread, scope, parent, defs, result>>
  /\ Deliver([entry EXCEPT ![Main] = NoEntry])

\* The return of a call is told from that of a thread by the scope.
\* Mutation: it is not.
InCall_always == TRUE
InCall == scope # Main

\* The scope to go on in.
\* Mutations: the main scope; the scope itself.
Back_main == Main
Back_stays == scope
Back == parent[scope]

\* The scopes to delete.
\* Mutation: none.
Freed_none == {}
Freed == {scope}

\* In the scope of a call the last result goes to the scope above, which
\* becomes the current one, and the scope is deleted.
Return(value) ==
  /\ Statement
  /\ InCall
  /\ value \/ scope \in result
  /\ scope' = Back
  /\ exists' = exists \ Freed
  /\ result' = (result \cup {Back}) \ {scope}
  /\ parent' = [parent EXCEPT ![scope] = NoScope]
  /\ defs' = [defs EXCEPT ![scope] = {}]
  /\ UNCHANGED thread
  /\ Deliver([entry EXCEPT ![scope] = NoEntry])

\* Nothing was evaluated in this scope and there is no value to return:
\* std::bad_optional_access.
ReturnNothing ==
  /\ Statement
  /\ InCall
  /\ scope \notin result
  /\ status' = "empty"
  /\ UNCHANGED <<thread, stack, at, scopes, astray>>

\* The program is over, or finishing_ is set.
EndProgram ==
  /\ Statement
  /\ Top.kind = "worker"
  /\ status' = "ended"
  /\ UNCHANGED <<thread, stack, at, scopes, astray>>

-----------------------------------------------------------------------------
FStop == status # "running" /\ UNCHANGED fvars

FNext ==
  \/ Evaluate \/ \E f \in Fn : FunctionDef(f)
  \/ Enter("while") \/ Enter("if") \/ EndIf \/ EndBody \/ Test
  \/ \E f \in Fn, s \in Scope, any \in BOOLEAN : Call(f, any, s)
  \/ ReturnMain \/ Return(TRUE) \/ Return(FALSE) \/ ReturnNothing \/ Throw
  \/ EndProgram \/ UseDeleted
  \/ FStop

FSpec == FInit /\ [][FNext]_fvars

-----------------------------------------------------------------------------
(* Properties.                                                             *)

Calls == {n \in DOMAIN stack : stack[n].kind \in {"worker", "call"}}

(***************************************************************************)
(* The statements of a function run in the scope that was made for this    *)
(* call of it, and after a call the caller goes on in its own, unless a    *)
(* return stood in a while loop.                                           *)
(***************************************************************************)
RunsInItsScope == ~astray /\ Running => scope = Top.home

(***************************************************************************)
(* The scopes that exist are those of the calls that are being executed:   *)
(* none is deleted early, none is left behind (interpreter.cpp:810).       *)
(***************************************************************************)
ScopesAreTheCalls == ~astray /\ Running => exists = {stack[n].home : n \in Calls}

(***************************************************************************)
(* What Scope::get_all_objects walks through from the main scope is what   *)
(* exists: every scope of a call is entered in the scope of its caller     *)
(* while it exists and not longer (interpreter.cpp:698 and 717).           *)
(***************************************************************************)
RootReachesAll ==
  ~astray /\ Running =>
    /\ \A s \in exists \ {Main} : \E f \in Fn : entry[parent[s]][f] = s
    /\ \A s \in exists, f \in Fn :
         entry[s][f] # NoScope => entry[s][f] \in exists /\ parent[entry[s][f]] = s

(***************************************************************************)
(* A deleted scope is never used, unless a return stood in a while loop.   *)
(***************************************************************************)
NoDeletedScopeUsed == ~astray => status # "undefined"

-----------------------------------------------------------------------------
(* The parts of the inductive invariant.                                   *)

\* The worker is the first activation and no other; only a while stands at
\* its test.
StackInv ==
  /\ Len(stack) > 0
  /\ \A n \in DOMAIN stack : stack[n].kind = "worker" <=> n = 1
  /\ stack[1].home = Main
  /\ at = "test" => Top.kind = "while"

\* Every scope but the main one has a scope above it.
ParentInv == \A s \in exists \ {Main} : parent[s] \in Scope

\* Two activations run in the same scope if and only if no call lies between.
HomesInv ==
  \A i, j \in DOMAIN stack :
    i <= j =>
      (stack[i].home = stack[j].home <=>
         \A n \in (i + 1)..j : stack[n].kind # "call")

\* A call is entered in the scope of its caller, which is above its own.
CallsInv ==
  \A n \in DOMAIN stack :
    stack[n].kind = "call" =>
      /\ stack[n].fn \in Fn
      /\ parent[stack[n].home] = stack[n - 1].home
      /\ entry[stack[n - 1].home][stack[n].fn] = stack[n].home

\* The current scope is that of the last activation; no other scopes exist
\* than those of activations.
ScopesInv ==
  /\ scope = Top.home
  /\ \A n \in DOMAIN stack : stack[n].home \in exists
  /\ exists = {stack[n].home : n \in Calls}

\* A scope is an entry of the scope above it only, and only once.
EntriesInv ==
  \A s \in exists, f \in Fn :
    entry[s][f] # NoScope =>
      /\ entry[s][f] \in exists
      /\ parent[entry[s][f]] = s
      /\ \A g \in Fn : entry[s][g] = entry[s][f] => g = f

InPlace == HomesInv /\ CallsInv /\ ScopesInv /\ EntriesInv

(***************************************************************************)
(* The inductive invariant: as long as no while loop has swallowed a       *)
(* return, the recursion of the interpreter, its scope pointer and the     *)
(* tree of scopes follow each other through every call and return.         *)
(***************************************************************************)
FInv ==
  /\ FTypeOK /\ StackInv /\ ParentInv
  /\ ~astray => status # "undefined" /\ (status = "running" => InPlace)

-----------------------------------------------------------------------------
(* What the documentation says and the code does not do.                   *)

\* The same, wherever the returns stand.
AlwaysInItsScope == Running => scope = Top.home
=============================================================================
