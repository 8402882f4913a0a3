# A verification project for yapvm

yapvm is a virtual machine for a subset of Python, written in C++: a parser
that reads the text of a Python `ast.dump`, an interpreter that walks the tree,
one interpreter object per Python thread without a global lock, and a
stop-the-world mark-and-sweep collector on a thread of its own.

This directory holds TLA+ modules of the parts of yapvm that have behaviour of
their own, TLC configurations that check them on small instances, and TLAPS
proofs for every number of threads, every heap, every nesting of calls and every size of
the hash table. `PROJECT.json` lists the parts, the runs,
the theorems and, for every definition, the lines of the source it models.

    tlc -config VmThreads3.cfg MCVmThreads.tla     check one run
    tlapm VmThreadsProofs.tla                      check the proofs of one module

## 1. The system

### Parts, their state and their operations

| Part | State | Operations | Source |
|---|---|---|---|
| Worker thread and safepoint | `need_park_`, `parked_`, `need_unpark_`, `finishing_`, `worker_` of an `Interpreter` | `handle_safepoint`, `park`, `run`, `is_parked`, `launch`, `join`, `__worker_exec`, the constructor | `src/interpreter.cpp`, `include/interpreter.h` |
| Thread manager | the registry `interpreters_`, the queue of threads to join, one mutex | `register_interpreter`, `unregister_interpreter`, `get_all_interpreters`, `is_registered`, `park_all`, `is_all_parked`, `run_all`, `finish_waiting` | `src/thread_manager.cpp` |
| Collector cycle | the program counter of `collect` and the copy of the registry it iterates over | stop, drain the register queues, mark and sweep when due, run again; end and join | `src/gc.cpp:96`, `src/main.cpp` |
| Mark and sweep | `left_`, `right_`, the mark of every object | `mark`, `sweep`, `is_unique` | `src/gc.cpp:16-83` |
| Objects | type, value, elements of a list | creation, `append`, element access | `src/y_objects.cpp` |
| Scopes | a table of entries, the parent | `change`, `del`, `name_lookup`, `get_all_objects` | `src/scope.cpp` |
| Hash table | slots, capacity index, `_size`, `_deletedCtr` | `__add`, `__find`, `__del`, `__resize`, `__rehashData`, `__reduceDeleted` | `include/kvstorage.h` |
| Statements | `scope_`, `main_scope_`, the C++ stack of the tree walk | calls, returns, `while`, `if`, assignments, definitions | `src/interpreter.cpp:690-719`, `780-925` |
| Expressions | `lst_exec_res` of the current scope | operators, comparisons, conversions, list access, `print` | `src/interpreter.cpp:70-775` |
| Heap limit | `max_hs_` | accounting in `collect` and `sweep`, `-Xmx` | `src/gc.cpp:134-143`, `src/main.cpp:33` |
| Parser, syntax tree | the position in the text, the C++ stack of the descent; the nodes | one function per kind of node, list and token: `generate_stmt`, `generate_expr`, `generate_expr_vec`, `try_tokenize_int`, ... | `src/parser.cpp`, `src/ast.cpp`, `include/ast.h` |
| Logger, utilities | - | output; string helpers, the owning pointer, calling Python | `src/logger.cpp`, `src/utils.cpp`, `include/utils.h` |

### How they interact

* The collector asks an interpreter to stop by setting an atomic flag (`park`),
  and the interpreter answers at its next safepoint, at the beginning of every
  statement (`interpreter.cpp:782`) and in every loop that tries to get the
  registry's mutex. Three flags per interpreter carry the whole conversation.
* Interpreters register and unregister themselves and join others with
  `try_lock`: a method that does not get the mutex returns "no answer", and
  the caller polls its safepoint and tries again. `park_all`, `run_all` and
  `finish_waiting` wait for other threads while they hold the mutex.
* New objects are pushed on a queue of the interpreter that made them, without
  a lock; the collector empties the queues while the world stands. What is in
  no queue and not in `left_` is unknown to the collector.
* The roots are the variables of all scopes below that of the main program; the
  scope of a thread is an entry of the scope of the function that started it,
  the scope of a call an entry of the scope of the caller.
* Threads read the tables of the scopes above them, without a lock, while the
  threads that own these scopes change them (`scope.cpp:98`, `35`).
* The parser runs once, before there is an interpreter, on what Python's
  `ast.dump` printed for the program.
* A thread handle in Python is the address of the `Interpreter`, which whoever
  calls `finish_waiting` first deletes.

### What is hard, and what makes each part correct

* *Safepoints and threads* (interleaving of every flag access, waiting under the
  mutex, liveness): while the collector works nobody moves; no request and no
  permission is left over from an earlier stop; every wait ends; collect
  returns only when all threads are joined; a join waits for its thread.
* *Collector* (stale marks, queues lost with their interpreter, scopes cut off,
  pointers in C++ locals): nothing reachable is deleted, nothing is in the
  books twice, what a sweep leaves is reachable, marking ends on cycles.
* *Hash table* (long sequences of additions and deletions around resizing):
  no live entry is missed, no name is there twice, the counters are right,
  there is always room, and the table is a map.
* *Calls and returns* (a pointer moved and scopes deleted deep in a recursion):
  a function runs in its own scope and the caller goes on in its own; exactly
  the scopes of the running calls exist and are reachable.
* *Heap limit* (an unsigned account that wraps around, kept by two functions in
  different phases): every object is paid for once and given back once.
* *Parser* (a text taken apart by many literals, positions moved by their
  lengths): it builds trees of the declared types, accepts the dumps of the
  programs it has a case for, and loses nothing of what it accepts but numbers
  the machine does not have.
* *Operators* (machine integers, strings, conversions): Python's values within
  a stated domain, one order of the values of a type.

`PROJECT.json` lists the hazards one by one, each at its line.

## 2. The modules

| Module | Models | Extends / composes |
|---|---|---|
| `Safepoint` | the three flags of an interpreter | |
| `ThreadManager` | registry, join queue, mutex | `Safepoint` |
| `VmThreads` | worker threads, thread start and join, the collector cycle | `ThreadManager` |
| `StopTheWorld` | abstract: what the above promises to the collector | |
| `VmThreadsInv` | the properties and the refinement mapping | `VmThreads`, instance of `StopTheWorld` |
| `VmThreadsProofs` | the proofs | `VmThreadsInv`, TLAPS |
| `Collector`, `CollectorInv` | heap, scopes as roots, mark and sweep; the properties | |
| `HeapLimit` | the heap limit beside the collector | `Collector` |
| `CollectorProofs` | the proofs of both | `CollectorInv`, `HeapLimit`, `NumberLemmas` |
| `KVStorage` | the hash table | instance of `ScopeMap` |
| `KVStorageProofs` | the proofs | `KVStorage`, `NumberLemmas` |
| `SharedScope` | a scope read by another thread while its owner changes it | `KVStorage` |
| `SharedScopeProofs` | the proofs | `SharedScope`, `KVStorageProofs` |
| `ScopeMap` | abstract: a map from names to entries | |
| `Frames` | calls, returns and blocks of one interpreter | |
| `FramesProofs` | the proofs | `Frames`, `NumberLemmas` |
| `NumberLemmas` | what the proofs need of numbers: least and greatest elements, integers modulo a word, induction, functions defined by recursion | |
| `Evaluator`, `EvaluatorInv` | operators, comparisons, conversions; the properties | |
| `EvaluatorProofs` | the proofs | `EvaluatorInv`, `NumberLemmas` |
| `Parser` | the parser and the syntax tree | |
| `ParserTypes` | the types of the nodes (`ast.h`), `PTypeOK` | `Parser` |
| `ParserGrammar` | the language of the forms: which text is the dump of which tree | `ParserTypes` |
| `ParserProofs` | the proofs | `ParserGrammar`, `NumberLemmas` |
| `ParserInv` | `ast.dump` as the reference, the other properties | `ParserTypes` |
| `MCVmThreads`, `MCCollector`, `MCHeapLimit`, `MCKVStorage`, `MCFrames`, `MCEvaluator`, `MCParser` | instances for TLC | |

A definition whose name has a suffix after an underscore and a comment that
begins with "Mutation" is a faulty variant of the definition after it; each
property is violated when one of them takes the place of the original.

### Correspondence with the code

**VmThreads.** `pc[i]` is where the thread of interpreter `i` is. One step is
one access to an atomic flag or one critical section: `handle_safepoint` is the
five actions `SafepointLoad` ... `SafepointReturn` for its load of `need_park_`,
the store to `parked_`, the store to `need_park_`, the wait for `need_unpark_`,
and the two stores at the end. `ret[i]` is where it returns to. A method that
fails to get the mutex is an action that is always possible (`UnregisterRetry`,
`SpawnRetry`, `JoinReapRetry`, the answer `nullopt`), since `try_lock` may fail
for no reason. `Execute` is the rest of a statement, reduced to whether it
pushed on the register queue (`pending`). Starting a thread is `SpawnStart`
(`new Interpreter`), `SpawnRegister`, `SpawnLaunch` (the new thread runs)
and `SpawnAssign` (only now is `worker_` assigned, `interpreter.cpp:963`): the
gap between the last two is in the code. `free` interpreters are addresses
without an object; with `Reuse` a deleted address may be handed out again.
`fatal` is `std::terminate`. The collector is sequential and has `gpc`.

**Collector.** Between two safepoints an interpreter allocates (`New`), reads
(`Lookup`, `Element`), stores (`Append`, `SetElement`), loses variables
(`Drop`), starts threads and ends. The scopes of one interpreter are one set of
variables, `vars[i]`. While the rest of an expression is evaluated, the locals of
the C++ code keep what has been evaluated already: the left operand of an operator
(`interpreter.cpp:104`, `346`), the arguments in `call_args` (`696`) and the lists
of `append`, of a subscript and of `+=` (`474`, `752`, `829`, `851`). `Hold` puts an
object in such a local, `held[i]`; a call in the rest of the expression then runs
statements, and with them safepoints. Afterwards an argument is bound in the scope
of the callee (`BindHeld`), a list is read or changed (`At` in `Element`, `Append` and
`SetElement`), and the local is gone (`Release`). Locals that no statement can come
between are not: the argument of a thread is evaluated at line 524 and bound
at 533, in the same statement.

These are the ways the module has in which the collector's books and the program
part company: `NewUnregistered` (a result that is pushed nowhere), `Exit` (the queue
goes with the interpreter), `Detach` (the function that started a thread returns,
and its scope was the only way to that of the thread), `ExitByReturn` (the scope of a
thread, or that of the main program, is deleted while an entry or the collector still
refers to it) and a held object that no scope refers to when the world is stopped
for a mark: it is collected, and when it is bound or changed afterwards the
scopes refer to what does not exist. `Orderly` says that none of them did harm so
far: no list is unknown to the books, no running interpreter's scope was cut off
(`strayed`), and whatever a local held at a mark was in reach (`unkept`, a history
variable). The safety properties are claimed under it, what is held included, and
where a comment of the code claims more, a run shows the contrary. When a deleted
object or scope is read, by an interpreter (`UseDeleted`) or by `mark`
(`MarkDeleted`), nothing is known of the run any more. A mark is one step per object of the
work list; a drain is one step, which is justified by `StopTheWorld`.

**KVStorage.** Operators on a record `[idx, data, size, dead]`, one per method;
`Change` and `Del` are what `Scope` calls. Hashes are constants. A loop that walks
along a probe path is the number of the slot at which it ends: `FindEnds` for the
loop of `__find`, `AddEnds` for that of `__add`. The loop of `__rehashData` is
`MoveAll`, which takes the slots of the old array in their order.

**SharedScope.** `kv` is what the table is when an operation of the owner is over
and `mem` what is in memory before that: the operation writes its slot, and a
rehash goes on in steps, `MoveIndex` (`__resize` moves the index first),
`NewArray`, `ClearArray`, a `MoveElement` for each element, `FreeArray`. The
reader is `Scope::get`: `BeginFind` computes the position, `ReadSlot` is one round
of the loop of `__find`, `CopyEntry` reads the entry through the reference. A
look-up that overlaps a step of a rehash becomes `overtaken` and may have read
anything. `sure` and `never` remember whether the name was there all the
time or never.

**HeapLimit.** Every action of `Collector` with the account of `max_hs_` beside
it: `HRegister` pays for the objects of the queues and the bytes of their
strings, `HSweep` gives the objects back, everything else leaves it alone.
`Word` is the number of values of `size_t`, `spelled` a history of the bytes of
strings. `Letters` gives the bytes of a set of objects, so that no sum has to be
computed by recursion.

**Parser.** The text is a sequence of tokens, which are the pieces of the literals
the code compares the text with, and the names, numbers and operators between
them. A `generate_` function is its form: the literals and parts it expects one
after the other. `stack` is the C++ stack, an activation per function that runs,
with the rest of its form and the parts it has built. One step compares one
literal (`Literal`), reads a token (`Leaf`, `Constant`), calls (`Call`, `Vector`),
goes on in a list (`Begin`, `More`) or returns (`Return`); every failed
comparison is the exception (`ParseError`). That a literal and the length the code
moves on by fit each other is taken from the source: they are one token. A number
becomes what `from_str` makes of its text (`FromStr`): one of `Huge` the nearest the
machine has, a sign without digits 0, a fraction that begins with a sign nothing.
Where a function looks ahead to
decide between two forms, `Call` and `End` compare the whole opening literal.

**Frames.** The tree walk keeps its place on the C++ stack, which is `stack`:
an activation per call, `while` and `if`. A return moves `scope_`, deletes a
scope and makes `false` travel up the stack: through ifs, to the next
call, while loop or worker (`Receiver`, `Deliver`). A `while` takes the `false`
for the end of one round (`interpreter.cpp:877`); `astray` records that this has
happened. A program is any sequence of statements, a return at its top, which
deletes the main scope, included. Look-up goes
through the callers (`Holder`), as in `Scope::name_lookup`.

**Evaluator.** A program assigns the results of operators to variables. Integers
are those of a word of `Width` bits and wrap around; shifts count modulo the
width, as on x86-64; division by zero, or of the least integer by -1, is a
`trap`; an operand read through a pointer of the wrong type is `wild`; a
repetition of a string a negative number of times is `runaway`. Of a float only
its type is kept, but a power of integers goes through doubles, whose integers
are exact up to `2^Mantissa` (53 bits in the machine) and rounded above (`Double`;
`std::pow` is taken as correctly rounded). A list is an object that variables and lists refer to;
`lists` has its elements, and those of a list nobody refers to are forgotten.

## 3. The runs

| Run | Checks | Instance |
|---|---|---|
| `vm_threads3` | inductive invariant, eight safety properties, refinement of `StopTheWorld` | three interpreters, each address used once |
| `vm_live` | the five liveness properties | three interpreters, addresses reused: the first starts the second and the second the third, the first two join the third |
| `collector_heap` | `CInv`, `RoomIsRight`, `MarkingTerminates` | one interpreter, two lists and one string, nothing held across a call; no limit, `-Xmx 3` and `-Xmx 1mb`, an account modulo 4 |
| `collector_threads` | `CInv`, `ReachableExists`, `LeftIsUnique`, `SweepIsPrecise` | two interpreters, of which the thread holds an object across calls, one list and two other objects, limit 2 |
| `kv` | `KTypeOK`, `LiveIsFound`, `CountersAreRight`, `RoomLeft`, `RehashRebuilds`, `LookupIsRight`, refinement of `ScopeMap` | seven names, the capacities and percentages of the source, one reader of a name that collides |
| `frames` | inductive invariant `FInv`, `RunsInItsScope`, `ScopesAreTheCalls`, `RootReachesAll`, `NoDeletedScopeUsed` | two functions, four scopes, nesting of four |
| `evaluator` | `ETypeOK`, `AgreesWithPython`, `OneOrder` | a word of four bits, strings computed up to length one and constants of length two, one list of two elements |
| `parser` | `PTypeOK`, `Lossless`, `AcceptsItsGrammar` | the dumps of every statement and expression and of nested ones, and texts that differ from a dump by a token that is missing, replaced or added |

Four runs show where the program does something else than its comments say:

* `vm_park_all`: `park_all` holds the mutex and waits for an interpreter whose
  thread is in the constructor of another one; the constructor waits for the
  mutex and polls the safepoint of the *new* object. Nobody goes on.
  `ParkAllReturnsOrStuck` in `vm_live` says that this is the only way.
* `collector_operand`: the left operand of `1 + f(2)` is deleted while `f` runs,
  although a comment says that no collection can happen there. It is in the
  last result of the scope until the argument of `f` is evaluated. So is
  the first argument of `f(1, g(2))`, which `f` then finds in its scope.
* `collector_dead`: a list in the queue of an interpreter that ended keeps its
  mark for ever, so the next mark does not follow it and a live element is
  deleted.
* `frames_loop`: after a `return` inside a `while` the loop goes on in the scope
  of the caller.

Other departures are in the models and stated as the domain of a property or as
a final state, and no property claims their absence: a thread whose scope was
cut off (`strayed`), a third thread that joins a worker between its launch and
the assignment of `worker_`, which terminates the process (`fatal`;
`TerminateOnlyAtLaunch` says that no other join does; an exception in a statement,
which nothing catches, ends the process too), a deleted scope that is
still an entry and a deleted object that is used (`undefined` in `Collector`), `return` without a value where
nothing was evaluated (`empty` in `Frames`), dynamic instead of lexical scoping
(`Holder`), `//` and `%` of operands of different sign, negative indices, `+=`
on a list that adds its right operand as one element, `==` of lists as identity,
`!=` of values of different types, `%` and `**` of booleans, a string plus a value of another type
(`wild`), powers beyond the integers a double holds, a join of a handle whose address was reused.

Of the heap limit: `max_hs_` is unsigned, so that `max_hs_ < 0` is never true and
the exception "max heap size exceeded" is never thrown; the account wraps around
instead. `mb` multiplies by 1024 and `gb` by 1024 * 1024, as if the number were
kilobytes. The bytes of a string are taken from the room when it is registered
and never given back (`spelled`).

Of the parser: a string keeps the escapes of its `repr`; a string constant that
Python prints between double quotes, `None`, floats with an exponent, class
definitions before Python 3.12 and dumps that leave out empty lists (Python
3.13) are refused; `-` alone and `7.` are read as numbers. An integer that does
not fit in an `ssize_t`, which Python prints, becomes the greatest that does, and `-`,
which it does not print, 0: `Lossless` is about texts whose numbers are
Python's and fit the machine (`NumbersFit`). `misc/ast_spec.asdl` lists `List`, `Dict`,
the `returns` of a function and the `orelse` of a `for`, for which there is no code:
`AcceptsItsGrammar` leaves them out.

### Why the bounds are enough

* *VmThreads*: the protocol treats interpreters alike. Three of them show
  the races between a starter, the started and a third one that joins or
  reaps; the loops of the collector are then at their first, a middle and their
  last element. In `vm_threads3` any of them may start and join any other one.
  For liveness the program is one (`Starts`, `Joins`): a chain of starts, at whose
  end is a thread that two others join, one of which finds it reaped by the other
  one; a reaped address may be given to a new thread while the other join still
  polls it. New objects make no difference to the waits, so that there are none
  (`Allocates`). Flags, queues and registry are finite. The theorems hold
  for every number and every program.
* *Collector*: two lists are enough for a cycle and for a list that is reached
  through another one only; with two interpreters there is a scope below the
  root, one that is cut off and one that ended. `Limit` 1 collects in every
  cycle, 2 also has cycles without a collection. `Nesting` bounds how
  many objects an interpreter holds across calls: in `collector_threads` the thread
  holds one, which its starter may share, change and drop; in `collector_operand` the
  main program does; in the others nobody. A second one that is held would be lost or
  kept like the first. The theorems hold for any number. Counters do not occur.
* *KVStorage*: seven names reach the first growth (five of seven slots), a
  deleted slot that is used again and cleaned away in the larger table (seven
  of seventeen), and the shrinking after it. Several of them start at the same
  position of the small table, and others meet in the larger one, at its end
  too, so that probe paths are long, wrap around and change. One value is enough:
  a value moves with its name in one record. The reader looks up one name, which
  has collisions at both capacities; the owner does at most what the other
  names allow between any two of its steps.
* *HeapLimit*: an account modulo 4 wraps around with three objects; the unit of
  an object is 1 and a string has two more.
* *Parser*: there are the digit 0, as which a text without digits is read, one run of
  digits that fits and one that does not, alone, with signs and in fractions. Every kind of node occurs, each list with no element, one and two, and
  each statement inside each block. A text that is not a dump differs from one
  in one place; deeper nesting repeats the same activations.
* *Frames*: nesting of four under the worker gives recursion, mutual recursion,
  a call in a loop, a loop in a call and both at once; four scopes allow three
  calls at a time beside the main program. `MaxDepth` and the number of scopes are the bounds.
* *Evaluator*: one list of at most two elements has indices inside and outside its
  range on both sides, is shared by the two variables and may contain itself;
  what is put in it beside lists is one integer (`Kept`). The constants reach every integer of the word, so every pair of
  operands occurs for every operator; the width only scales the range. With a
`Mantissa` of two bits some powers are rounded and some are not. `MaxLen`
  bounds what concatenation and repetition may build.

### Fairness

`Spec` in `VmThreads` assumes what the code counts on: a thread that can run is
scheduled (weak fairness of each worker, of a reaping thread and of the
collector), and a thread that tries again and again to take the mutex by
`try_lock` gets it in the end, if the mutex is free again and again while it
tries. The second is stronger than fairness of one try, because a safepoint lies
between two tries; the retry loops have no other way to end, and the
collector leaves the mutex alone for a second between two cycles
(`gc.cpp:158`), a thousand times their period. `CFairSpec` in `Collector` and
`HFairSpec` in `HeapLimit` assume weak fairness of the collector only. The other
modules claim no liveness and assume none.

## 4. The proofs

`VmThreadsProofs` proves, for every finite or infinite set of interpreters and
with or without reuse of addresses, from `ThreadsAssumption` alone (the names of
the threads are distinct, and `Allocates`, `Starts` and `Joins` are about interpreters):

* `Invariance`: `Safety => []IInv`;
* `TypeCorrect`, `WorldStandsStill`, `SnapshotStaysCurrent`, `UnparkIsFresh`,
  `ParkIsFresh`, `LaunchIsSafe`, `TerminatesOnlyAtLaunch`, `CollectJoins`,
  `JoinIsAJoin`: the safety properties of `vm_threads3`;
* `Refinement`: `Safety => KeepsStopTheWorld`.

None of the safety properties is inductive. That the world stands depends on
where every interpreter is in `handle_safepoint` in *every* phase of the
collector, including how far `park_all` and `run_all` have got. `IInv` is the
conjunction of parts that each say one thing: who is registered (`RegistryInv`),
who holds the mutex (`MonitorInv`), how the flags follow the program counters
(`ParkedInv`, `UnparkInv`), what has been asked and answered in each phase
(`PhaseInv`), the queue of threads to join (`QueueInv`, `CurInv`), the drain
(`DrainInv`), who starts whom (`SpawnInv`, `MainInv`), what a join has seen
(`JoinInv`, without reuse). TLC checks `IInv` as an invariant of `vm_threads3`;
the proof has one lemma per group of actions, in it one step per action, and
under it one per part. The refinement is then a case per action: `SpawnRegister` maps to
`Start`, `Unregister` to `Leave`, `Execute` to `Allocate`, `GcCheck` to `Stop`,
`GcDrain` to `Drain`, `GcRunLock` to `Resume`, the empty snapshot to `End`, and
all others to a stutter. `TerminatesOnlyAtLaunch` needs one more part on top of
`IInv`: an interpreter whose thread has been started is assigned, or the thread
that started it is about to assign it (`WorkerAssigned`).

`CollectorProofs` proves, for every heap, every set of interpreters and every
limit, from `CollectorAssumption`:

* `CollectorInvariance`: `CSpec => []CInv`;
* `NothingReachableDies`, `UniqueBooks`, `SweepLeavesReachable`: the three safety
  properties of `collector_threads`.

`CInv` says of the scopes that they form a tree and that a running interpreter
whose scope is not cut off sees only scopes the root reaches (`ScopeInv`), of
the queues and `left_` that they are disjoint (`ListsInv`), of marks that between
two collections they are on orphans only (`MarksInv`), of variables, lists
and locals that they refer to what exists (`HeapInv`), and of a mark in progress that the
work list is exactly the border between what is marked and followed and the rest,
that nothing unreachable in the books was marked, and that what locals hold
is in reach (`MarkingInv`). The argument
rests on one lemma, `OrderlyBack`: the ways of losing a list, a scope or a local cannot
be undone, so that what is claimed under `Orderly` after a step could be
assumed before it. The proof has a lemma per part, and in it a step per action.

It proves of `HeapLimit`, for every word, limit and heap, from `HeapLimitAssumption`
in addition:

* `AccountIsRight`: `HSpec => []RoomIsRight`, for finite heaps (`FiniteBooks`).
  The steps of `HSpec` are steps of `CSpec` with an account of them, so that what is
  proved of the collector holds with it. A registration adds the new objects, which
  `CInv` says are in no other book, a sweep takes away those it deletes
  (`RegisterKeepsAccount`, `SweepKeepsAccount`); sums and differences are then
  compared modulo the word (`ModTerm`).

`FramesProofs` proves, for all functions, any number of scopes and any depth of the
recursion, from `FramesAssumption`:

* `FramesInvariance`: `FSpec => []FInv`;
* `CallsRunInTheirScope`, `ScopesFollowCalls`, `RootSeesEveryScope`,
  `DeletedScopesAreLeft`: the four safety properties of `frames`.

`RunsInItsScope` speaks of the last activation only; after a return it holds of
the caller because every activation below kept its own home. `FInv` says
how the stack, the parents and the entries fit: two activations share a home if
and only if no call lies between them (`HomesInv`), the scope of a call has
the home of the activation below as its parent and is its entry (`CallsInv`),
the scopes that exist are the homes (`ScopesInv`), and a scope is an entry of
its parent only, and once (`EntriesInv`, without which the deletion of the
entry of a recursive call could cut off another scope). All of it is claimed until a
while loop swallows a return. The proof has a lemma for each way the stack changes:
it stays, an activation is put on it (`PushKeeps`), it is cut back to the receiver
of a return (`CutKeeps`, `ReceiverIsLastBlock`).

`KVStorageProofs` proves, for every list of capacities, every hash function and all
percentages that satisfy `StorageAssumption` and `RoomAssumption`:

* `StorageInvariance`, and from it `StoreIsTyped`, `EntriesAreFound`,
  `CountersCount`, `ThereIsRoom`: the invariants of `kv`;
* `ScopeIsAMap`: `KSpec => IsAMap`, the table implements `ScopeMap`.

`LiveIsFound` is not inductive: whether a key is found after a slot was reused or
a table rebuilt depends on the slots its probe passes. `WellFormed` says it slot by
slot: from the hash position of a live key to its slot all slots are used
(`Reached`), a name has one live slot (`NoDup`), the counters count (`Counted`).
Placing a key that is absent, marking and assigning keep this (`PlaceKeeps`,
`MarkKeeps`, `ChangeKeeps`). For a rehash the loop is unrolled: after `n` slots the new table is
well formed and has exactly the live entries of these `n` slots (`MovedThroughout`).
That an addition always finds a place is arithmetic: after `__resize` at most 70
percent of the slots are live, or the table was just rebuilt, has no deleted slots and
is not full (`Resized`); after `__reduceDeleted` at most 10 percent are deleted, and
one slot at least was never used (`Roomy`).
`RoomAssumption` is true of the 28 capacities of the source and of 70, 30 and 10; the
one thing it asks of a program is that its names fit the greatest capacity, which is
1 610 612 741 slots: beyond that the table of the source cannot grow and would fill up.

`SharedScopeProofs` proves, for every reader, in addition from `WantedAssumption`:

* `SharedScopeIsAMap`: all that is proved of the table holds with a reader beside it,
  whose steps leave the table alone;
* `RehashIsRebuilt`: after the last step of a rehash memory holds the table of
  `KVStorage`. Between two steps, memory is what `MoveAll` has after some number of slots,
  and the old array the slots that are left (`MemInv`);
* `LookupsAreRight`: as long as no rehash began, a name that was there all the
  time is still ahead of the reader, on used slots (`LookupInv`).

`EvaluatorProofs` proves, for every width above two (a sum of two booleans has to
fit), every mantissa, all names, constants that are literals, lists and elements, from
`EvaluatorAssumption`:

* `ValuesFit`: `ESpec => []ETypeOK`, no operator, conversion or index makes a value
  that is not one of the machine;
* `ComparisonsAgree`: `ESpec => []OneOrder`;
* `PythonAgrees`: `ESpec => []AgreesWithPython`.

The first has a lemma per operator: what it gives is a value or one of the four
ends (`Outcome`). The order of strings is total because the first place where two
texts differ decides (`BelowIsTotal`). For the agreement, `DidInv` says that `did`
records what the operator of that name gives for its operands (TLC checks it on the
instance of `evaluator`), and one lemma per operator compares it with Python's:
a result that fits is not changed by wrapping around; truncating and flooring
division agree where the signs do, since only one number satisfies the
definition of a quotient (`OneQuotient`); a number is determined by its bits
(`SameBits`) and a number put together from bits has these bits and repeats the
last one as its sign (`FromBitsBits`, `SignBit`); character `k` of a repeated
string is character `k` modulo its length (`RepeatRepeats`); and the digits
`to_string` writes are read back as the same number (`NumberOfNumeral`).

Recursive definitions are unfolded with `NumberLemmas`. The theorems of induction
of the library have an operator as a parameter, which the provers cannot use;
`SetInduction` and `StrongInduction` say the same of a set of numbers and follow
from the least counterexample (`LeastExists`). That a recursive function
exists, and so that the `CHOOSE` behind it has its property, is
`RecursionExists`: the union of the finite beginnings.

`ParserProofs` proves, for every text over every set of texts in quotes and of digits, from
`ParserAssumption` (a text in quotes, a number and a word of the forms are different
tokens):

* `ParserInvariance`: `PSpec => []PInv`, the inductive invariant;
* `TreeTypes`: `PSpec => []PTypeOK`, whatever the text, no `conv_or` fails on a node
  the parser built, so that no pointer in the tree is null that `ast.h` declares;
* `TreesAtEveryDepth`: the same of the nodes at every depth, where `PTypeOK` stops
  at the length of the text;
* `DumpsAreAccepted`, `OnlyDumpsAreAccepted` and, from both, `ParserAcceptsExactly`:
  the parser accepts the texts its forms generate and no others, and the tree it
  builds is the only one whose dump the text is.

`PInv` says what a `generate_*` that is running has in hand: what is left of its
form asks for exactly the parts its node lacks, one by one and of their types (`FormFits`);
and what it will return is what the activation below it asks for. Every node that is
finished is complete and so are its parts. The forms of the grammar are compared
with the fields of the classes symbol by symbol. What lies `Within` a depth is a
recursive function and is unfolded with `SetInduction`.

`ParserGrammar` says what the forms generate without saying how to read it. A
derivation is a set of nodes, each with its symbols, the place of each symbol in
the text and the parts it stands for; the symbols are a form of the kind of the node
(`Produces`): all choices between forms, ends and lengths of lists are open. What
the code does, and the grammar does not say, is to decide by what the text begins
with, to read a number as far as it goes, to end a list where there is no comma.
`DumpsAreAccepted` follows a given derivation: every function on the stack is at a
symbol of its node (`Path`), the text there tells the form of the node from all
others (`OpeningMatches`, `EndsDiffer`, `ElementBegins`), and a number ends where that of the
derivation ends (`ConstantExact`). `OnlyDumpsAreAccepted` builds a derivation: the functions
on the stack cover the text up to `pos`, one after the other, and with what is left of
its form each has a production of its kind (`HasBeenRead`, `Remains`). That what
`ast.dump` prints are texts of these forms is what TLC checks (`Lossless`,
`AcceptsItsGrammar`).

Only model-checked: all liveness (`vm_live`, `MarkingTerminates`), since the
prover does not reason about fairness, and of the parser `Lossless` and
`AcceptsItsGrammar`: their reference, `ast.dump`, is a recursive operator, which keeps the
prover from using SMT.

## 5. What is not modelled

* The logger; reading files and calling Python; the owning pointer of `utils.h`;
  the empty allocator.
* What a look-up reads beside a rehash, or beside the writing of the slot it
  reads: `SharedScope` takes a slot as read and written at once and claims nothing
  of a look-up that overlaps a rehash. `Collector` takes a look-up as one step.
* The characters of a token: where a run of digits or a name ends, and which number
  is the nearest to one the machine does not have. A literal of the parser whose
  length is miscounted cannot be expressed.
* The counter that names thread entries (`interpreter.cpp:526-530`, a compare-and-
  exchange loop that gives every thread its own), fields, methods and hashing
  of objects, dicts (no program can create one), float values, what `print` writes.
* What a freed object's memory holds: runs end where it would be read.

## 6. Plan

Done: `Safepoint`, `ThreadManager`, `VmThreads`, `StopTheWorld` with invariant,
liveness, refinement and proofs; `Collector` with invariant and proofs;
`HeapLimit`, `KVStorage`, `ScopeMap`, `SharedScope`, `Frames`, `Evaluator` and `Parser`
with their proofs.

Left: fields, methods and hashing of objects, once a program can reach them.
