----------------------------- MODULE Safepoint -----------------------------
(***************************************************************************)
(* The three atomic flags by which the collector stops and resumes one     *)
(* interpreter, and the memory operations of Interpreter::handle_safepoint *)
(* (src/interpreter.cpp:27-37), one operator per atomic load or store.     *)
(*                                                                         *)
(* The module is a component: its operators say what happens to the flags, *)
(* VmThreads says which thread does it and when.                           *)
(***************************************************************************)
EXTENDS Naturals, FiniteSets

CONSTANT Interp          \* addresses an Interpreter object can live at

VARIABLES
  parked,                \* parked[i]: i waits in its safepoint
  need_park,             \* need_park[i]: the collector asked i to wait
  need_unpark            \* need_unpark[i]: the collector told i to go on

flags == <<parked, need_park, need_unpark>>

FlagsType ==
  /\ parked \in [Interp -> BOOLEAN]
  /\ need_park \in [Interp -> BOOLEAN]
  /\ need_unpark \in [Interp -> BOOLEAN]

\* A constructed interpreter has its three flags down.
FlagsInit ==
  /\ parked = [i \in Interp |-> FALSE]
  /\ need_park = [i \in Interp |-> FALSE]
  /\ need_unpark = [i \in Interp |-> FALSE]

Construct(i) ==
  /\ parked' = [parked EXCEPT ![i] = FALSE]
  /\ need_park' = [need_park EXCEPT ![i] = FALSE]
  /\ need_unpark' = [need_unpark EXCEPT ![i] = FALSE]

-----------------------------------------------------------------------------
(* What the collector does to an interpreter, through the thread manager.  *)

\* Interpreter::park, a plain store: it does not wait for the answer.
Park(i) ==
  /\ need_park' = [need_park EXCEPT ![i] = TRUE]
  /\ UNCHANGED <<parked, need_unpark>>

\* Interpreter::run, a plain store.
\* Mutation: the store is missing.
Run_forgets(i) == UNCHANGED flags
Run(i) ==
  /\ need_unpark' = [need_unpark EXCEPT ![i] = TRUE]
  /\ UNCHANGED <<parked, need_park>>

-----------------------------------------------------------------------------
(* The stores of handle_safepoint, in the order of the code.               *)

\* parked_.store(true)
AnswerPark(i) ==
  /\ parked' = [parked EXCEPT ![i] = TRUE]
  /\ UNCHANGED <<need_park, need_unpark>>

\* need_park_.store(false)
\* Mutation: the request is not consumed and stops the interpreter again.
ConsumePark_keeps(i) == UNCHANGED flags
ConsumePark(i) ==
  /\ need_park' = [need_park EXCEPT ![i] = FALSE]
  /\ UNCHANGED <<parked, need_unpark>>

\* parked_.store(false), after need_unpark_ was seen
LeavePark(i) ==
  /\ parked' = [parked EXCEPT ![i] = FALSE]
  /\ UNCHANGED <<need_park, need_unpark>>

\* need_unpark_.store(false)
\* Mutation: the permission to go on is left for the next safepoint to find.
ConsumeUnpark_keeps(i) == UNCHANGED flags
ConsumeUnpark(i) ==
  /\ need_unpark' = [need_unpark EXCEPT ![i] = FALSE]
  /\ UNCHANGED <<parked, need_park>>
=============================================================================
