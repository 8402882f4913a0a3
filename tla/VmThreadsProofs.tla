-------------------------- MODULE VmThreadsProofs --------------------------
(***************************************************************************)
(* Proofs about VmThreads, for every set of interpreters and with or       *)
(* without reuse of addresses: the parts of IInv are preserved together by *)
(* every step, and the safety properties follow from them; and every step  *)
(* is a step of StopTheWorld.                                              *)
(*                                                                         *)
(* One lemma per group of actions.  Under an action there is one step for  *)
(* every part of the invariant whose variables the action changes, and one *)
(* for all the others together.                                            *)
(***************************************************************************)
EXTENDS VmThreadsInv, TLAPS

-----------------------------------------------------------------------------
(* The inductive invariant.                                                *)

\* The initial states satisfy the invariant.
LEMMA InitInv == Init => IInv
<1> SUFFICES ASSUME Init PROVE IInv
  OBVIOUS
<1> USE ThreadsAssumption DEF Init, FlagsInit
<1>1. TypeOK
  BY DEF TypeOK, FlagsType, ManagerType, Label, SafepointLabel, Returns,
         CollectorLabel
<1>2. RegistryInv /\ MonitorInv /\ ParkedInv /\ PhaseInv /\ UnparkInv
  BY DEF RegistryInv, MonitorInv, ParkedInv, PhaseInv, UnparkInv, Outside,
         Holding, Stopping, Stopped, Ending
<1>3. CurInv /\ QueueInv /\ DrainInv
  BY DEF CurInv, QueueInv, DrainInv, Reaping
<1>4. SpawnInv /\ MainInv /\ JoinInv
  BY DEF SpawnInv, MainInv, JoinInv, Launcher, Launched, SawItLeave, Joining,
         SafepointLabel
<1> QED
  BY <1>1, <1>2, <1>3, <1>4 DEF IInv

\* A stuttering step preserves it.
LEMMA StutterStep == IInv /\ UNCHANGED vars => IInv'
<1> SUFFICES ASSUME IInv, UNCHANGED vars PROVE IInv'
  OBVIOUS
<1> USE DEF IInv, vars, flags, manager, workers
<1>1. TypeOK' /\ RegistryInv' /\ MonitorInv' /\ ParkedInv' /\ PhaseInv'
  BY DEF TypeOK, FlagsType, ManagerType, RegistryInv, MonitorInv, ParkedInv,
         PhaseInv
<1>2. UnparkInv' /\ CurInv' /\ QueueInv' /\ DrainInv'
  BY DEF UnparkInv, CurInv, QueueInv, DrainInv, Reaping
<1>3. SpawnInv' /\ MainInv' /\ JoinInv'
  BY DEF SpawnInv, MainInv, JoinInv, Launcher, SawItLeave, Joining
<1> QED
  BY <1>1, <1>2, <1>3

\* A step of handle_safepoint preserves the invariant.
LEMMA SafepointStep ==
  ASSUME IInv, NEW i \in Interp, Safepoint(i)
  PROVE  IInv'
<1> USE ThreadsAssumption DEF IInv, TypeOK
<1>1. CASE SafepointLoad(i)
  <2> USE <1>1 DEF SafepointLoad, LeaveSafepoint, Goto, flags, manager,
       FlagsType, ManagerType, Label, SafepointLabel, Returns
  <2>1. TypeOK'
    BY DEF CollectorLabel
  <2>2. RegistryInv'
    BY DEF RegistryInv, Outside
  <2>3. MonitorInv'
    BY DEF MonitorInv, Holding
  <2>4. ParkedInv'
    BY DEF ParkedInv, Outside
  <2>5. PhaseInv'
    BY DEF PhaseInv, Stopping, Stopped, Ending, Waiting
  <2>6. UnparkInv'
    BY DEF UnparkInv
  <2>7. CurInv'
    BY DEF CurInv, Reaping, MonitorInv, Holding
  <2>8. QueueInv'
    BY DEF QueueInv
  <2>9. DrainInv'
    BY DEF DrainInv
  <2>10. SpawnInv'
    BY DEF SpawnInv, Launcher, Launched
  <2>11. MainInv'
    BY DEF MainInv, Launcher, Launched
  <2>12. JoinInv'
    BY DEF JoinInv, SawItLeave, Joining
  <2> QED
    BY <2>1, <2>2, <2>3, <2>4, <2>5, <2>6, <2>7, <2>8, <2>9, <2>10, <2>11,
         <2>12
<1>2. CASE SafepointAnswer(i)
  <2> USE <1>2 DEF SafepointAnswer, Goto, AnswerPark, manager
  <2>1. TypeOK'
    BY DEF FlagsType, ManagerType, Label, SafepointLabel, Returns,
         CollectorLabel
  <2>2. RegistryInv'
    BY DEF RegistryInv, Outside
  <2>3. MonitorInv'
    BY DEF MonitorInv, Holding
  <2>4. ParkedInv'
    BY DEF ParkedInv, Outside, FlagsType, ManagerType
  <2>5. PhaseInv'
    BY DEF PhaseInv, Stopping, Stopped, Ending, Waiting
  <2>6. UnparkInv'
    BY DEF UnparkInv
  <2>7. CurInv'
    BY DEF CurInv, Reaping
  <2>8. QueueInv'
    BY DEF QueueInv
  <2>9. DrainInv'
    BY DEF DrainInv, FlagsType, ManagerType
  <2>10. SpawnInv'
    BY DEF SpawnInv, Launcher, Launched, FlagsType, ManagerType, Label,
         SafepointLabel, Returns
  <2>11. MainInv'
    BY DEF MainInv, Launcher, Launched, FlagsType, ManagerType, PhaseInv,
         Stopping, Stopped, Ending, Waiting
  <2>12. JoinInv'
    BY DEF JoinInv, SawItLeave, Joining, SafepointLabel
  <2> QED
    BY <2>1, <2>2, <2>3, <2>4, <2>5, <2>6, <2>7, <2>8, <2>9, <2>10, <2>11,
         <2>12
<1>3. CASE SafepointConsume(i)
  <2> USE <1>3 DEF SafepointConsume, Goto, ConsumePark, manager
  <2>1. TypeOK'
    BY DEF FlagsType, ManagerType, Label, SafepointLabel, Returns,
         CollectorLabel
  <2>2. RegistryInv'
    BY DEF RegistryInv, Outside
  <2>3. MonitorInv'
    BY DEF MonitorInv, Holding
  <2>4. ParkedInv'
    BY DEF ParkedInv, Outside, FlagsType, ManagerType
  <2>5. PhaseInv'
    BY DEF PhaseInv, Stopping, Stopped, Ending, Waiting, FlagsType, ManagerType
  <2>6. UnparkInv'
    BY DEF UnparkInv
  <2>7. CurInv'
    BY DEF CurInv, Reaping
  <2>8. QueueInv'
    BY DEF QueueInv
  <2>9. DrainInv'
    BY DEF DrainInv, FlagsType, ManagerType
  <2>10. SpawnInv'
    BY DEF SpawnInv, Launcher, Launched, FlagsType, ManagerType, Label,
         SafepointLabel, Returns
  <2>11. MainInv'
    BY DEF MainInv, Launcher, Launched, FlagsType, ManagerType, PhaseInv,
         Stopping, Stopped, Ending, Waiting
  <2>12. JoinInv'
    BY DEF JoinInv, SawItLeave, Joining, SafepointLabel
  <2> QED
    BY <2>1, <2>2, <2>3, <2>4, <2>5, <2>6, <2>7, <2>8, <2>9, <2>10, <2>11,
         <2>12
<1>4. CASE SafepointWait(i)
  <2> USE <1>4 DEF SafepointWait, Goto, flags, manager
  <2>1. TypeOK'
    BY DEF FlagsType, ManagerType, Label, SafepointLabel, Returns,
         CollectorLabel
  <2>2. RegistryInv'
    BY DEF RegistryInv, Outside
  <2>3. MonitorInv'
    BY DEF MonitorInv, Holding
  <2>4. ParkedInv'
    BY DEF ParkedInv, Outside
  <2>5. PhaseInv'
    BY DEF PhaseInv, Stopping, Stopped, Ending, Waiting, FlagsType,
         ManagerType, UnparkInv
  <2>6. UnparkInv'
    BY DEF UnparkInv
  <2>7. CurInv'
    BY DEF CurInv, Reaping
  <2>8. QueueInv'
    BY DEF QueueInv
  <2>9. DrainInv'
    BY DEF DrainInv, FlagsType, ManagerType
  <2>10. SpawnInv'
    BY DEF SpawnInv, Launcher, Launched, FlagsType, ManagerType, Label,
         SafepointLabel, Returns
  <2>11. MainInv'
    BY DEF MainInv, Launcher, Launched, FlagsType, ManagerType, UnparkInv
  <2>12. JoinInv'
    BY DEF JoinInv, SawItLeave, Joining, SafepointLabel
  <2> QED
    BY <2>1, <2>2, <2>3, <2>4, <2>5, <2>6, <2>7, <2>8, <2>9, <2>10, <2>11,
         <2>12
<1>5. CASE SafepointLeave(i)
  <2> USE <1>5 DEF SafepointLeave, Goto, LeavePark, manager
  <2>1. TypeOK'
    BY DEF FlagsType, ManagerType, Label, SafepointLabel, Returns,
         CollectorLabel
  <2>2. RegistryInv'
    BY DEF RegistryInv, Outside
  <2>3. MonitorInv'
    BY DEF MonitorInv, Holding
  <2>4. ParkedInv'
    BY DEF ParkedInv, Outside, FlagsType, ManagerType
  <2>5. PhaseInv'
    BY DEF PhaseInv, Stopping, Stopped, Ending, Waiting
  <2>6. UnparkInv'
    BY DEF UnparkInv
  <2>7. CurInv'
    BY DEF CurInv, Reaping
  <2>8. QueueInv'
    BY DEF QueueInv
  <2>9. DrainInv'
    BY DEF DrainInv, FlagsType, ManagerType
  <2>10. SpawnInv'
    BY DEF SpawnInv, Launcher, Launched, FlagsType, ManagerType, Label,
         SafepointLabel, Returns
  <2>11. MainInv'
    BY DEF MainInv, Launcher, Launched, FlagsType, ManagerType, UnparkInv
  <2>12. JoinInv'
    BY DEF JoinInv, SawItLeave, Joining, SafepointLabel
  <2> QED
    BY <2>1, <2>2, <2>3, <2>4, <2>5, <2>6, <2>7, <2>8, <2>9, <2>10, <2>11,
         <2>12
<1>6. CASE SafepointReturn(i)
  <2> USE <1>6 DEF SafepointReturn, LeaveSafepoint, Goto, ConsumeUnpark, manager,
       FlagsType, ManagerType, Label, SafepointLabel, Returns
  <2>1. TypeOK'
    BY DEF CollectorLabel
  <2>2. RegistryInv'
    BY DEF RegistryInv, Outside
  <2>3. MonitorInv'
    BY DEF MonitorInv, Holding
  <2>4. ParkedInv'
    BY DEF ParkedInv, Outside
  <2>5. PhaseInv'
    BY DEF PhaseInv, Stopping, Stopped, Ending, Waiting
  <2>6. UnparkInv'
    BY DEF UnparkInv
  <2>7. CurInv'
    BY DEF CurInv, Reaping, MonitorInv, Holding
  <2>8. QueueInv'
    BY DEF QueueInv
  <2>9. DrainInv'
    BY DEF DrainInv
  <2>10. SpawnInv'
    BY DEF SpawnInv, Launcher, Launched
  <2>11. MainInv'
    BY DEF MainInv, Launcher, Launched
  <2>12. JoinInv'
    BY DEF JoinInv, SawItLeave, Joining
  <2> QED
    BY <2>1, <2>2, <2>3, <2>4, <2>5, <2>6, <2>7, <2>8, <2>9, <2>10, <2>11,
         <2>12
<1> QED
  BY <1>1, <1>2, <1>3, <1>4, <1>5, <1>6 DEF Safepoint

\* So does a step of a statement, up to the end of the worker.
LEMMA StatementStep ==
  ASSUME IInv, NEW i \in Interp,
         Execute(i) \/ Finish(i) \/ Unregister(i) \/ UnregisterRetry(i) \/ Exit(i)
  PROVE  IInv'
<1> USE ThreadsAssumption DEF IInv, TypeOK
<1>1. CASE Execute(i)
  <2> USE <1>1 DEF Execute, CallSafepoint, Goto, flags, manager
  <2>1. TypeOK'
    BY DEF FlagsType, ManagerType, Label, SafepointLabel, Returns,
         CollectorLabel
  <2>2. RegistryInv'
    BY DEF RegistryInv, Outside
  <2>3. MonitorInv'
    BY DEF MonitorInv, Holding
  <2>4. ParkedInv'
    BY DEF ParkedInv, Outside
  <2>5. PhaseInv'
    BY DEF PhaseInv, Stopping, Stopped, Ending, Waiting
  <2>6. UnparkInv'
    BY DEF UnparkInv
  <2>7. CurInv'
    BY DEF CurInv, Reaping
  <2>8. QueueInv'
    BY DEF QueueInv
  <2>9. DrainInv'
    BY DEF DrainInv, FlagsType, ManagerType, PhaseInv, Stopping, Stopped,
         Ending, Waiting
  <2>10. SpawnInv'
    BY DEF SpawnInv, Launcher, Launched, FlagsType, ManagerType, Label,
         SafepointLabel, Returns
  <2>11. MainInv'
    BY DEF MainInv, Launcher, Launched, FlagsType, ManagerType, Label,
         SafepointLabel, Returns
  <2>12. JoinInv'
    BY DEF JoinInv, SawItLeave, Joining, SafepointLabel
  <2> QED
    BY <2>1, <2>2, <2>3, <2>4, <2>5, <2>6, <2>7, <2>8, <2>9, <2>10, <2>11,
         <2>12
<1>2. CASE Finish(i)
  <2> USE <1>2 DEF Finish, Goto, flags, manager
  <2>1. TypeOK'
    BY DEF FlagsType, ManagerType, Label, SafepointLabel, Returns,
         CollectorLabel
  <2>2. RegistryInv'
    BY DEF RegistryInv, Outside
  <2>3. MonitorInv'
    BY DEF MonitorInv, Holding
  <2>4. ParkedInv'
    BY DEF ParkedInv, Outside
  <2>5. PhaseInv'
    BY DEF PhaseInv, Stopping, Stopped, Ending, Waiting
  <2>6. UnparkInv'
    BY DEF UnparkInv
  <2>7. CurInv'
    BY DEF CurInv, Reaping
  <2>8. QueueInv'
    BY DEF QueueInv
  <2>9. DrainInv'
    BY DEF DrainInv, FlagsType, ManagerType
  <2>10. SpawnInv'
    BY DEF SpawnInv, Launcher, Launched, FlagsType, ManagerType, Label,
         SafepointLabel, Returns
  <2>11. MainInv'
    BY DEF MainInv, Launcher, Launched, FlagsType, ManagerType, Label,
         SafepointLabel, Returns
  <2>12. JoinInv'
    BY DEF JoinInv, SawItLeave, Joining, SafepointLabel
  <2> QED
    BY <2>1, <2>2, <2>3, <2>4, <2>5, <2>6, <2>7, <2>8, <2>9, <2>10, <2>11,
         <2>12
<1>3. CASE Unregister(i)
  <2> USE <1>3 DEF Unregister, Goto, UnregisterInterpreter, MonitorFree, flags,
       FlagsType, ManagerType, Label, SafepointLabel, Returns
  <2>1. TypeOK'
    BY DEF CollectorLabel
  <2>2. RegistryInv'
    BY DEF RegistryInv, Outside
  <2>3. MonitorInv'
    BY DEF MonitorInv, Holding
  <2>4. ParkedInv'
    BY DEF ParkedInv, Outside, RegistryInv, MonitorInv, Holding, PhaseInv,
         Stopping, Stopped, Ending, Waiting, CollectorLabel
  <2>5. PhaseInv'
    BY DEF PhaseInv, Stopping, Stopped, Ending, Waiting, MonitorInv, Holding
  <2>6. UnparkInv'
    BY DEF UnparkInv
  <2>7. CurInv'
    BY DEF CurInv, Reaping
  <2>8. QueueInv'
    BY DEF QueueInv, RegistryInv, Outside, PhaseInv, Stopping, Stopped, Ending,
         Waiting
  <2>9. DrainInv'
    BY DEF DrainInv
  <2>10. SpawnInv'
    BY DEF SpawnInv, Launcher, Launched
  <2>11. MainInv'
    BY DEF MainInv, Launcher, Launched
  <2>12. JoinInv'
    BY DEF JoinInv, SawItLeave, Joining
  <2> QED
    BY <2>1, <2>2, <2>3, <2>4, <2>5, <2>6, <2>7, <2>8, <2>9, <2>10, <2>11,
         <2>12
<1>4. CASE UnregisterRetry(i)
  <2> USE <1>4 DEF UnregisterRetry, CallSafepoint, Goto, flags, manager
  <2>1. TypeOK'
    BY DEF FlagsType, ManagerType, Label, SafepointLabel, Returns,
         CollectorLabel
  <2>2. RegistryInv'
    BY DEF RegistryInv, Outside
  <2>3. MonitorInv'
    BY DEF MonitorInv, Holding
  <2>4. ParkedInv'
    BY DEF ParkedInv, Outside
  <2>5. PhaseInv'
    BY DEF PhaseInv, Stopping, Stopped, Ending, Waiting
  <2>6. UnparkInv'
    BY DEF UnparkInv
  <2>7. CurInv'
    BY DEF CurInv, Reaping
  <2>8. QueueInv'
    BY DEF QueueInv
  <2>9. DrainInv'
    BY DEF DrainInv, FlagsType, ManagerType
  <2>10. SpawnInv'
    BY DEF SpawnInv, Launcher, Launched, FlagsType, ManagerType, Label,
         SafepointLabel, Returns
  <2>11. MainInv'
    BY DEF MainInv, Launcher, Launched, FlagsType, ManagerType, Label,
         SafepointLabel, Returns
  <2>12. JoinInv'
    BY DEF JoinInv, SawItLeave, Joining, SafepointLabel
  <2> QED
    BY <2>1, <2>2, <2>3, <2>4, <2>5, <2>6, <2>7, <2>8, <2>9, <2>10, <2>11,
         <2>12
<1>5. CASE Exit(i)
  <2> USE <1>5 DEF Exit, Goto, flags, manager
  <2>1. TypeOK'
    BY DEF FlagsType, ManagerType, Label, SafepointLabel, Returns,
         CollectorLabel
  <2>2. RegistryInv'
    BY DEF RegistryInv, Outside
  <2>3. MonitorInv'
    BY DEF MonitorInv, Holding
  <2>4. ParkedInv'
    BY DEF ParkedInv, Outside
  <2>5. PhaseInv'
    BY DEF PhaseInv, Stopping, Stopped, Ending, Waiting
  <2>6. UnparkInv'
    BY DEF UnparkInv
  <2>7. CurInv'
    BY DEF CurInv, Reaping
  <2>8. QueueInv'
    BY DEF QueueInv
  <2>9. DrainInv'
    BY DEF DrainInv, FlagsType, ManagerType
  <2>10. SpawnInv'
    BY DEF SpawnInv, Launcher, Launched, FlagsType, ManagerType, Label,
         SafepointLabel, Returns
  <2>11. MainInv'
    BY DEF MainInv, Launcher, Launched, FlagsType, ManagerType, Label,
         SafepointLabel, Returns
  <2>12. JoinInv'
    BY DEF JoinInv, SawItLeave, Joining, SafepointLabel
  <2> QED
    BY <2>1, <2>2, <2>3, <2>4, <2>5, <2>6, <2>7, <2>8, <2>9, <2>10, <2>11,
         <2>12
<1> QED
  BY <1>1, <1>2, <1>3, <1>4, <1>5

\* So does a step that starts a thread.
LEMMA SpawnStep ==
  ASSUME IInv, NEW i \in Interp, Spawn(i)
  PROVE  IInv'
<1> USE ThreadsAssumption DEF IInv, TypeOK
<1>1. ASSUME NEW c \in Interp, SpawnStart(i, c) PROVE IInv'
  <2> USE <1>1 DEF SpawnStart, Construct, manager
  <2>1. TypeOK'
    BY DEF FlagsType, ManagerType, Label, SafepointLabel, Returns,
         CollectorLabel
  <2>2. RegistryInv'
    BY DEF RegistryInv, Outside
  <2>3. MonitorInv'
    BY DEF MonitorInv, Holding
  <2>4. ParkedInv'
    BY DEF ParkedInv, Outside
  <2>5. PhaseInv'
    BY DEF PhaseInv, Stopping, Stopped, Ending, Waiting, FlagsType,
         ManagerType, ParkedInv, Outside
  <2>6. UnparkInv'
    BY DEF UnparkInv
  <2>7. CurInv'
    BY DEF CurInv, Reaping, FlagsType, ManagerType
  <2>8. QueueInv'
    BY DEF QueueInv, FlagsType, ManagerType
  <2>9. DrainInv'
    BY DEF DrainInv
  <2>10. SpawnInv'
    BY DEF SpawnInv, Launcher, Launched, FlagsType, ManagerType, Label,
         SafepointLabel, Returns
  <2>11. MainInv'
    BY DEF MainInv, Launcher, Launched, FlagsType, ManagerType, Label,
         SafepointLabel, Returns
  <2>12. JoinInv'
    BY DEF JoinInv, SawItLeave, Joining, SafepointLabel
  <2> QED
    BY <2>1, <2>2, <2>3, <2>4, <2>5, <2>6, <2>7, <2>8, <2>9, <2>10, <2>11,
         <2>12
<1>2. CASE SpawnRegister(i)
  <2> USE <1>2 DEF SpawnRegister, RegisterInterpreter, MonitorFree, flags
  <2>1. TypeOK'
    BY DEF FlagsType, ManagerType, Label, SafepointLabel, Returns,
         CollectorLabel, SpawnInv, Launcher, Launched
  <2>2. RegistryInv'
    BY DEF RegistryInv, Outside
  <2>3. MonitorInv'
    BY DEF MonitorInv, Holding
  <2>4. ParkedInv'
    BY DEF ParkedInv, Outside, FlagsType, ManagerType, SpawnInv, Launcher,
         Launched
  <2>5. PhaseInv'
    BY DEF PhaseInv, Stopping, Stopped, Ending, Waiting, FlagsType,
         ManagerType, RegistryInv, Outside, MonitorInv, Holding
  <2>6. UnparkInv'
    BY DEF UnparkInv, FlagsType, ManagerType, SpawnInv, Launcher, Launched
  <2>7. CurInv'
    BY DEF CurInv, Reaping
  <2>8. QueueInv'
    BY DEF QueueInv, FlagsType, ManagerType, SpawnInv, Launcher, Launched
  <2>9. DrainInv'
    BY DEF DrainInv, FlagsType, ManagerType, RegistryInv, Outside, PhaseInv,
         Stopping, Stopped, Ending, Waiting
  <2>10. SpawnInv'
    BY DEF SpawnInv, Launcher, Launched, FlagsType, ManagerType, Label,
         SafepointLabel, Returns
  <2>11. MainInv'
    BY DEF MainInv, Launcher, Launched, FlagsType, ManagerType, Label,
         SafepointLabel, Returns
  <2>12. JoinInv'
    BY DEF JoinInv, SawItLeave, Joining, SafepointLabel, FlagsType,
         ManagerType, SpawnInv, Launcher, Launched
  <2> QED
    BY <2>1, <2>2, <2>3, <2>4, <2>5, <2>6, <2>7, <2>8, <2>9, <2>10, <2>11,
         <2>12
<1>3. CASE SpawnLaunch(i)
  <2> USE <1>3 DEF SpawnLaunch, flags, manager
  <2>1. TypeOK'
    BY DEF FlagsType, ManagerType, Label, SafepointLabel, Returns,
         CollectorLabel, SpawnInv, Launcher, Launched
  <2>2. RegistryInv'
    BY DEF RegistryInv, Outside, FlagsType, ManagerType, SpawnInv, Launcher,
         Launched
  <2>3. MonitorInv'
    BY DEF MonitorInv, Holding, FlagsType, ManagerType, SpawnInv, Launcher,
         Launched
  <2>4. ParkedInv'
    BY DEF ParkedInv, Outside, FlagsType, ManagerType, SpawnInv, Launcher,
         Launched
  <2>5. PhaseInv'
    BY DEF PhaseInv, Stopping, Stopped, Ending, Waiting, FlagsType,
         ManagerType, SpawnInv, Launcher, Launched
  <2>6. UnparkInv'
    BY DEF UnparkInv, FlagsType, ManagerType, SpawnInv, Launcher, Launched
  <2>7. CurInv'
    BY DEF CurInv, Reaping, FlagsType, ManagerType, SpawnInv, Launcher,
         Launched
  <2>8. QueueInv'
    BY DEF QueueInv, FlagsType, ManagerType, SpawnInv, Launcher, Launched
  <2>9. DrainInv'
    BY DEF DrainInv, FlagsType, ManagerType
  <2>10. SpawnInv'
    BY DEF SpawnInv, Launcher, Launched, FlagsType, ManagerType, Label,
         SafepointLabel, Returns
  <2>11. MainInv'
    BY DEF MainInv, Launcher, Launched, FlagsType, ManagerType, Label,
         SafepointLabel, Returns
  <2>12. JoinInv'
    BY DEF JoinInv, SawItLeave, Joining, SafepointLabel, FlagsType,
         ManagerType, SpawnInv, Launcher, Launched
  <2> QED
    BY <2>1, <2>2, <2>3, <2>4, <2>5, <2>6, <2>7, <2>8, <2>9, <2>10, <2>11,
         <2>12
<1>4. CASE SpawnAssign(i)
  <2> USE <1>4 DEF SpawnAssign, Goto, flags, manager
  <2>1. TypeOK'
    BY DEF FlagsType, ManagerType, Label, SafepointLabel, Returns,
         CollectorLabel, SpawnInv, Launcher, Launched
  <2>2. RegistryInv'
    BY DEF RegistryInv, Outside
  <2>3. MonitorInv'
    BY DEF MonitorInv, Holding
  <2>4. ParkedInv'
    BY DEF ParkedInv, Outside
  <2>5. PhaseInv'
    BY DEF PhaseInv, Stopping, Stopped, Ending, Waiting
  <2>6. UnparkInv'
    BY DEF UnparkInv
  <2>7. CurInv'
    BY DEF CurInv, Reaping
  <2>8. QueueInv'
    BY DEF QueueInv
  <2>9. DrainInv'
    BY DEF DrainInv, FlagsType, ManagerType
  <2>10. SpawnInv'
    BY DEF SpawnInv, Launcher, Launched, FlagsType, ManagerType, Label,
         SafepointLabel, Returns
  <2>11. MainInv'
    BY DEF MainInv, Launcher, Launched, FlagsType, ManagerType, Label,
         SafepointLabel, Returns
  <2>12. JoinInv'
    BY DEF JoinInv, SawItLeave, Joining, SafepointLabel, FlagsType,
         ManagerType, SpawnInv, Launcher, Launched
  <2> QED
    BY <2>1, <2>2, <2>3, <2>4, <2>5, <2>6, <2>7, <2>8, <2>9, <2>10, <2>11,
         <2>12
<1>5. CASE SpawnRetry(i)
  \* a stuttering step
  <2>1. UNCHANGED <<flags, manager, workers, joinable, handles, stale, pending, fatal, gpc>>
    BY <1>5 DEF SpawnRetry, vars
  <2> QED
    BY <2>1, StutterStep DEF vars
<1> QED
  BY <1>1, <1>2, <1>3, <1>4, <1>5 DEF Spawn

\* So does a step of a join.
LEMMA JoinStep ==
  ASSUME IInv, NEW i \in Interp, Join(i)
  PROVE  IInv'
<1> USE ThreadsAssumption DEF IInv, TypeOK
<1>1. ASSUME NEW c \in Interp, JoinStart(i, c) PROVE IInv'
  <2> USE <1>1 DEF JoinStart, Goto, IsRegistered, MonitorFree, flags, manager
  <2>1. TypeOK'
    BY DEF FlagsType, ManagerType, Label, SafepointLabel, Returns,
         CollectorLabel
  <2>2. RegistryInv'
    BY DEF RegistryInv, Outside
  <2>3. MonitorInv'
    BY DEF MonitorInv, Holding
  <2>4. ParkedInv'
    BY DEF ParkedInv, Outside
  <2>5. PhaseInv'
    BY DEF PhaseInv, Stopping, Stopped, Ending, Waiting
  <2>6. UnparkInv'
    BY DEF UnparkInv
  <2>7. CurInv'
    BY DEF CurInv, Reaping
  <2>8. QueueInv'
    BY DEF QueueInv
  <2>9. DrainInv'
    BY DEF DrainInv, FlagsType, ManagerType
  <2>10. SpawnInv'
    BY DEF SpawnInv, Launcher, Launched, FlagsType, ManagerType, Label,
         SafepointLabel, Returns
  <2>11. MainInv'
    BY DEF MainInv, Launcher, Launched, FlagsType, ManagerType, Label,
         SafepointLabel, Returns
  <2>12. JoinInv'
    BY DEF JoinInv, SawItLeave, Joining, SafepointLabel, FlagsType,
         ManagerType, RegistryInv, Outside
  <2> QED
    BY <2>1, <2>2, <2>3, <2>4, <2>5, <2>6, <2>7, <2>8, <2>9, <2>10, <2>11,
         <2>12
<1>2. CASE JoinRepoll(i)
  <2> USE <1>2 DEF JoinRepoll, CallSafepoint, IsRegistered, Goto, MonitorFree,
       flags, manager
  <2>1. TypeOK'
    BY DEF FlagsType, ManagerType, Label, SafepointLabel, Returns,
         CollectorLabel
  <2>2. RegistryInv'
    BY DEF RegistryInv, Outside
  <2>3. MonitorInv'
    BY DEF MonitorInv, Holding
  <2>4. ParkedInv'
    BY DEF ParkedInv, Outside
  <2>5. PhaseInv'
    BY DEF PhaseInv, Stopping, Stopped, Ending, Waiting
  <2>6. UnparkInv'
    BY DEF UnparkInv
  <2>7. CurInv'
    BY DEF CurInv, Reaping
  <2>8. QueueInv'
    BY DEF QueueInv
  <2>9. DrainInv'
    BY DEF DrainInv, FlagsType, ManagerType
  <2>10. SpawnInv'
    BY DEF SpawnInv, Launcher, Launched, FlagsType, ManagerType, Label,
         SafepointLabel, Returns
  <2>11. MainInv'
    BY DEF MainInv, Launcher, Launched, FlagsType, ManagerType, Label,
         SafepointLabel, Returns
  <2>12. JoinInv'
    BY DEF JoinInv, SawItLeave, Joining, SafepointLabel, FlagsType,
         ManagerType, RegistryInv, Outside
  <2> QED
    BY <2>1, <2>2, <2>3, <2>4, <2>5, <2>6, <2>7, <2>8, <2>9, <2>10, <2>11,
         <2>12
<1>3. CASE JoinProceed(i)
  <2> USE <1>3 DEF JoinProceed, Goto, flags, manager
  <2>1. TypeOK'
    BY DEF FlagsType, ManagerType, Label, SafepointLabel, Returns,
         CollectorLabel
  <2>2. RegistryInv'
    BY DEF RegistryInv, Outside
  <2>3. MonitorInv'
    BY DEF MonitorInv, Holding
  <2>4. ParkedInv'
    BY DEF ParkedInv, Outside
  <2>5. PhaseInv'
    BY DEF PhaseInv, Stopping, Stopped, Ending, Waiting
  <2>6. UnparkInv'
    BY DEF UnparkInv
  <2>7. CurInv'
    BY DEF CurInv, Reaping
  <2>8. QueueInv'
    BY DEF QueueInv
  <2>9. DrainInv'
    BY DEF DrainInv, FlagsType, ManagerType
  <2>10. SpawnInv'
    BY DEF SpawnInv, Launcher, Launched, FlagsType, ManagerType, Label,
         SafepointLabel, Returns
  <2>11. MainInv'
    BY DEF MainInv, Launcher, Launched, FlagsType, ManagerType, Label,
         SafepointLabel, Returns
  <2>12. JoinInv'
    BY DEF JoinInv, SawItLeave, Joining, SafepointLabel
  <2> QED
    BY <2>1, <2>2, <2>3, <2>4, <2>5, <2>6, <2>7, <2>8, <2>9, <2>10, <2>11,
         <2>12
<1>4. CASE JoinReap(i)
  <2> USE <1>4 DEF JoinReap, Goto, LockToReap, MonitorFree, flags
  <2>1. TypeOK'
    BY DEF FlagsType, ManagerType, Label, SafepointLabel, Returns,
         CollectorLabel
  <2>2. RegistryInv'
    BY DEF RegistryInv, Outside
  <2>3. MonitorInv'
    BY DEF MonitorInv, Holding
  <2>4. ParkedInv'
    BY DEF ParkedInv, Outside
  <2>5. PhaseInv'
    BY DEF PhaseInv, Stopping, Stopped, Ending, Waiting
  <2>6. UnparkInv'
    BY DEF UnparkInv
  <2>7. CurInv'
    BY DEF CurInv, Reaping, FlagsType, ManagerType, MonitorInv, Holding
  <2>8. QueueInv'
    BY DEF QueueInv
  <2>9. DrainInv'
    BY DEF DrainInv, FlagsType, ManagerType
  <2>10. SpawnInv'
    BY DEF SpawnInv, Launcher, Launched, FlagsType, ManagerType, Label,
         SafepointLabel, Returns
  <2>11. MainInv'
    BY DEF MainInv, Launcher, Launched, FlagsType, ManagerType, Label,
         SafepointLabel, Returns
  <2>12. JoinInv'
    BY DEF JoinInv, SawItLeave, Joining, SafepointLabel
  <2> QED
    BY <2>1, <2>2, <2>3, <2>4, <2>5, <2>6, <2>7, <2>8, <2>9, <2>10, <2>11,
         <2>12
<1>5. CASE JoinReapRetry(i)
  <2> USE <1>5 DEF JoinReapRetry, CallSafepoint, Goto, flags, manager
  <2>1. TypeOK'
    BY DEF FlagsType, ManagerType, Label, SafepointLabel, Returns,
         CollectorLabel
  <2>2. RegistryInv'
    BY DEF RegistryInv, Outside
  <2>3. MonitorInv'
    BY DEF MonitorInv, Holding
  <2>4. ParkedInv'
    BY DEF ParkedInv, Outside
  <2>5. PhaseInv'
    BY DEF PhaseInv, Stopping, Stopped, Ending, Waiting
  <2>6. UnparkInv'
    BY DEF UnparkInv
  <2>7. CurInv'
    BY DEF CurInv, Reaping
  <2>8. QueueInv'
    BY DEF QueueInv
  <2>9. DrainInv'
    BY DEF DrainInv, FlagsType, ManagerType
  <2>10. SpawnInv'
    BY DEF SpawnInv, Launcher, Launched, FlagsType, ManagerType, Label,
         SafepointLabel, Returns
  <2>11. MainInv'
    BY DEF MainInv, Launcher, Launched, FlagsType, ManagerType, Label,
         SafepointLabel, Returns
  <2>12. JoinInv'
    BY DEF JoinInv, SawItLeave, Joining, SafepointLabel
  <2> QED
    BY <2>1, <2>2, <2>3, <2>4, <2>5, <2>6, <2>7, <2>8, <2>9, <2>10, <2>11,
         <2>12
<1>6. CASE JoinDone(i)
  <2> USE <1>6 DEF JoinDone, CallSafepoint, Unlock, Goto, flags
  <2>1. TypeOK'
    BY DEF FlagsType, ManagerType, Label, SafepointLabel, Returns,
         CollectorLabel
  <2>2. RegistryInv'
    BY DEF RegistryInv, Outside
  <2>3. MonitorInv'
    BY DEF MonitorInv, Holding
  <2>4. ParkedInv'
    BY DEF ParkedInv, Outside
  <2>5. PhaseInv'
    BY DEF PhaseInv, Stopping, Stopped, Ending, Waiting
  <2>6. UnparkInv'
    BY DEF UnparkInv
  <2>7. CurInv'
    BY DEF CurInv, Reaping
  <2>8. QueueInv'
    BY DEF QueueInv
  <2>9. DrainInv'
    BY DEF DrainInv, FlagsType, ManagerType
  <2>10. SpawnInv'
    BY DEF SpawnInv, Launcher, Launched, FlagsType, ManagerType, Label,
         SafepointLabel, Returns
  <2>11. MainInv'
    BY DEF MainInv, Launcher, Launched, FlagsType, ManagerType, Label,
         SafepointLabel, Returns
  <2>12. JoinInv'
    BY DEF JoinInv, SawItLeave, Joining, SafepointLabel
  <2> QED
    BY <2>1, <2>2, <2>3, <2>4, <2>5, <2>6, <2>7, <2>8, <2>9, <2>10, <2>11,
         <2>12
<1> QED
  BY <1>1, <1>2, <1>3, <1>4, <1>5, <1>6 DEF Join

\* So does a step of finish_waiting.
LEMMA ReapStep ==
  ASSUME IInv, Reap
  PROVE  IInv'
<1> USE ThreadsAssumption DEF IInv, TypeOK
<1>1. CASE ReapPop
  <2> USE <1>1 DEF ReapPop, PopJoinQueue, Reaping, flags, workers
  <2>1. TypeOK'
    BY DEF FlagsType, ManagerType, Label, SafepointLabel, Returns,
         CollectorLabel
  <2>2. PhaseInv'
    BY DEF PhaseInv, Stopping, Stopped, Ending, Waiting, FlagsType, ManagerType
  <2>3. UnparkInv'
    BY DEF UnparkInv
  <2>4. CurInv'
    BY DEF CurInv, FlagsType, ManagerType, QueueInv
  <2>5. QueueInv'
    BY DEF QueueInv
  <2>6. RegistryInv' /\ MonitorInv' /\ ParkedInv' /\ DrainInv' /\ SpawnInv' /\
        MainInv' /\ JoinInv'
    BY DEF RegistryInv, MonitorInv, ParkedInv, DrainInv, SpawnInv, Launcher,
         MainInv, JoinInv, SawItLeave, Joining
  <2> QED
    BY <2>1, <2>2, <2>3, <2>4, <2>5, <2>6
<1>2. CASE ReapJoin
  <2> USE <1>2 DEF ReapJoin, Reaping, flags
  <2>1. TypeOK'
    BY DEF FlagsType, ManagerType, Label, SafepointLabel, Returns,
         CollectorLabel
  <2>2. RegistryInv'
    BY DEF RegistryInv, Outside
  <2>3. MonitorInv'
    BY DEF MonitorInv, Holding
  <2>4. ParkedInv'
    BY DEF ParkedInv, Outside
  <2>5. PhaseInv'
    BY DEF PhaseInv, Stopping, Stopped, Ending, Waiting, FlagsType,
         ManagerType, MonitorInv, Holding
  <2>6. UnparkInv'
    BY DEF UnparkInv
  <2>7. CurInv'
    BY DEF CurInv
  <2>8. QueueInv'
    BY DEF QueueInv, FlagsType, ManagerType, CurInv
  <2>9. DrainInv'
    BY DEF DrainInv, FlagsType, ManagerType
  <2>10. SpawnInv'
    BY DEF SpawnInv, Launcher, Launched
  <2>11. MainInv'
    BY DEF MainInv, Launcher, Launched
  <2>12. JoinInv'
    BY DEF JoinInv, SawItLeave, Joining, SafepointLabel
  <2> QED
    BY <2>1, <2>2, <2>3, <2>4, <2>5, <2>6, <2>7, <2>8, <2>9, <2>10, <2>11,
         <2>12
<1>3. CASE ReapThrow
  <2> USE <1>3 DEF ReapThrow, Reaping, flags, manager, workers
  <2>1. TypeOK'
    BY DEF FlagsType, ManagerType, Label, SafepointLabel, Returns,
         CollectorLabel
  <2>2. RegistryInv' /\ MonitorInv' /\ ParkedInv' /\ PhaseInv' /\ UnparkInv' /\
        CurInv' /\ QueueInv' /\ DrainInv' /\ SpawnInv' /\ MainInv' /\ JoinInv'
    BY DEF RegistryInv, MonitorInv, ParkedInv, PhaseInv, UnparkInv, CurInv,
         QueueInv, DrainInv, SpawnInv, Launcher, MainInv, JoinInv, SawItLeave,
         Joining
  <2> QED
    BY <2>1, <2>2
<1> QED
  BY <1>1, <1>2, <1>3 DEF Reap

\* So does a step of the collector that stops the world or drains queues.
LEMMA StopStep ==
  ASSUME IInv,
         GcLaunch \/ GcAssign \/ GcParkLock \/ (\E i \in Interp :
           GcParkSet(i)) \/ GcParkAsked \/ (\E i \in Interp :
           GcParkWait(i)) \/ GcParked \/ GcCheck \/ GcSnapshot \/ (\E i
           \in Interp : GcDrain(i)) \/ GcDrained
  PROVE  IInv'
<1> USE ThreadsAssumption DEF IInv, TypeOK
<1>1. CASE GcLaunch
  <2> USE <1>1 DEF GcLaunch, Goto, GcGoto, flags, manager
  <2>1. TypeOK'
    BY DEF FlagsType, ManagerType, Label, SafepointLabel, Returns,
         CollectorLabel
  <2>2. RegistryInv'
    BY DEF RegistryInv, Outside
  <2>3. MonitorInv'
    BY DEF MonitorInv, Holding
  <2>4. ParkedInv'
    BY DEF ParkedInv, Outside
  <2>5. PhaseInv'
    BY DEF PhaseInv, Stopping, Stopped, Ending, Waiting
  <2>6. UnparkInv'
    BY DEF UnparkInv
  <2>7. CurInv'
    BY DEF CurInv, Reaping
  <2>8. QueueInv'
    BY DEF QueueInv
  <2>9. DrainInv'
    BY DEF DrainInv
  <2>10. SpawnInv'
    BY DEF SpawnInv, Launcher, Launched, FlagsType, ManagerType, MainInv
  <2>11. MainInv'
    BY DEF MainInv, Launcher, Launched, FlagsType, ManagerType, Label,
         SafepointLabel, Returns
  <2>12. JoinInv'
    BY DEF JoinInv, SawItLeave, Joining, SafepointLabel
  <2> QED
    BY <2>1, <2>2, <2>3, <2>4, <2>5, <2>6, <2>7, <2>8, <2>9, <2>10, <2>11,
         <2>12
<1>2. CASE GcAssign
  <2> USE <1>2 DEF GcAssign, GcGoto, flags, manager, workers
  <2>1. TypeOK'
    BY DEF FlagsType, ManagerType, Label, SafepointLabel, Returns,
         CollectorLabel
  <2>2. MonitorInv'
    BY DEF MonitorInv, Holding
  <2>3. PhaseInv'
    BY DEF PhaseInv, Stopping, Stopped, Ending, Waiting
  <2>4. UnparkInv'
    BY DEF UnparkInv
  <2>5. CurInv'
    BY DEF CurInv, Reaping
  <2>6. QueueInv'
    BY DEF QueueInv, FlagsType, ManagerType
  <2>7. DrainInv'
    BY DEF DrainInv
  <2>8. SpawnInv'
    BY DEF SpawnInv, Launcher, Launched, FlagsType, ManagerType, MainInv
  <2>9. MainInv'
    BY DEF MainInv, Launcher, Launched
  <2>10. RegistryInv' /\ ParkedInv' /\ JoinInv'
    BY DEF RegistryInv, ParkedInv, JoinInv, SawItLeave, Joining
  <2> QED
    BY <2>1, <2>2, <2>3, <2>4, <2>5, <2>6, <2>7, <2>8, <2>9, <2>10
<1>3. CASE GcParkLock
  <2> USE <1>3 DEF GcParkLock, GcGoto, LockAndIterate, MonitorFree, flags,
       workers
  <2>1. TypeOK'
    BY DEF FlagsType, ManagerType, Label, SafepointLabel, Returns,
         CollectorLabel
  <2>2. MonitorInv'
    BY DEF MonitorInv, Holding
  <2>3. PhaseInv'
    BY DEF PhaseInv, Stopping, Stopped, Ending, Waiting, FlagsType, ManagerType
  <2>4. UnparkInv'
    BY DEF UnparkInv
  <2>5. CurInv'
    BY DEF CurInv, Reaping
  <2>6. QueueInv'
    BY DEF QueueInv, FlagsType, ManagerType
  <2>7. DrainInv'
    BY DEF DrainInv
  <2>8. MainInv'
    BY DEF MainInv, Launcher, Launched
  <2>9. RegistryInv' /\ ParkedInv' /\ SpawnInv' /\ JoinInv'
    BY DEF RegistryInv, ParkedInv, SpawnInv, Launcher, JoinInv, SawItLeave,
         Joining
  <2> QED
    BY <2>1, <2>2, <2>3, <2>4, <2>5, <2>6, <2>7, <2>8, <2>9
<1>4. ASSUME NEW i \in Interp, GcParkSet(i) PROVE IInv'
  <2> USE <1>4 DEF GcParkSet, Park, workers
  <2>1. TypeOK'
    BY DEF FlagsType, ManagerType, Label, SafepointLabel, Returns,
         CollectorLabel
  <2>2. ParkedInv'
    BY DEF ParkedInv, Outside, FlagsType, ManagerType, RegistryInv, PhaseInv,
         Stopping, Stopped, Ending, Waiting
  <2>3. PhaseInv'
    BY DEF PhaseInv, Stopping, Stopped, Ending, Waiting, FlagsType, ManagerType
  <2>4. DrainInv'
    BY DEF DrainInv
  <2>5. RegistryInv' /\ MonitorInv' /\ UnparkInv' /\ CurInv' /\ QueueInv' /\
        SpawnInv' /\ MainInv' /\ JoinInv'
    BY DEF RegistryInv, MonitorInv, UnparkInv, CurInv, Reaping, QueueInv,
         SpawnInv, Launcher, MainInv, JoinInv, SawItLeave, Joining
  <2> QED
    BY <2>1, <2>2, <2>3, <2>4, <2>5
<1>5. CASE GcParkAsked
  <2> USE <1>5 DEF GcParkAsked, GcGoto, flags, workers
  <2>1. TypeOK'
    BY DEF FlagsType, ManagerType, Label, SafepointLabel, Returns,
         CollectorLabel
  <2>2. MonitorInv'
    BY DEF MonitorInv, Holding
  <2>3. PhaseInv'
    BY DEF PhaseInv, Stopping, Stopped, Ending, Waiting
  <2>4. UnparkInv'
    BY DEF UnparkInv
  <2>5. CurInv'
    BY DEF CurInv, Reaping
  <2>6. QueueInv'
    BY DEF QueueInv, FlagsType, ManagerType
  <2>7. DrainInv'
    BY DEF DrainInv
  <2>8. MainInv'
    BY DEF MainInv, Launcher, Launched
  <2>9. RegistryInv' /\ ParkedInv' /\ SpawnInv' /\ JoinInv'
    BY DEF RegistryInv, ParkedInv, SpawnInv, Launcher, JoinInv, SawItLeave,
         Joining
  <2> QED
    BY <2>1, <2>2, <2>3, <2>4, <2>5, <2>6, <2>7, <2>8, <2>9
<1>6. ASSUME NEW i \in Interp, GcParkWait(i) PROVE IInv'
  <2> USE <1>6 DEF GcParkWait, flags, workers
  <2>1. TypeOK'
    BY DEF FlagsType, ManagerType, Label, SafepointLabel, Returns,
         CollectorLabel
  <2>2. PhaseInv'
    BY DEF PhaseInv, Stopping, Stopped, Ending, Waiting, FlagsType,
         ManagerType, ParkedInv, Outside
  <2>3. DrainInv'
    BY DEF DrainInv
  <2>4. RegistryInv' /\ MonitorInv' /\ ParkedInv' /\ UnparkInv' /\ CurInv' /\
        QueueInv' /\ SpawnInv' /\ MainInv' /\ JoinInv'
    BY DEF RegistryInv, MonitorInv, ParkedInv, UnparkInv, CurInv, Reaping,
         QueueInv, SpawnInv, Launcher, MainInv, JoinInv, SawItLeave, Joining
  <2> QED
    BY <2>1, <2>2, <2>3, <2>4
<1>7. CASE GcParked
  <2> USE <1>7 DEF GcParked, GcGoto, Unlock, flags, workers
  <2>1. TypeOK'
    BY DEF FlagsType, ManagerType, Label, SafepointLabel, Returns,
         CollectorLabel
  <2>2. MonitorInv'
    BY DEF MonitorInv, Holding
  <2>3. PhaseInv'
    BY DEF PhaseInv, Stopping, Stopped, Ending, Waiting
  <2>4. UnparkInv'
    BY DEF UnparkInv
  <2>5. CurInv'
    BY DEF CurInv, Reaping
  <2>6. QueueInv'
    BY DEF QueueInv, FlagsType, ManagerType
  <2>7. DrainInv'
    BY DEF DrainInv
  <2>8. MainInv'
    BY DEF MainInv, Launcher, Launched
  <2>9. RegistryInv' /\ ParkedInv' /\ SpawnInv' /\ JoinInv'
    BY DEF RegistryInv, ParkedInv, SpawnInv, Launcher, JoinInv, SawItLeave,
         Joining
  <2> QED
    BY <2>1, <2>2, <2>3, <2>4, <2>5, <2>6, <2>7, <2>8, <2>9
<1>8. CASE GcCheck
  <2> USE <1>8 DEF GcCheck, GcGoto, IsAllParked, MonitorFree, flags, manager,
       workers
  <2>1. TypeOK'
    BY DEF FlagsType, ManagerType, Label, SafepointLabel, Returns,
         CollectorLabel
  <2>2. MonitorInv'
    BY DEF MonitorInv, Holding
  <2>3. PhaseInv'
    BY DEF PhaseInv, Stopping, Stopped, Ending, Waiting
  <2>4. UnparkInv'
    BY DEF UnparkInv
  <2>5. CurInv'
    BY DEF CurInv, Reaping
  <2>6. QueueInv'
    BY DEF QueueInv, FlagsType, ManagerType
  <2>7. DrainInv'
    BY DEF DrainInv
  <2>8. MainInv'
    BY DEF MainInv, Launcher, Launched
  <2>9. RegistryInv' /\ ParkedInv' /\ SpawnInv' /\ JoinInv'
    BY DEF RegistryInv, ParkedInv, SpawnInv, Launcher, JoinInv, SawItLeave,
         Joining
  <2> QED
    BY <2>1, <2>2, <2>3, <2>4, <2>5, <2>6, <2>7, <2>8, <2>9
<1>9. CASE GcSnapshot
  <2> USE <1>9 DEF GcSnapshot, GcGoto, MonitorFree, flags, workers
  <2>1. TypeOK'
    BY DEF FlagsType, ManagerType, Label, SafepointLabel, Returns,
         CollectorLabel
  <2>2. MonitorInv'
    BY DEF MonitorInv, Holding
  <2>3. PhaseInv'
    BY DEF PhaseInv, Stopping, Stopped, Ending, Waiting, FlagsType,
         ManagerType, RegistryInv, Outside, ParkedInv
  <2>4. UnparkInv'
    BY DEF UnparkInv
  <2>5. CurInv'
    BY DEF CurInv, Reaping
  <2>6. QueueInv'
    BY DEF QueueInv, FlagsType, ManagerType
  <2>7. DrainInv'
    BY DEF DrainInv
  <2>8. MainInv'
    BY DEF MainInv, Launcher, Launched
  <2>9. RegistryInv' /\ ParkedInv' /\ SpawnInv' /\ JoinInv'
    BY DEF RegistryInv, ParkedInv, SpawnInv, Launcher, JoinInv, SawItLeave,
         Joining
  <2> QED
    BY <2>1, <2>2, <2>3, <2>4, <2>5, <2>6, <2>7, <2>8, <2>9
<1>10. ASSUME NEW i \in Interp, GcDrain(i) PROVE IInv'
  <2> USE <1>10 DEF GcDrain, flags, workers
  <2>1. TypeOK'
    BY DEF FlagsType, ManagerType, Label, SafepointLabel, Returns,
         CollectorLabel
  <2>2. PhaseInv'
    BY DEF PhaseInv, Stopping, Stopped, Ending, Waiting
  <2>3. DrainInv'
    BY DEF DrainInv
  <2>4. RegistryInv' /\ MonitorInv' /\ ParkedInv' /\ UnparkInv' /\ CurInv' /\
        QueueInv' /\ SpawnInv' /\ MainInv' /\ JoinInv'
    BY DEF RegistryInv, MonitorInv, ParkedInv, UnparkInv, CurInv, Reaping,
         QueueInv, SpawnInv, Launcher, MainInv, JoinInv, SawItLeave, Joining
  <2> QED
    BY <2>1, <2>2, <2>3, <2>4
<1>11. CASE GcDrained
  <2> USE <1>11 DEF GcDrained, GcGoto, flags, manager, workers
  <2>1. TypeOK'
    BY DEF FlagsType, ManagerType, Label, SafepointLabel, Returns,
         CollectorLabel
  <2>2. MonitorInv'
    BY DEF MonitorInv, Holding
  <2>3. PhaseInv'
    BY DEF PhaseInv, Stopping, Stopped, Ending, Waiting
  <2>4. UnparkInv'
    BY DEF UnparkInv
  <2>5. CurInv'
    BY DEF CurInv, Reaping
  <2>6. QueueInv'
    BY DEF QueueInv, FlagsType, ManagerType
  <2>7. DrainInv'
    BY DEF DrainInv
  <2>8. MainInv'
    BY DEF MainInv, Launcher, Launched
  <2>9. RegistryInv' /\ ParkedInv' /\ SpawnInv' /\ JoinInv'
    BY DEF RegistryInv, ParkedInv, SpawnInv, Launcher, JoinInv, SawItLeave,
         Joining
  <2> QED
    BY <2>1, <2>2, <2>3, <2>4, <2>5, <2>6, <2>7, <2>8, <2>9
<1> QED
  BY <1>1, <1>2, <1>3, <1>4, <1>5, <1>6, <1>7, <1>8, <1>9, <1>10, <1>11

\* So does a step of the collector that resumes the world or ends.
LEMMA ResumeStep ==
  ASSUME IInv,
         GcRunLock \/ (\E i \in Interp : GcRunSet(i)) \/ GcRunWait \/
           GcRunDone \/ GcReap \/ GcDone
  PROVE  IInv'
<1> USE ThreadsAssumption DEF IInv, TypeOK
<1>1. CASE GcRunLock
  <2> USE <1>1 DEF GcRunLock, GcGoto, LockAndIterate, MonitorFree, flags,
       workers
  <2>1. TypeOK'
    BY DEF FlagsType, ManagerType, Label, SafepointLabel, Returns,
         CollectorLabel
  <2>2. MonitorInv'
    BY DEF MonitorInv, Holding
  <2>3. PhaseInv'
    BY DEF PhaseInv, Stopping, Stopped, Ending, Waiting, FlagsType,
         ManagerType, RegistryInv, Outside, ParkedInv
  <2>4. UnparkInv'
    BY DEF UnparkInv
  <2>5. CurInv'
    BY DEF CurInv, Reaping
  <2>6. QueueInv'
    BY DEF QueueInv, FlagsType, ManagerType
  <2>7. DrainInv'
    BY DEF DrainInv
  <2>8. MainInv'
    BY DEF MainInv, Launcher, Launched
  <2>9. RegistryInv' /\ ParkedInv' /\ SpawnInv' /\ JoinInv'
    BY DEF RegistryInv, ParkedInv, SpawnInv, Launcher, JoinInv, SawItLeave,
         Joining
  <2> QED
    BY <2>1, <2>2, <2>3, <2>4, <2>5, <2>6, <2>7, <2>8, <2>9
<1>2. ASSUME NEW i \in Interp, GcRunSet(i) PROVE IInv'
  <2> USE <1>2 DEF GcRunSet, GcGoto, Run, workers
  <2>1. TypeOK'
    BY DEF FlagsType, ManagerType, Label, SafepointLabel, Returns,
         CollectorLabel
  <2>2. MonitorInv'
    BY DEF MonitorInv, Holding
  <2>3. PhaseInv'
    BY DEF PhaseInv, Stopping, Stopped, Ending, Waiting, FlagsType,
         ManagerType, MonitorInv, Holding, ParkedInv, Outside, CurInv, Reaping
  <2>4. UnparkInv'
    BY DEF UnparkInv, FlagsType, ManagerType, MonitorInv, Holding, PhaseInv,
         Stopping, Stopped, Ending, Waiting, CurInv, Reaping
  <2>5. CurInv'
    BY DEF CurInv, Reaping, FlagsType, ManagerType, MonitorInv, Holding
  <2>6. QueueInv'
    BY DEF QueueInv, FlagsType, ManagerType, MonitorInv, Holding, CurInv,
         Reaping
  <2>7. DrainInv'
    BY DEF DrainInv
  <2>8. MainInv'
    BY DEF MainInv, Launcher, Launched
  <2>9. RegistryInv' /\ ParkedInv' /\ SpawnInv' /\ JoinInv'
    BY DEF RegistryInv, ParkedInv, SpawnInv, Launcher, JoinInv, SawItLeave,
         Joining
  <2> QED
    BY <2>1, <2>2, <2>3, <2>4, <2>5, <2>6, <2>7, <2>8, <2>9
<1>3. CASE GcRunWait
  <2> USE <1>3 DEF GcRunWait, GcGoto, flags, workers
  <2>1. TypeOK'
    BY DEF FlagsType, ManagerType, Label, SafepointLabel, Returns,
         CollectorLabel
  <2>2. MonitorInv'
    BY DEF MonitorInv, Holding
  <2>3. PhaseInv'
    BY DEF PhaseInv, Stopping, Stopped, Ending, Waiting, FlagsType,
         ManagerType, ParkedInv, Outside
  <2>4. UnparkInv'
    BY DEF UnparkInv, FlagsType, ManagerType, ParkedInv, Outside
  <2>5. CurInv'
    BY DEF CurInv, Reaping
  <2>6. QueueInv'
    BY DEF QueueInv, FlagsType, ManagerType, RegistryInv, Outside, PhaseInv,
         Stopping, Stopped, Ending, Waiting
  <2>7. DrainInv'
    BY DEF DrainInv
  <2>8. MainInv'
    BY DEF MainInv, Launcher, Launched
  <2>9. RegistryInv' /\ ParkedInv' /\ SpawnInv' /\ JoinInv'
    BY DEF RegistryInv, ParkedInv, SpawnInv, Launcher, JoinInv, SawItLeave,
         Joining
  <2> QED
    BY <2>1, <2>2, <2>3, <2>4, <2>5, <2>6, <2>7, <2>8, <2>9
<1>4. CASE GcRunDone
  <2> USE <1>4 DEF GcRunDone, GcGoto, Unlock, flags, workers
  <2>1. TypeOK'
    BY DEF FlagsType, ManagerType, Label, SafepointLabel, Returns,
         CollectorLabel
  <2>2. MonitorInv'
    BY DEF MonitorInv, Holding
  <2>3. PhaseInv'
    BY DEF PhaseInv, Stopping, Stopped, Ending, Waiting
  <2>4. UnparkInv'
    BY DEF UnparkInv
  <2>5. CurInv'
    BY DEF CurInv, Reaping
  <2>6. QueueInv'
    BY DEF QueueInv, FlagsType, ManagerType
  <2>7. DrainInv'
    BY DEF DrainInv
  <2>8. MainInv'
    BY DEF MainInv, Launcher, Launched
  <2>9. RegistryInv' /\ ParkedInv' /\ SpawnInv' /\ JoinInv'
    BY DEF RegistryInv, ParkedInv, SpawnInv, Launcher, JoinInv, SawItLeave,
         Joining
  <2> QED
    BY <2>1, <2>2, <2>3, <2>4, <2>5, <2>6, <2>7, <2>8, <2>9
<1>5. CASE GcReap
  <2> USE <1>5 DEF GcReap, GcGoto, LockToReap, MonitorFree, flags, workers
  <2>1. TypeOK'
    BY DEF FlagsType, ManagerType, Label, SafepointLabel, Returns,
         CollectorLabel
  <2>2. MonitorInv'
    BY DEF MonitorInv, Holding
  <2>3. PhaseInv'
    BY DEF PhaseInv, Stopping, Stopped, Ending, Waiting
  <2>4. UnparkInv'
    BY DEF UnparkInv
  <2>5. CurInv'
    BY DEF CurInv, Reaping
  <2>6. QueueInv'
    BY DEF QueueInv, FlagsType, ManagerType
  <2>7. DrainInv'
    BY DEF DrainInv
  <2>8. MainInv'
    BY DEF MainInv, Launcher, Launched
  <2>9. RegistryInv' /\ ParkedInv' /\ SpawnInv' /\ JoinInv'
    BY DEF RegistryInv, ParkedInv, SpawnInv, Launcher, JoinInv, SawItLeave,
         Joining
  <2> QED
    BY <2>1, <2>2, <2>3, <2>4, <2>5, <2>6, <2>7, <2>8, <2>9
<1>6. CASE GcDone
  <2> USE <1>6 DEF GcDone, GcGoto, Unlock, flags, workers
  <2>1. TypeOK'
    BY DEF FlagsType, ManagerType, Label, SafepointLabel, Returns,
         CollectorLabel
  <2>2. MonitorInv'
    BY DEF MonitorInv, Holding
  <2>3. PhaseInv'
    BY DEF PhaseInv, Stopping, Stopped, Ending, Waiting
  <2>4. UnparkInv'
    BY DEF UnparkInv
  <2>5. CurInv'
    BY DEF CurInv, Reaping
  <2>6. QueueInv'
    BY DEF QueueInv, FlagsType, ManagerType
  <2>7. DrainInv'
    BY DEF DrainInv
  <2>8. MainInv'
    BY DEF MainInv, Launcher, Launched
  <2>9. RegistryInv' /\ ParkedInv' /\ SpawnInv' /\ JoinInv'
    BY DEF RegistryInv, ParkedInv, SpawnInv, Launcher, JoinInv, SawItLeave,
         Joining
  <2> QED
    BY <2>1, <2>2, <2>3, <2>4, <2>5, <2>6, <2>7, <2>8, <2>9
<1> QED
  BY <1>1, <1>2, <1>3, <1>4, <1>5, <1>6

\* Every step does.
LEMMA NextInv == IInv /\ [Next]_vars => IInv'
<1> SUFFICES ASSUME IInv, Next PROVE IInv'
  BY StutterStep
<1>1. ASSUME NEW i \in Interp, Worker(i) PROVE IInv'
  BY <1>1, SafepointStep, StatementStep, SpawnStep, JoinStep DEF Worker
<1>2. CASE Reap
  BY <1>2, ReapStep
<1>3. CASE Collect
  BY <1>3, StopStep, ResumeStep DEF Collect
<1>4. CASE Over
  BY <1>4, StutterStep DEF Over
<1> QED
  BY <1>1, <1>2, <1>3, <1>4 DEF Next

(***************************************************************************)
(* The invariant holds in every reachable state: registry, mutex, flags,   *)
(* collector phase and join queue agree (src/thread_manager.cpp,           *)
(* src/gc.cpp, src/interpreter.cpp).                                       *)
(***************************************************************************)
THEOREM Invariance == Safety => []IInv
<1> QED
  BY InitInv, NextInv, PTL DEF Safety

\* Type correctness of the variables that stand for the flags, the registry
\* and the program counters.
THEOREM TypeCorrect == Safety => []TypeOK
<1>1. IInv => TypeOK
  BY DEF IInv
<1> QED
  BY <1>1, Invariance, PTL

-----------------------------------------------------------------------------
(* Safety.                                                                 *)

(***************************************************************************)
(* While the collector works without a lock (gc.cpp:113-153) every         *)
(* registered interpreter waits in its safepoint with no permission to go. *)
(***************************************************************************)
THEOREM WorldStandsStill == Safety => []WorldStands
<1>1. IInv => WorldStands
  <2> SUFFICES ASSUME IInv, gpc \in Stopped, NEW i \in Interp,
                      pc[i] \notin {"free", "exiting", "exited"}
               PROVE  pc[i] \in Waiting /\ parked[i] /\ ~need_unpark[i]
    BY DEF WorldStands
  <2>1. pc[i] # "ctor"
    \* its constructor would run in a thread that is registered and waits
    BY DEF IInv, SpawnInv, RegistryInv, PhaseInv, Outside, Waiting
  <2>2. pc[i] \in Waiting
    BY <2>1 DEF IInv, RegistryInv, PhaseInv, Outside
  <2> QED
    BY <2>1, <2>2 DEF IInv, ParkedInv, UnparkInv, Waiting, Stopped
<1> QED
  BY <1>1, Invariance, PTL

(***************************************************************************)
(* The copy of the registry that collect walks over (gc.cpp:113-146) is    *)
(* the registry: nobody joins it, leaves it or is deleted meanwhile.       *)
(***************************************************************************)
THEOREM SnapshotStaysCurrent == Safety => []SnapshotIsCurrent
<1>1. IInv => SnapshotIsCurrent
  BY DEF IInv, PhaseInv, DrainInv, SnapshotIsCurrent
<1> QED
  BY <1>1, Invariance, PTL

(***************************************************************************)
(* No permission to run is left over from an earlier run_all               *)
(* (interpreter.cpp:27-37, thread_manager.cpp:68-77).                      *)
(***************************************************************************)
THEOREM UnparkIsFresh == Safety => []NoStaleUnpark
<1>1. IInv => NoStaleUnpark
  BY DEF IInv, UnparkInv, NoStaleUnpark
<1> QED
  BY <1>1, Invariance, PTL

(***************************************************************************)
(* No request to park outlives the park_all that made it                   *)
(* (thread_manager.cpp:41-52).                                             *)
(***************************************************************************)
THEOREM ParkIsFresh == Safety => []NoStalePark
<1>1. IInv => NoStalePark
  BY ThreadsAssumption DEF IInv, TypeOK, CollectorLabel, ParkedInv, RegistryInv,
         MonitorInv, PhaseInv, CurInv, Reaping, Outside, Holding, Waiting,
         Stopped, Ending, NoStalePark
<1> QED
  BY <1>1, Invariance, PTL

(***************************************************************************)
(* An interpreter is not deleted before its launcher has assigned worker_  *)
(* (interpreter.cpp:962-964, thread_manager.cpp:80-91).                    *)
(***************************************************************************)
THEOREM LaunchIsSafe == Safety => []LaunchedIsAlive
<1>1. IInv => LaunchedIsAlive
  BY DEF IInv, SpawnInv, MainInv, Launched, LaunchedIsAlive
<1> QED
  BY <1>1, Invariance, PTL

(***************************************************************************)
(* When collect returns, all worker threads have been joined and all       *)
(* interpreters deleted (gc.cpp:123-128).                                  *)
(***************************************************************************)
THEOREM CollectJoins == Safety => []CollectJoinsAll
<1>1. IInv => CollectJoinsAll
  <2> SUFFICES ASSUME IInv, gpc = "done", NEW i \in Interp
               PROVE  pc[i] = "free"
    BY DEF CollectJoinsAll
  <2>1. \A j \in Interp : pc[j] \in Outside
    BY DEF IInv, RegistryInv, PhaseInv, Ending
  <2>2. pc[i] # "ctor"
    BY <2>1 DEF IInv, SpawnInv, Outside
  <2>3. join_queue = {} /\ cur = NoThread
    BY <2>1 DEF IInv, CurInv, QueueInv, Reaping, Outside
  <2> QED
    BY <2>1, <2>2, <2>3, ThreadsAssumption DEF IInv, QueueInv, Outside
<1> QED
  BY <1>1, Invariance, PTL

(***************************************************************************)
(* A join statement does not come back before the worker it names is       *)
(* joined, if addresses are not reused (interpreter.cpp:574-588).          *)
(***************************************************************************)
THEOREM JoinIsAJoin == Safety => []JoinWaitsForThread
<1>1. IInv => JoinWaitsForThread
  <2> SUFFICES ASSUME IInv, ~Reuse, NEW i \in Interp, pc[i] = "reaping"
               PROVE  \/ peer[i] \in join_queue \cup {cur}
                      \/ pc[peer[i]] = "free"
    BY DEF JoinWaitsForThread
  <2>1. peer[i] \in Interp
    BY DEF IInv, TypeOK, JoinInv, Joining
  <2>2. pc[peer[i]] \in {"free", "exiting", "exited"}
    BY DEF IInv, JoinInv, SawItLeave
  <2> QED
    BY <2>1, <2>2 DEF IInv, QueueInv
<1> QED
  BY <1>1, Invariance, PTL

-----------------------------------------------------------------------------
(* Why the process is terminated only during a launch: the part of the     *)
(* invariant about worker_, on top of IInv.                                *)

AssignInv == WorkerAssigned /\ TerminateOnlyAtLaunch

\* A step of a started thread that has nothing to assign, about itself only.
LEMMA OwnStepAssigns ==
  ASSUME WorkerAssigned, UNCHANGED <<joinable, gpc>>,
         NEW i \in Interp, pc[i] \in Launched, pc[i] # "spawn_assign",
         \A j \in Interp \ {i} : pc'[j] = pc[j] /\ peer'[j] = peer[j]
  PROVE  WorkerAssigned'
BY DEF WorkerAssigned, BeingAssigned

\* handle_safepoint, statements and joins are such steps.
LEMMA WorkerStepAssigns ==
  ASSUME IInv, WorkerAssigned, NEW i \in Interp,
         Safepoint(i) \/ Execute(i) \/ Finish(i) \/ Unregister(i)
           \/ UnregisterRetry(i) \/ Exit(i) \/ Join(i)
  PROVE  WorkerAssigned'
<1> USE DEF IInv, TypeOK, Goto, CallSafepoint, Launched, Label, SafepointLabel,
         Returns
<1>1. CASE Safepoint(i)
  <2>1. UNCHANGED <<peer, joinable, gpc>> /\ pc[i] \in SafepointLabel
        /\ \A j \in Interp \ {i} : pc'[j] = pc[j]
    BY <1>1 DEF Safepoint, SafepointLoad, LeaveSafepoint, SafepointAnswer,
         SafepointConsume, SafepointWait, SafepointLeave, SafepointReturn
  <2> QED
    BY <2>1, OwnStepAssigns
<1>2. CASE Execute(i) \/ Finish(i) \/ Unregister(i) \/ UnregisterRetry(i)
             \/ Exit(i)
  <2>1. UNCHANGED <<peer, joinable, gpc>> /\ pc[i] \in {"exec", "unreg", "exiting"}
        /\ \A j \in Interp \ {i} : pc'[j] = pc[j]
    BY <1>2 DEF Execute, Finish, Unregister, UnregisterRetry, Exit
  <2> QED
    BY <2>1, OwnStepAssigns
<1>3. CASE Join(i)
  <2>1. UNCHANGED <<joinable, gpc>>
        /\ pc[i] \in {"exec", "join_check", "join_reap", "reaping"}
        /\ \A j \in Interp \ {i} : pc'[j] = pc[j] /\ peer'[j] = peer[j]
    BY <1>3 DEF Join, JoinStart, JoinRepoll, JoinProceed, JoinReap,
         JoinReapRetry, JoinDone
  <2> QED
    BY <2>1, OwnStepAssigns
<1> QED
  BY <1>1, <1>2, <1>3

\* A launch: a new interpreter is not started yet when its worker_ is empty,
\* and the thread that starts it stands before the assignment.
LEMMA SpawnStepAssigns ==
  ASSUME IInv, WorkerAssigned, NEW i \in Interp, Spawn(i)
  PROVE  WorkerAssigned'
<1> USE DEF IInv, TypeOK, Goto, Launched, Label, SafepointLabel, Returns,
         WorkerAssigned, BeingAssigned
<1>1. ASSUME NEW c \in Interp, SpawnStart(i, c) PROVE WorkerAssigned'
  <2>1. c # i /\ UNCHANGED gpc /\ joinable' = joinable \ {c}
    BY <1>1 DEF SpawnStart
  <2>2. pc'[c] = "ctor"
        /\ \A j \in Interp \ {i, c} : pc'[j] = pc[j] /\ peer'[j] = peer[j]
    BY <1>1 DEF SpawnStart
  <2>3. pc[i] = "exec" /\ pc[c] = "free"
    BY <1>1 DEF SpawnStart
  <2> QED
    BY <2>1, <2>2, <2>3
<1>2. CASE SpawnRegister(i)
  <2>1. pc[i] = "spawn_reg" /\ peer[i] \in Interp /\ pc[peer[i]] = "ctor"
    BY <1>2 DEF SpawnRegister, SpawnInv, Launcher
  <2>2. UNCHANGED <<gpc, joinable, peer>> /\ pc'[peer[i]] = "new"
        /\ \A j \in Interp \ {i, peer[i]} : pc'[j] = pc[j]
    BY <1>2, <2>1 DEF SpawnRegister
  <2> QED
    BY <2>1, <2>2
<1>3. CASE SpawnRetry(i)
  BY <1>3 DEF SpawnRetry, vars, workers
<1>4. CASE SpawnLaunch(i)
  <2>1. pc[i] = "spawn_launch" /\ peer[i] \in Interp /\ pc[peer[i]] = "new"
    BY <1>4 DEF SpawnLaunch, SpawnInv, Launcher
  <2>2. UNCHANGED <<gpc, joinable, peer>> /\ pc'[i] = "spawn_assign"
        /\ \A j \in Interp \ {i, peer[i]} : pc'[j] = pc[j]
    BY <1>4, <2>1 DEF SpawnLaunch
  <2> QED
    BY <2>1, <2>2
<1>5. CASE SpawnAssign(i)
  <2>1. pc[i] = "spawn_assign" /\ joinable' = joinable \cup {peer[i]}
        /\ UNCHANGED gpc
    BY <1>5 DEF SpawnAssign
  <2>2. \A j \in Interp \ {i} : pc'[j] = pc[j] /\ peer'[j] = peer[j]
    BY <1>5 DEF SpawnAssign
  <2> QED
    BY <2>1, <2>2
<1> QED
  BY <1>1, <1>2, <1>3, <1>4, <1>5 DEF Spawn

\* The collector assigns the worker_ of the main interpreter, once.
LEMMA CollectStepAssigns ==
  ASSUME IInv, WorkerAssigned, Collect
  PROVE  WorkerAssigned'
<1> USE ThreadsAssumption DEF IInv, TypeOK, WorkerAssigned, BeingAssigned
<1>1. CASE GcLaunch
  BY <1>1 DEF GcLaunch, GcGoto, Goto
<1>2. CASE GcAssign
  BY <1>2 DEF GcAssign, GcGoto, workers
<1>3. ASSUME UNCHANGED <<workers, joinable>>, gpc # "assign"
      PROVE  WorkerAssigned'
  BY <1>3 DEF workers
<1> QED
  BY <1>1, <1>2, <1>3
     DEF Collect, GcGoto, GcParkLock, GcParkSet, GcParkAsked, GcParkWait,
         GcParked, GcCheck, GcSnapshot, GcDrain, GcDrained, GcRunLock, GcRunSet,
         GcRunWait, GcRunDone, GcReap, GcDone

\* Every step preserves it; only join() of an interpreter whose thread runs
\* and has not been assigned raises fatal.
LEMMA AssignStep == IInv /\ AssignInv /\ [Next]_vars => AssignInv'
<1> SUFFICES ASSUME IInv, AssignInv, [Next]_vars PROVE AssignInv'
  OBVIOUS
<1> USE DEF AssignInv
<1>1. CASE UNCHANGED vars
  BY <1>1 DEF vars, workers, manager, WorkerAssigned, BeingAssigned,
         TerminateOnlyAtLaunch
<1>2. ASSUME ~fatal, UNCHANGED fatal PROVE TerminateOnlyAtLaunch'
  BY <1>2 DEF TerminateOnlyAtLaunch
<1>3. ASSUME ~fatal, NEW i \in Interp, Worker(i) PROVE AssignInv'
  <2>1. WorkerAssigned'
    BY <1>3, WorkerStepAssigns, SpawnStepAssigns DEF Worker
  <2>2. UNCHANGED fatal
    BY <1>3 DEF Worker, Safepoint, SafepointLoad, LeaveSafepoint, SafepointAnswer,
         SafepointConsume, SafepointWait, SafepointLeave, SafepointReturn,
         Execute, Finish, Unregister, UnregisterRetry, Exit, Spawn, SpawnStart,
         SpawnRegister, SpawnRetry, SpawnLaunch, SpawnAssign, Join, JoinStart,
         JoinRepoll, JoinProceed, JoinReap, JoinReapRetry, JoinDone, vars
  <2> QED
    BY <1>2, <1>3, <2>1, <2>2
<1>4. CASE ~fatal /\ ReapPop
  <2>1. UNCHANGED <<workers, joinable, gpc, fatal>>
    BY <1>4 DEF ReapPop
  <2> QED
    BY <1>2, <1>4, <2>1 DEF workers, WorkerAssigned, BeingAssigned
<1>5. CASE ~fatal /\ ReapJoin
  <2>1. pc[cur] = "exited" /\ UNCHANGED <<peer, joinable, gpc, fatal>>
    BY <1>5 DEF ReapJoin
  <2>2. pc' = [pc EXCEPT ![cur] = "free"]
    BY <1>5 DEF ReapJoin
  <2>3. WorkerAssigned'
    BY <2>1, <2>2 DEF WorkerAssigned, BeingAssigned, Launched, IInv, TypeOK
  <2> QED
    BY <1>2, <1>5, <2>1, <2>3
<1>6. CASE ~fatal /\ ReapThrow
  <2>1. cur \in Interp /\ cur \notin joinable /\ pc[cur] \in {"exiting", "exited"}
    BY <1>6 DEF ReapThrow, IInv, TypeOK, ManagerType, CurInv
  <2>2. BeingAssigned(cur)
    BY <2>1 DEF WorkerAssigned, Launched, Label
  <2>3. UNCHANGED <<workers, joinable, gpc, cur>>
    BY <1>6 DEF ReapThrow, manager
  <2> QED
    BY <2>2, <2>3 DEF workers, WorkerAssigned, BeingAssigned,
         TerminateOnlyAtLaunch
<1>7. CASE ~fatal /\ Collect
  <2>1. UNCHANGED fatal
    BY <1>7 DEF Collect, GcLaunch, GcAssign, GcParkLock, GcParkSet, GcParkAsked,
         GcParkWait, GcParked, GcCheck, GcSnapshot, GcDrain, GcDrained,
         GcRunLock, GcRunSet, GcRunWait, GcRunDone, GcReap, GcDone
  <2> QED
    BY <1>2, <1>7, <2>1, CollectStepAssigns
<1> QED
  BY <1>1, <1>3, <1>4, <1>5, <1>6, <1>7 DEF Next, Reap, Over

(***************************************************************************)
(* The process is terminated by join() only when finish_waiting meets an   *)
(* interpreter between the start of its thread and the assignment of       *)
(* worker_ (interpreter.cpp:963, main.cpp:48, thread_manager.cpp:80-91).   *)
(***************************************************************************)
THEOREM TerminatesOnlyAtLaunch == Safety => []TerminateOnlyAtLaunch
<1>1. Init => AssignInv
  BY DEF Init, AssignInv, WorkerAssigned, Launched, TerminateOnlyAtLaunch
<1>2. AssignInv => TerminateOnlyAtLaunch
  BY DEF AssignInv
<1> QED
  BY <1>1, <1>2, AssignStep, Invariance, PTL DEF Safety

-----------------------------------------------------------------------------
(* Refinement of StopTheWorld.                                             *)

\* A registered interpreter that does not wait: the world is running.
LEMMA MovesOnlyWhenRunning ==
  ASSUME IInv, NEW i \in Interp, pc[i] \notin Outside \cup Waiting
  PROVE  World = "running" /\ i \in interpreters
<1>1. i \in interpreters
  BY DEF IInv, RegistryInv
<1>2. gpc \notin Stopped \cup Ending
  BY <1>1 DEF IInv, PhaseInv
<1> QED
  BY <1>1, <1>2 DEF World

\* What StopTheWorld speaks of is not touched.
LEMMA Unseen ==
  ASSUME UNCHANGED <<gpc, interpreters>>,
         pending' \cap interpreters = pending \cap interpreters
  PROVE  UNCHANGED STW!stwVars
BY DEF STW!stwVars, World

\* A worker's steps: allocations, a new interpreter, one that leaves.
LEMMA WorkerMaps ==
  ASSUME IInv, NEW i \in Interp, Worker(i)
  PROVE  [STW!STWNext]_(STW!stwVars)
<1>1. CASE Safepoint(i)
  <2>1. UNCHANGED <<gpc, interpreters, pending>>
    BY <1>1 DEF Safepoint, SafepointLoad, SafepointAnswer, SafepointConsume,
         SafepointWait, SafepointLeave, SafepointReturn, manager
  <2> QED
    BY <2>1, Unseen
<1>2. CASE Execute(i)
  <2>1. World = "running" /\ i \in interpreters
    BY <1>2, MovesOnlyWhenRunning
       DEF Execute, CallSafepoint, Goto, Outside, Waiting
  <2>2. UNCHANGED <<gpc, interpreters>>
    BY <1>2 DEF Execute, manager
  <2>3. CASE pending' = pending
    BY <2>2, <2>3, Unseen
  <2>4. CASE pending' = pending \cup {i}
    <3>1. STW!Allocate(i)
      BY <2>1, <2>2, <2>4 DEF STW!Allocate, World
    <3> QED
      BY <3>1 DEF STW!STWNext
  <2> QED
    BY <1>2, <2>3, <2>4 DEF Execute
<1>3. CASE Unregister(i)
  <2>1. World = "running" /\ i \in interpreters
    BY <1>3, MovesOnlyWhenRunning DEF Unregister, Goto, Outside, Waiting
  <2>2. STW!Leave(i)
    BY <1>3, <2>1 DEF Unregister, UnregisterInterpreter, STW!Leave, World
  <2> QED
    BY <2>2 DEF STW!STWNext
<1>4. CASE Finish(i) \/ UnregisterRetry(i) \/ Exit(i)
  <2>1. UNCHANGED <<gpc, interpreters, pending>>
    BY <1>4 DEF Finish, UnregisterRetry, Exit, manager
  <2> QED
    BY <2>1, Unseen
<1>5. ASSUME NEW c \in Interp, SpawnStart(i, c)
      PROVE  [STW!STWNext]_(STW!stwVars)
  <2>1. c \notin interpreters
    BY <1>5 DEF SpawnStart, IInv, RegistryInv, Outside
  <2>2. /\ UNCHANGED <<gpc, interpreters>>
        /\ pending' = pending \ {c}
    BY <1>5 DEF SpawnStart, manager
  <2> QED
    BY <2>1, <2>2, Unseen
<1>6. CASE SpawnRegister(i)
  <2> DEFINE c == peer[i]
  <2>1. World = "running"
    BY <1>6, MovesOnlyWhenRunning DEF SpawnRegister, Outside, Waiting
  <2>2. c \in Interp /\ pc[c] = "ctor"
    BY <1>6 DEF SpawnRegister, IInv, SpawnInv, Launcher
  <2>3. c \notin interpreters /\ c \notin pending
    BY <2>2 DEF IInv, RegistryInv, DrainInv, Outside
  <2>4. STW!Start(c)
    BY <1>6, <2>1, <2>3
       DEF SpawnRegister, RegisterInterpreter, STW!Start, World
  <2> QED
    BY <2>2, <2>4 DEF STW!STWNext
<1>7. CASE SpawnRetry(i) \/ SpawnLaunch(i) \/ SpawnAssign(i)
  <2>1. UNCHANGED <<gpc, interpreters, pending>>
    BY <1>7 DEF SpawnRetry, SpawnLaunch, SpawnAssign, vars, manager
  <2> QED
    BY <2>1, Unseen
<1>8. CASE Join(i)
  <2>1. UNCHANGED <<gpc, interpreters, pending>>
    BY <1>8 DEF Join, JoinStart, JoinRepoll, JoinProceed, JoinReap, LockToReap,
         JoinReapRetry, JoinDone, Unlock, manager
  <2> QED
    BY <2>1, Unseen
<1> QED
  BY <1>1, <1>2, <1>3, <1>4, <1>5, <1>6, <1>7, <1>8 DEF Worker, Spawn

\* The collector's steps: the world stops, is drained, and resumes or ends.
LEMMA CollectMaps ==
  ASSUME IInv, Collect
  PROVE  [STW!STWNext]_(STW!stwVars)
<1>1. CASE \/ GcLaunch \/ GcAssign \/ GcParkLock \/ GcParkAsked
           \/ (\E i \in Interp : GcParkSet(i) \/ GcParkWait(i))
  <2>1. /\ UNCHANGED <<interpreters, pending>>
        /\ {gpc, gpc'} \subseteq
             {"launch", "assign", "park", "park_set", "park_wait"}
    BY <1>1 DEF GcLaunch, GcAssign, GcParkLock, GcParkAsked, GcParkSet,
         GcParkWait, GcGoto, LockAndIterate, manager
  <2> QED
    BY <2>1 DEF STW!stwVars, World, Stopped, Ending
<1>2. CASE GcParked
  <2>1. STW!Stop
    BY <1>2 DEF GcParked, GcGoto, Unlock, STW!Stop, World, Stopped, Ending
  <2> QED
    BY <2>1 DEF STW!STWNext
<1>3. CASE GcCheck \/ GcDrained
  <2>1. /\ UNCHANGED <<interpreters, pending>>
        /\ {gpc, gpc'} \subseteq Stopped
    BY <1>3 DEF GcCheck, GcDrained, GcGoto, Stopped, manager
  <2> QED
    BY <2>1 DEF STW!stwVars, World, Stopped, Ending
<1>4. CASE GcSnapshot
  <2>1. UNCHANGED <<interpreters, pending>> /\ gpc \in Stopped
    BY <1>4 DEF GcSnapshot, GcGoto, Stopped
  <2>2. CASE interpreters = {}
    <3>1. STW!End
      BY <1>4, <2>1, <2>2
         DEF GcSnapshot, GcGoto, STW!End, World, Stopped, Ending
    <3> QED
      BY <3>1 DEF STW!STWNext
  <2>3. CASE interpreters # {}
    BY <1>4, <2>1, <2>3
       DEF GcSnapshot, GcGoto, STW!stwVars, World, Stopped, Ending
  <2> QED
    BY <2>2, <2>3
<1>5. ASSUME NEW i \in Interp, GcDrain(i)
      PROVE  [STW!STWNext]_(STW!stwVars)
  <2>1. STW!Drain(i)
    BY <1>5 DEF GcDrain, STW!Drain, World, Stopped, Ending
  <2> QED
    BY <2>1 DEF STW!STWNext
<1>6. CASE GcRunLock
  <2>1. STW!Resume
    BY <1>6 DEF GcRunLock, GcGoto, LockAndIterate, IInv, PhaseInv, DrainInv,
         STW!Resume, World, Stopped, Ending
  <2> QED
    BY <2>1 DEF STW!STWNext
<1>7. CASE GcRunWait \/ GcRunDone \/ (\E i \in Interp : GcRunSet(i))
  <2>1. /\ UNCHANGED <<interpreters, pending>>
        /\ {gpc, gpc'} \subseteq {"run_set", "run_wait", "park"}
    BY <1>7 DEF GcRunWait, GcRunDone, GcRunSet, GcGoto, Unlock
  <2> QED
    BY <2>1 DEF STW!stwVars, World, Stopped, Ending
<1>8. CASE GcReap \/ GcDone
  <2>1. /\ UNCHANGED <<interpreters, pending>>
        /\ {gpc, gpc'} \subseteq Ending
    BY <1>8 DEF GcReap, GcDone, GcGoto, LockToReap, Unlock, Ending
  <2> QED
    BY <2>1 DEF STW!stwVars, World, Stopped, Ending
<1> QED
  BY <1>1, <1>2, <1>3, <1>4, <1>5, <1>6, <1>7, <1>8 DEF Collect

(***************************************************************************)
(* The virtual machine implements StopTheWorld: between park_all and       *)
(* run_all nobody registers, leaves or allocates, the world resumes only   *)
(* with every queue drained, and collect ends only when nobody is left.    *)
(***************************************************************************)
THEOREM Refinement == Safety => KeepsStopTheWorld
<1>1. Init => STW!STWInit
  BY DEF Init, STW!STWInit, World, Stopped, Ending
<1>2. IInv /\ [Next]_vars => [STW!STWNext]_(STW!stwVars)
  <2> SUFFICES ASSUME IInv, [Next]_vars PROVE [STW!STWNext]_(STW!stwVars)
    OBVIOUS
  <2>1. ASSUME NEW i \in Interp, Worker(i) PROVE [STW!STWNext]_(STW!stwVars)
    BY <2>1, WorkerMaps
  <2>2. CASE Reap
    <3>1. UNCHANGED <<gpc, interpreters, pending>>
      BY <2>2 DEF Reap, ReapPop, ReapJoin, ReapThrow, PopJoinQueue, manager
    <3> QED
      BY <3>1, Unseen
  <2>3. CASE Collect
    BY <2>3, CollectMaps
  <2>4. CASE UNCHANGED vars
    <3>1. UNCHANGED <<gpc, interpreters, pending>>
      BY <2>4 DEF vars, manager
    <3> QED
      BY <3>1, Unseen
  <2> QED
    BY <2>1, <2>2, <2>3, <2>4 DEF Next, Over
<1> QED
  BY <1>1, <1>2, Invariance, PTL DEF Safety, KeepsStopTheWorld, STW!STWSpec
=============================================================================
