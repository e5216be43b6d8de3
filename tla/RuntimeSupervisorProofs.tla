----------------------- MODULE RuntimeSupervisorProofs -----------------------
(***************************************************************************)
(* Proofs about the Supervisor, for every number of generations and of      *)
(* process starts, with or without telemetry.                               *)
(*                                                                          *)
(* TypeInv is TypeOK with what makes it inductive.  OwnInv and PcInv        *)
(* together make DroppedOwnsNothing inductive: OwnInv relates the resources *)
(* of a generation to its components, PcInv says what has been closed by    *)
(* the time the holder of transitionMu is at each step.  KindInv, ExecInv,  *)
(* TruthInv, StopInv and CloseInv carry the theorems about the state that   *)
(* is reported, saved and told to Credimi.                                  *)
(***************************************************************************)
EXTENDS RuntimeSupervisor, TLAPS

-----------------------------------------------------------------------------
(* Type correctness                                                        *)

\* Replacing one value of a function keeps its type.
LEMMA SetAt ==
    ASSUME NEW S, NEW T, NEW f \in [S -> T], NEW x, NEW v \in T
    PROVE  [f EXCEPT ![x] = v] \in [S -> T]
  OBVIOUS

\* The Boolean variables, apart because another prover deals with them.
Bools ==
    /\ remoteErr \in BOOLEAN /\ localErr \in BOOLEAN /\ failed \in BOOLEAN
    /\ configured \in BOOLEAN

\* Every step keeps the types of the Boolean variables.
LEMMA BoolsNext == Bools /\ [Next]_vars => Bools'
<1> SUFFICES ASSUME Bools, [Next]_vars PROVE Bools'
  OBVIOUS
<1> USE DEF Bools, stateVars, ownVars, procVars, localVars, holderVars, watchVars,
            genVars, tearFrame, CanBegin, CanBeginOp
<1>1. CASE Return
  BY <1>1, Zenon DEF Return, IdleHolder
<1>2. CASE TearPause
  BY <1>2, Zenon DEF TearPause, Pause
<1>3. CASE TearStopWorkers
  BY <1>3, Zenon DEF TearStopWorkers, StopWorkers
<1>4. CASE TearStopAPI
  BY <1>4, Zenon DEF TearStopAPI
<1>5. CASE TearStopEdge
  BY <1>5, Zenon DEF TearStopEdge
<1>6. CASE TearWaitWorkers
  BY <1>6, Zenon DEF TearWaitWorkers, WaitAll
<1>7. CASE TearRelease
  BY <1>7, Zenon DEF TearRelease
<1>8. CASE TornDown
  BY <1>8, Zenon DEF TornDown, Drop, Clean, fail, updateState, startLocked, ReconcileFresh
<1>9. CASE Restore
  BY <1>9, Zenon DEF Restore
<1>10. CASE RestartFailed
  BY <1>10, Zenon DEF RestartFailed, fail, updateState
<1>11. CASE Started
  BY <1>11, Zenon DEF Started, updateState, BeginTeardown
<1>12. CASE LoadConfig
  BY <1>12, Zenon DEF LoadConfig, fail, updateState
<1>13. CASE newGeneration
  BY <1>13, Zenon DEF newGeneration, BeginTeardown, Telemetry
<1>14. CASE Activated
  BY <1>14, Zenon DEF Activated, updateState
<1>15. CASE monitorGeneration
  BY <1>15, Zenon DEF monitorGeneration
<1>16. CASE rollback
  BY <1>16, Zenon DEF rollback, BeginTeardown
<1>17. CASE StopGen
  BY <1>17, Zenon DEF StopGen, updateState, BeginTeardown
<1>18. CASE RestartGen
  BY <1>18, Zenon DEF RestartGen, updateState, BeginTeardown, startLocked
<1>19. CASE ReconcileGen
  BY <1>19, Zenon DEF ReconcileGen, updateState, BeginTeardown, ReconcileFresh
<1>20. CASE ReconcileFailed
  BY <1>20, Zenon DEF ReconcileFailed, fail, updateState
<1>21. CASE CloseGen
  BY <1>21, Zenon DEF CloseGen, updateState, BeginTeardown
<1>22. CASE Start
  BY <1>22, Zenon DEF Start, startLocked, updateState
<1>23. CASE Stop
  BY <1>23, Zenon DEF Stop, updateState
<1>24. CASE Restart
  BY <1>24, Zenon DEF Restart, updateState
<1>25. CASE Reconcile
  BY <1>25, Zenon DEF Reconcile
<1>26. CASE Close
  BY <1>26, Zenon DEF Close
<1>27. CASE RequestStart
  BY <1>27, Zenon DEF RequestStart
<1>28. CASE Boot
  BY <1>28, Zenon DEF Boot, Load
<1>29. CASE SaveConfig
  BY <1>29, Zenon DEF SaveConfig
<1>30. CASE CancelContext
  BY <1>30, Zenon DEF CancelContext
<1>31. CASE ProcessEnds
  BY <1>31, Zenon DEF ProcessEnds, IdleHolder, FreshGenerations
<1>32. ASSUME NEW ok \in BOOLEAN, Save(ok) PROVE Bools'
  BY <1>32, Zenon DEF Save
<1>33. ASSUME NEW ok \in BOOLEAN, RequestSave(ok) PROVE Bools'
  BY <1>33, Zenon DEF RequestSave
<1>34. ASSUME NEW step \in ActStep, activate(step) PROVE Bools'
  BY <1>34, Zenon DEF activate, StepEffect, Brings, NextStep
<1>35. ASSUME NEW g \in Gens, MonitorNotified(g) PROVE Bools'
  BY <1>35, Zenon DEF MonitorNotified
<1>36. ASSUME NEW g \in Gens, MonitorEnds(g) PROVE Bools'
  BY <1>36, Zenon DEF MonitorEnds
<1>37. ASSUME NEW g \in Gens, handleGenerationFailure(g) PROVE Bools'
  BY <1>37, Zenon DEF handleGenerationFailure, BeginTeardown
<1>38. ASSUME NEW g \in Gens, watchFailureSource(g) PROVE Bools'
  BY <1>38, Zenon DEF watchFailureSource
<1>39. ASSUME NEW g \in Gens, APIStartsWorker(g) PROVE Bools'
  BY <1>39, Zenon DEF APIStartsWorker
<1>40. ASSUME NEW g \in Gens, WorkersEnd(g) PROVE Bools'
  BY <1>40, Zenon DEF WorkersEnd
<1>41. CASE UNCHANGED vars
  BY <1>41, Zenon DEF vars
<1> QED
  BY <1>1, <1>2, <1>3, <1>4, <1>5, <1>6, <1>7, <1>8, <1>9, <1>10, <1>11, <1>12, <1>13,
     <1>14, <1>15, <1>16, <1>17, <1>18, <1>19, <1>20, <1>21, <1>22, <1>23, <1>24, <1>25,
     <1>26, <1>27, <1>28, <1>29, <1>30, <1>31, <1>32, <1>33, <1>34, <1>35, <1>36, <1>37,
     <1>38, <1>39, <1>40, <1>41
   DEF Next, HolderStep, MonitorStep

\* Every step keeps the types of the generations' variables.
LEMMA GensNext == TypeOK /\ [Next]_vars => GensOK'
<1> SUFFICES ASSUME TypeOK, [Next]_vars PROVE GensOK'
  OBVIOUS
<1> USE DEF TypeOK, GensOK, stateVars, ownVars, procVars, localVars, holderVars,
            watchVars, genVars, tearFrame, CanBegin, CanBeginOp
<1>1. CASE Return
  BY <1>1 DEF Return, IdleHolder
<1>2. CASE TearPause
  BY <1>2 DEF TearPause, Pause
<1>3. CASE TearStopWorkers
  BY <1>3 DEF TearStopWorkers, StopWorkers, Resource
<1>4. CASE TearStopAPI
  <2>1. open' = open \/ open' = [open EXCEPT ![target] = @ \ {"api"}]
    BY <1>4, Zenon DEF TearStopAPI
  <2>2. up' = up \/ up' = [up EXCEPT ![target] = @ \ {"api"}]
    BY <1>4, Zenon DEF TearStopAPI
  <2>3. UNCHANGED <<workers, registered, executing, url, dead, fatal, monitor>>
    BY <1>4, Zenon DEF TearStopAPI
  <2>4. open' \in [Gens -> SUBSET Resource]
    BY <2>1
  <2>5. up' \in [Gens -> SUBSET Component]
    BY <2>2
  <2> QED
    BY <2>3, <2>4, <2>5
<1>5. CASE TearStopEdge
  <2>1. open' = open \/ open' = [open EXCEPT ![target] = @ \ {"edge"}]
    BY <1>5, Zenon DEF TearStopEdge
  <2>2. up' = up \/ up' = [up EXCEPT ![target] = @ \ {"edge"}]
    BY <1>5, Zenon DEF TearStopEdge
  <2>3. url' = url \/ url' = [url EXCEPT ![target] = FALSE]
    BY <1>5, Zenon DEF TearStopEdge
  <2>4. UNCHANGED <<workers, registered, executing, dead, fatal, monitor>>
    BY <1>5, Zenon DEF TearStopEdge
  <2>5. url' \in [Gens -> BOOLEAN]
    BY <2>3
  <2>6. open' \in [Gens -> SUBSET Resource]
    BY <2>1
  <2>7. up' \in [Gens -> SUBSET Component]
    BY <2>2
  <2> QED
    BY <2>4, <2>5, <2>6, <2>7
<1>6. CASE TearWaitWorkers
  BY <1>6 DEF TearWaitWorkers, WaitAll
<1>7. CASE TearRelease
  <2>1. \/ open' = [open EXCEPT ![target] = @ \ {"otel", "ctx"}]
        \/ open' = [open EXCEPT ![target] = @ \ {"ctx"}]
    BY <1>7, Zenon DEF TearRelease
  <2>2. executing' = [executing EXCEPT ![target] = FALSE]
    BY <1>7, Zenon DEF TearRelease
  <2>3. UNCHANGED <<up, workers, registered, url, dead, fatal, monitor>>
    BY <1>7, Zenon DEF TearRelease
  <2>4. executing' \in [Gens -> BOOLEAN]
    BY <2>2
  <2>5. open' \in [Gens -> SUBSET Resource]
    BY <2>1
  <2> QED
    BY <2>3, <2>4, <2>5
<1>8. CASE TornDown
  BY <1>8 DEF TornDown, Drop, Clean, fail, updateState, startLocked, ReconcileFresh
<1>9. CASE Restore
  BY <1>9 DEF Restore
<1>10. CASE RestartFailed
  BY <1>10 DEF RestartFailed, fail, updateState
<1>11. CASE Started
  BY <1>11 DEF Started, updateState, BeginTeardown
<1>12. CASE LoadConfig
  BY <1>12 DEF LoadConfig, fail, updateState
<1>13. CASE newGeneration
  <2>1. \E acquired \in SUBSET Resource : open' = [open EXCEPT ![created'] = acquired]
    BY <1>13, Zenon DEF newGeneration, Telemetry, Resource
  <2>2. UNCHANGED <<up, workers, registered, executing, url, dead, fatal, monitor>>
    BY <1>13, Zenon DEF newGeneration
  <2>3. open' \in [Gens -> SUBSET Resource]
    <3> PICK acquired \in SUBSET Resource : open' = [open EXCEPT ![created'] = acquired]
      BY <2>1
    <3> QED
      BY SetAt
  <2> QED
    BY <2>2, <2>3
<1>14. CASE Activated
  BY <1>14 DEF Activated, updateState
<1>15. CASE monitorGeneration
  BY <1>15 DEF monitorGeneration
<1>16. CASE rollback
  BY <1>16 DEF rollback, BeginTeardown
<1>17. CASE StopGen
  BY <1>17 DEF StopGen, updateState, BeginTeardown
<1>18. CASE RestartGen
  BY <1>18 DEF RestartGen, updateState, BeginTeardown, startLocked
<1>19. CASE ReconcileGen
  BY <1>19 DEF ReconcileGen, updateState, BeginTeardown, ReconcileFresh
<1>20. CASE ReconcileFailed
  BY <1>20 DEF ReconcileFailed, fail, updateState
<1>21. CASE CloseGen
  BY <1>21 DEF CloseGen, updateState, BeginTeardown
<1>22. CASE Start
  BY <1>22 DEF Start, startLocked, updateState
<1>23. CASE Stop
  BY <1>23 DEF Stop, updateState
<1>24. CASE Restart
  BY <1>24 DEF Restart, updateState
<1>25. CASE Reconcile
  BY <1>25 DEF Reconcile
<1>26. CASE Close
  BY <1>26 DEF Close
<1>27. CASE RequestStart
  BY <1>27 DEF RequestStart
<1>28. CASE Boot
  BY <1>28 DEF Boot, Load
<1>29. CASE SaveConfig
  BY <1>29 DEF SaveConfig
<1>30. CASE CancelContext
  BY <1>30 DEF CancelContext
<1>31. CASE ProcessEnds
  BY <1>31 DEF ProcessEnds, IdleHolder, FreshGenerations
<1>32. ASSUME NEW ok \in BOOLEAN, Save(ok) PROVE GensOK'
  BY <1>32 DEF Save
<1>33. ASSUME NEW ok \in BOOLEAN, RequestSave(ok) PROVE GensOK'
  BY <1>33 DEF RequestSave
<1>34. ASSUME NEW step \in ActStep, activate(step) PROVE GensOK'
  <2> PICK ok \in BOOLEAN : StepEffect(target, step, ok)
    BY <1>34, Zenon DEF activate
  <2>1. /\ \E b \in BOOLEAN : fatal' = [fatal EXCEPT ![target] = b]
        /\ \E b \in BOOLEAN : executing' = [executing EXCEPT ![target] = b]
        /\ \E b \in BOOLEAN : url' = [url EXCEPT ![target] = b]
    BY <1>34, Zenon DEF activate
  <2>2. /\ up' = up \/ up' = [up EXCEPT ![target] = @ \cup Brings(step)]
        /\ registered' = registered \/ registered' = [registered EXCEPT ![target] = TRUE]
        /\ open' = open \/ open' = [open EXCEPT ![target] = @ \cup {"workers"}]
        /\ workers' = workers \/ workers' = [workers EXCEPT ![target] = "running"]
    BY DEF StepEffect
  <2>3. Brings(step) \in SUBSET Component /\ {"workers"} \in SUBSET Resource
    BY DEF Brings, Component, Resource
  <2>4. UNCHANGED <<dead, monitor>>
    BY <1>34, Zenon DEF activate
  <2>5. fatal' \in [Gens -> BOOLEAN]
    BY <2>1, SetAt
  <2>6. executing' \in [Gens -> BOOLEAN]
    BY <2>1, SetAt
  <2>7. url' \in [Gens -> BOOLEAN]
    BY <2>1, SetAt
  <2>8. up' \in [Gens -> SUBSET Component]
    BY <2>2, <2>3
  <2>9. open' \in [Gens -> SUBSET Resource]
    BY <2>2, <2>3
  <2>10. registered' \in [Gens -> BOOLEAN] /\ workers' \in [Gens -> {"none", "running", "cancelled"}]
    BY <2>2
  <2> QED
    BY <2>4, <2>5, <2>6, <2>7, <2>8, <2>9, <2>10
<1>35. ASSUME NEW g \in Gens, MonitorNotified(g) PROVE GensOK'
  BY <1>35 DEF MonitorNotified
<1>36. ASSUME NEW g \in Gens, MonitorEnds(g) PROVE GensOK'
  BY <1>36 DEF MonitorEnds
<1>37. ASSUME NEW g \in Gens, handleGenerationFailure(g) PROVE GensOK'
  BY <1>37 DEF handleGenerationFailure, BeginTeardown
<1>38. ASSUME NEW g \in Gens, watchFailureSource(g) PROVE GensOK'
  BY <1>38 DEF watchFailureSource
<1>39. ASSUME NEW g \in Gens, APIStartsWorker(g) PROVE GensOK'
  BY <1>39 DEF APIStartsWorker
<1>40. ASSUME NEW g \in Gens, WorkersEnd(g) PROVE GensOK'
  BY <1>40 DEF WorkersEnd
<1>41. CASE UNCHANGED vars
  BY <1>41 DEF vars
<1> QED
  BY <1>1, <1>2, <1>3, <1>4, <1>5, <1>6, <1>7, <1>8, <1>9, <1>10, <1>11, <1>12, <1>13,
     <1>14, <1>15, <1>16, <1>17, <1>18, <1>19, <1>20, <1>21, <1>22, <1>23, <1>24, <1>25,
     <1>26, <1>27, <1>28, <1>29, <1>30, <1>31, <1>32, <1>33, <1>34, <1>35, <1>36, <1>37,
     <1>38, <1>39, <1>40, <1>41
   DEF Next, HolderStep, MonitorStep

\* Where the holder goes on after a save, when it succeeds and when it fails.
Continuation == {<<"started", "restore">>, <<"started", "restartFailed">>,
                 <<"stopGen", "stopGen">>, <<"restartGen", "restore">>,
                 <<"create", "reconcileFailed">>, <<"armMonitor", "rollback">>,
                 <<"done", "done">>}

\* The operation in progress is still going to construct a generation.
WillCreate ==
    \/ pc \in {"started", "load", "create", "restartGen", "reconcileGen"}
    \/ pc = "save" /\ cont[1] \in {"started", "restartGen", "create"}
    \/ pc \in TearStep /\ reason \in {"start_cleanup", "runtime_restart", "config_reconcile"}

\* TypeOK with what it needs to be inductive: previousState is there when it
\* may be restored, and the bound on generations is not reached.
TypeInv ==
    /\ TypeOK
    /\ (pc = "restore" \/ (pc = "save" /\ cont[2] = "restore")) => prev \in State
    /\ WillCreate => created < MaxGenerations
    /\ pc = "save" => cont \in Continuation

\* The initial state satisfies TypeInv.
LEMMA TypeInvInit == Init => TypeInv
<1> SUFFICES ASSUME Init PROVE TypeInv
  OBVIOUS
<1>1. Bools
  BY Zenon DEF Init, Bools
<1>2. ProcessOK
  BY <1>1, BoundsAssumption DEF Init, ProcessOK, Bools, St, State, Desired, Actual, Gens
<1>3. HolderOK
  BY <1>1, BoundsAssumption DEF Init, HolderOK, Bools, Pc, Kind, OpKind, Reason, Desired
<1>4. GensOK
  BY DEF Init, GensOK
<1> QED
  BY <1>2, <1>3, <1>4 DEF Init, TypeInv, TypeOK, WillCreate, TearStep

\* Every step preserves TypeInv.
LEMMA TypeInvNext == TypeInv /\ [Next]_vars => TypeInv'
<1> SUFFICES ASSUME TypeInv, [Next]_vars PROVE TypeInv'
  OBVIOUS
<1>a. Bools'
  BY BoolsNext DEF TypeInv, TypeOK, ProcessOK, HolderOK, Bools
<1>b. GensOK'
  BY GensNext DEF TypeInv
<1> USE BoundsAssumption
<1> USE DEF TypeInv, TypeOK, ProcessOK, HolderOK, Bools, WillCreate, Continuation, Gens,
            St, State, Desired, Actual, Pc, ActStep, TearStep, Kind, OpKind, Reason,
            stateVars, ownVars, procVars, localVars, holderVars, watchVars, genVars,
            tearFrame, CanBegin, CanBeginOp
<1>1. CASE Return
  BY <1>1, <1>a, <1>b DEF Return, IdleHolder
<1>2. CASE TearPause
  BY <1>2, <1>a, <1>b DEF TearPause, Pause
<1>3. CASE TearStopWorkers
  BY <1>3, <1>a, <1>b DEF TearStopWorkers, StopWorkers
<1>4. CASE TearStopAPI
  BY <1>4, <1>a, <1>b DEF TearStopAPI
<1>5. CASE TearStopEdge
  BY <1>5, <1>a, <1>b DEF TearStopEdge
<1>6. CASE TearWaitWorkers
  BY <1>6, <1>a, <1>b DEF TearWaitWorkers, WaitAll
<1>7. CASE TearRelease
  BY <1>7, <1>a, <1>b DEF TearRelease
<1>8. CASE TornDown
  BY <1>8, <1>a, <1>b
   DEF TornDown, Drop, Clean, fail, updateState, startLocked, ReconcileFresh
<1>9. CASE Restore
  BY <1>9, <1>a, <1>b DEF Restore
<1>10. CASE RestartFailed
  BY <1>10, <1>a, <1>b DEF RestartFailed, fail, updateState
<1>11. CASE Started
  BY <1>11, <1>a, <1>b DEF Started, updateState, BeginTeardown
<1>12. CASE LoadConfig
  BY <1>12, <1>a, <1>b DEF LoadConfig, fail, updateState
<1>13. CASE newGeneration
  <2>1. /\ pc = "create" /\ created' = created + 1 /\ target' = created'
        /\ UNCHANGED <<stateVars, procVars, kind, want, prev, saving, cont, remote, stopAck>>
    BY <1>13 DEF newGeneration
  <2>2. created' \in Gens
    BY <2>1
  <2>3. \/ pc' = "api" /\ gen' = created' /\ installed' = installed \cup {created'} /\ reason' = reason
        \/ pc' = "pause" /\ reason' = "generation_create_failed" /\ UNCHANGED <<gen, installed>>
    BY <1>13 DEF newGeneration, BeginTeardown
  <2>4. ProcessOK'
    <3>1. gen' \in 0 .. MaxGenerations
      BY <2>2, <2>3
    <3>2. installed' \subseteq Gens
      BY <2>2, <2>3
    <3> QED
      BY <1>a, <2>1, <2>2, <3>1, <3>2
  <2>5. HolderOK'
    BY <1>a, <2>1, <2>2, <2>3
  <2>6. pc' \notin {"restore", "save"} /\ ~WillCreate'
    BY <2>1, <2>3
  <2> QED
    BY <1>b, <2>4, <2>5, <2>6
<1>14. CASE Activated
  BY <1>14, <1>a, <1>b DEF Activated, updateState
<1>15. CASE monitorGeneration
  BY <1>15, <1>a, <1>b DEF monitorGeneration
<1>16. CASE rollback
  BY <1>16, <1>a, <1>b DEF rollback, BeginTeardown
<1>17. CASE StopGen
  BY <1>17, <1>a, <1>b DEF StopGen, updateState, BeginTeardown
<1>18. CASE RestartGen
  BY <1>18, <1>a, <1>b DEF RestartGen, updateState, BeginTeardown, startLocked
<1>19. CASE ReconcileGen
  BY <1>19, <1>a, <1>b DEF ReconcileGen, updateState, BeginTeardown, ReconcileFresh
<1>20. CASE ReconcileFailed
  BY <1>20, <1>a, <1>b DEF ReconcileFailed, fail, updateState
<1>21. CASE CloseGen
  BY <1>21, <1>a, <1>b DEF CloseGen, updateState, BeginTeardown
<1>22. CASE Start
  BY <1>22, <1>a, <1>b DEF Start, startLocked, updateState
<1>23. CASE Stop
  BY <1>23, <1>a, <1>b DEF Stop, updateState
<1>24. CASE Restart
  BY <1>24, <1>a, <1>b DEF Restart, updateState
<1>25. CASE Reconcile
  BY <1>25, <1>a, <1>b DEF Reconcile
<1>26. CASE Close
  BY <1>26, <1>a, <1>b DEF Close
<1>27. CASE RequestStart
  BY <1>27, <1>a, <1>b DEF RequestStart
<1>28. CASE Boot
  BY <1>28, <1>a, <1>b DEF Boot, Load
<1>29. CASE SaveConfig
  BY <1>29, <1>a, <1>b DEF SaveConfig
<1>30. CASE CancelContext
  BY <1>30, <1>a, <1>b DEF CancelContext
<1>31. CASE ProcessEnds
  BY <1>31, <1>a, <1>b DEF ProcessEnds, IdleHolder, FreshGenerations
<1>32. ASSUME NEW ok \in BOOLEAN, Save(ok) PROVE TypeInv'
  BY <1>32, <1>a, <1>b DEF Save
<1>33. ASSUME NEW ok \in BOOLEAN, RequestSave(ok) PROVE TypeInv'
  BY <1>33, <1>a, <1>b DEF RequestSave
<1>34. ASSUME NEW step \in ActStep, activate(step) PROVE TypeInv'
  BY <1>34, <1>a, <1>b DEF activate, StepEffect, Brings, NextStep
<1>35. ASSUME NEW g \in Gens, MonitorNotified(g) PROVE TypeInv'
  BY <1>35, <1>a, <1>b DEF MonitorNotified
<1>36. ASSUME NEW g \in Gens, MonitorEnds(g) PROVE TypeInv'
  BY <1>36, <1>a, <1>b DEF MonitorEnds
<1>37. ASSUME NEW g \in Gens, handleGenerationFailure(g) PROVE TypeInv'
  BY <1>37, <1>a, <1>b DEF handleGenerationFailure, BeginTeardown
<1>38. ASSUME NEW g \in Gens, watchFailureSource(g) PROVE TypeInv'
  BY <1>38, <1>a, <1>b DEF watchFailureSource
<1>39. ASSUME NEW g \in Gens, APIStartsWorker(g) PROVE TypeInv'
  BY <1>39, <1>a, <1>b DEF APIStartsWorker
<1>40. ASSUME NEW g \in Gens, WorkersEnd(g) PROVE TypeInv'
  BY <1>40, <1>a, <1>b DEF WorkersEnd
<1>41. CASE UNCHANGED vars
  BY <1>41, <1>a, <1>b DEF vars
<1> QED
  BY <1>1, <1>2, <1>3, <1>4, <1>5, <1>6, <1>7, <1>8, <1>9, <1>10, <1>11, <1>12, <1>13,
     <1>14, <1>15, <1>16, <1>17, <1>18, <1>19, <1>20, <1>21, <1>22, <1>23, <1>24, <1>25,
     <1>26, <1>27, <1>28, <1>29, <1>30, <1>31, <1>32, <1>33, <1>34, <1>35, <1>36, <1>37,
     <1>38, <1>39, <1>40, <1>41
   DEF Next, HolderStep, MonitorStep

\* In every behaviour every variable of the Supervisor has its type
\* (supervisor.go, Supervisor and generation).
THEOREM TypeCorrect == Spec => []TypeOK
<1>1. Init => TypeInv
  BY TypeInvInit
<1>2. TypeInv /\ [Next]_vars => TypeInv'
  BY TypeInvNext
<1>3. TypeInv => TypeOK
  BY DEF TypeInv
<1> QED
  BY <1>1, <1>2, <1>3, PTL DEF Spec

-----------------------------------------------------------------------------
(* A dropped generation owns nothing                                       *)

\* Who owns what: the current generation has been stored, a component that is
\* up is backed by a resource that is open, and generations let go of own
\* nothing.
OwnInv ==
    /\ \A g \in installed : g <= created
    /\ gen # 0 => gen \in installed
    /\ \A g \in Gens : created < g => up[g] = {} /\ ~url[g]
    /\ \A g \in Gens : /\ "api" \in up[g] => "api" \in open[g]
                       /\ "edge" \in up[g] => "edge" \in open[g]
                       /\ url[g] => "edge" \in open[g]
    /\ DroppedOwnsNothing

\* What holds at each step of the holder.
PcInv ==
    /\ (pc \in ActStep \cup {"activated", "armMonitor", "rollback"}
         \/ (pc = "save" /\ cont[1] = "armMonitor")) => target = gen /\ gen # 0
    /\ pc \in ActStep => "api" \in open[gen] /\ "edge" \in open[gen]
    /\ (pc \in {"load", "create"} \/ (pc = "save" /\ cont[1] = "create")) => gen = 0
    /\ pc \in TearStep => target # 0
    /\ pc \in TearStep => IF reason = "generation_create_failed" THEN target \notin installed
                                                                 ELSE target = gen
    /\ pc \in TearStep \ {"pause"} => "heartbeat" \notin up[target]
    /\ pc \in {"stopAPI", "stopEdge", "waitWorkers"} => "workers" \in open[target]
    /\ pc \in {"release", "tornDown"} =>
          "workers" \in open[target] \/ "api" \in open[target] \/ workers[target] = "none"
    /\ pc = "tornDown" => ~executing[target]

\* A step of teardownGeneration that only takes away from its generation
\* preserves OwnInv.
LEMMA ShrinkOwn ==
    ASSUME TypeOK, OwnInv, PcInv, pc \in TearStep,
           UNCHANGED <<installed, created, gen, workers>>,
           \A g \in Gens : /\ open'[g] \subseteq open[g] /\ up'[g] \subseteq up[g]
                           /\ url'[g] => url[g]
                           /\ executing'[g] => executing[g],
           \A g \in Gens : /\ "api" \in up'[g] => "api" \in open'[g]
                           /\ "edge" \in up'[g] => "edge" \in open'[g]
                           /\ url'[g] => "edge" \in open'[g]
    PROVE  OwnInv'
<1>1. installed \subseteq Gens
  BY DEF TypeOK, ProcessOK
<1>2. \A g \in installed \ {gen} : /\ open[g] = {} /\ up[g] = {} /\ workers[g] = "none"
                                   /\ ~executing[g] /\ ~url[g]
  BY DEF OwnInv, DroppedOwnsNothing
<1>3. \A g \in installed \ {gen} : open'[g] = {} /\ up'[g] = {}
  BY <1>1, <1>2
<1>4. DroppedOwnsNothing'
  BY <1>1, <1>2, <1>3 DEF DroppedOwnsNothing
<1>5. \A g \in Gens : created < g => up'[g] = {} /\ ~url'[g]
  BY DEF OwnInv
<1> QED
  BY <1>4, <1>5 DEF OwnInv

\* api.Shutdown keeps OwnInv and PcInv.
LEMMA TearStopAPIOwn ==
    ASSUME TypeOK, OwnInv, PcInv, TearStopAPI
    PROVE  OwnInv' /\ PcInv'
<1>1. /\ pc = "stopAPI" /\ pc' = "stopEdge"
      /\ UNCHANGED <<gen, created, installed, target, reason, workers, executing, url>>
  BY DEF TearStopAPI, tearFrame, ownVars
<1>2. \/ /\ open' = [open EXCEPT ![target] = @ \ {"api"}]
         /\ up' = [up EXCEPT ![target] = @ \ {"api"}]
      \/ open' = open /\ up' = up
  BY Zenon DEF TearStopAPI
<1>3. open \in [Gens -> SUBSET Resource] /\ up \in [Gens -> SUBSET Component]
  BY DEF TypeOK, GensOK
<1>4. \A g \in Gens : open'[g] \subseteq open[g] /\ up'[g] \subseteq up[g]
  BY <1>2, <1>3
<1>5. \A g \in Gens : /\ "edge" \in open[g] => "edge" \in open'[g]
                      /\ "workers" \in open[g] => "workers" \in open'[g]
                      /\ "api" \in up'[g] => "api" \in open[g] /\ "api" \in open'[g]
                      /\ "edge" \in up'[g] => "edge" \in open[g]
                      /\ url[g] => "edge" \in open[g]
  BY <1>2, <1>3 DEF OwnInv
<1>6. OwnInv'
  BY <1>1, <1>4, <1>5, ShrinkOwn DEF TearStep
<1>7. /\ target \in Gens /\ "heartbeat" \notin up[target] /\ "workers" \in open[target]
      /\ IF reason = "generation_create_failed" THEN target \notin installed ELSE target = gen
  BY <1>1 DEF PcInv, TearStep, TypeOK, HolderOK, Gens
<1>8. target' # 0 /\ "heartbeat" \notin up'[target] /\ "workers" \in open'[target]
  BY <1>1, <1>4, <1>5, <1>7 DEF Gens
<1>9. PcInv'
  BY <1>1, <1>7, <1>8 DEF PcInv, ActStep, TearStep
<1> QED
  BY <1>6, <1>9

\* edge.Stop and edge.Close keep OwnInv and PcInv.
LEMMA TearStopEdgeOwn ==
    ASSUME TypeOK, OwnInv, PcInv, TearStopEdge
    PROVE  OwnInv' /\ PcInv'
<1>1. /\ pc = "stopEdge" /\ pc' = "waitWorkers"
      /\ UNCHANGED <<gen, created, installed, target, reason, workers, executing>>
  BY DEF TearStopEdge, tearFrame, ownVars
<1>2. \/ /\ open' = [open EXCEPT ![target] = @ \ {"edge"}]
         /\ up' = [up EXCEPT ![target] = @ \ {"edge"}]
         /\ url' = IF "edge" \in open[target] THEN [url EXCEPT ![target] = FALSE] ELSE url
      \/ /\ open' = open
         /\ up' = [up EXCEPT ![target] = @ \ {"edge"}]
         /\ url' = [url EXCEPT ![target] = FALSE]
      \/ open' = open /\ up' = up /\ url' = url
  BY Zenon DEF TearStopEdge
<1>3. /\ open \in [Gens -> SUBSET Resource] /\ up \in [Gens -> SUBSET Component]
      /\ url \in [Gens -> BOOLEAN]
  BY DEF TypeOK, GensOK
<1>4. \A g \in Gens : /\ "edge" \in up[g] => "edge" \in open[g]
                      /\ "api" \in up[g] => "api" \in open[g]
                      /\ url[g] => "edge" \in open[g]
  BY DEF OwnInv
<1>5. \A g \in Gens : open'[g] \subseteq open[g] /\ up'[g] \subseteq up[g] /\ (url'[g] => url[g])
  BY <1>2, <1>3
<1>6. \A g \in Gens : /\ "workers" \in open[g] => "workers" \in open'[g]
                      /\ "api" \in up'[g] => "api" \in open'[g]
                      /\ "edge" \in up'[g] => "edge" \in open'[g]
  BY <1>2, <1>3, <1>4
<1>7. \A g \in Gens : url'[g] => "edge" \in open'[g]
  BY <1>2, <1>3, <1>4
<1>8. OwnInv'
  BY <1>1, <1>5, <1>6, <1>7, ShrinkOwn DEF TearStep
<1>9. /\ target \in Gens /\ "heartbeat" \notin up[target] /\ "workers" \in open[target]
      /\ IF reason = "generation_create_failed" THEN target \notin installed ELSE target = gen
  BY <1>1 DEF PcInv, TearStep, TypeOK, HolderOK, Gens
<1>10. target' # 0 /\ "heartbeat" \notin up'[target] /\ "workers" \in open'[target]
  BY <1>1, <1>5, <1>6, <1>9 DEF Gens
<1>11. PcInv'
  BY <1>1, <1>9, <1>10 DEF PcInv, ActStep, TearStep
<1> QED
  BY <1>8, <1>11

\* Releasing the telemetry and the context keeps OwnInv and PcInv.
LEMMA TearReleaseOwn ==
    ASSUME TypeOK, OwnInv, PcInv, TearRelease
    PROVE  OwnInv' /\ PcInv'
<1>1. /\ pc = "release" /\ pc' = "tornDown"
      /\ UNCHANGED <<gen, created, installed, target, reason, up, workers, url>>
  BY DEF TearRelease, tearFrame, ownVars
<1>2. \/ open' = [open EXCEPT ![target] = @ \ {"otel", "ctx"}]
      \/ open' = [open EXCEPT ![target] = @ \ {"ctx"}]
  BY Zenon DEF TearRelease
<1>3. executing' = [executing EXCEPT ![target] = FALSE]
  BY Zenon DEF TearRelease
<1>4. open \in [Gens -> SUBSET Resource] /\ executing \in [Gens -> BOOLEAN]
  BY DEF TypeOK, GensOK
<1>5. \A g \in Gens : open'[g] \subseteq open[g] /\ (executing'[g] <=> executing[g] /\ g # target)
  BY <1>2, <1>3, <1>4
<1>6. \A g \in Gens : /\ "api" \in open[g] => "api" \in open'[g]
                      /\ "edge" \in open[g] => "edge" \in open'[g]
                      /\ "workers" \in open[g] => "workers" \in open'[g]
  BY <1>2, <1>4
<1>7. \A g \in Gens : /\ "api" \in up[g] => "api" \in open'[g]
                      /\ "edge" \in up[g] => "edge" \in open'[g]
                      /\ url[g] => "edge" \in open'[g]
  BY <1>6 DEF OwnInv
<1>8. OwnInv'
  BY <1>1, <1>5, <1>7, ShrinkOwn DEF TearStep
<1>9. /\ target \in Gens /\ "heartbeat" \notin up[target]
      /\ "workers" \in open[target] \/ "api" \in open[target] \/ workers[target] = "none"
      /\ IF reason = "generation_create_failed" THEN target \notin installed ELSE target = gen
  BY <1>1 DEF PcInv, TearStep, TypeOK, HolderOK, Gens
<1>10. /\ target' # 0 /\ ~executing'[target]
       /\ "workers" \in open'[target] \/ "api" \in open'[target] \/ workers'[target] = "none"
  BY <1>1, <1>5, <1>6, <1>9 DEF Gens
<1>11. PcInv'
  BY <1>1, <1>9, <1>10 DEF PcInv, ActStep, TearStep
<1> QED
  BY <1>8, <1>11

\* A clean generation owns nothing when its teardown has ended.
LEMMA CleanOwnsNothing ==
    ASSUME TypeOK, OwnInv, PcInv, pc = "tornDown", open[target] = {}
    PROVE  /\ target \in Gens /\ up[target] = {} /\ workers[target] = "none"
           /\ ~executing[target] /\ ~url[target]
<1>1. /\ target \in Gens /\ "heartbeat" \notin up[target] /\ ~executing[target]
      /\ "workers" \in open[target] \/ "api" \in open[target] \/ workers[target] = "none"
  BY DEF PcInv, TearStep, TypeOK, HolderOK, Gens
<1>2. "api" \notin up[target] /\ "edge" \notin up[target] /\ ~url[target]
  BY <1>1 DEF OwnInv
<1>3. up[target] \subseteq {"api", "edge", "heartbeat"}
  BY <1>1 DEF TypeOK, GensOK, Component
<1>4. \A c : c \notin up[target]
  BY <1>1, <1>2, <1>3
<1> QED
  BY <1>1, <1>2, <1>4

\* Every step preserves OwnInv and PcInv.
LEMMA OwnInvNext == TypeInv /\ OwnInv /\ PcInv /\ [Next]_vars => OwnInv' /\ PcInv'
<1> SUFFICES ASSUME TypeInv, OwnInv, PcInv, [Next]_vars PROVE OwnInv' /\ PcInv'
  OBVIOUS
<1>a. TypeInv'
  BY TypeInvNext
<1> USE BoundsAssumption
<1> USE DEF OwnInv, PcInv, TypeInv, TypeOK, ProcessOK, HolderOK, GensOK,
            DroppedOwnsNothing, Continuation, WillCreate, Gens, St, State, Desired,
            Actual, Pc, ActStep, TearStep, Kind, OpKind, Reason, Resource, Component,
            stateVars, ownVars, procVars, localVars, holderVars, watchVars, genVars,
            tearFrame, CanBegin, CanBeginOp
<1>1. CASE Return
  BY <1>1, <1>a DEF Return, IdleHolder
<1>2. CASE TearPause
  BY <1>2, <1>a DEF TearPause, Pause
<1>3. CASE TearStopWorkers
  BY <1>3, <1>a DEF TearStopWorkers, StopWorkers
<1>4. CASE TearStopAPI
  BY <1>4, TearStopAPIOwn DEF TypeInv
<1>5. CASE TearStopEdge
  BY <1>5, TearStopEdgeOwn DEF TypeInv
<1>6. CASE TearWaitWorkers
  <2>1. \/ /\ open' = [open EXCEPT ![target] = @ \ {"workers"}]
           /\ workers' = IF "workers" \in open[target] THEN [workers EXCEPT ![target] = "none"]
                         ELSE workers
        \/ open' = open /\ workers' = workers
    BY <1>6, Zenon DEF TearWaitWorkers, WaitAll
  <2>2. /\ pc = "waitWorkers" /\ pc' = "release"
        /\ UNCHANGED <<tearFrame, up, executing, url>>
    BY <1>6, Zenon DEF TearWaitWorkers
  <2>3. target \in Gens /\ \A g \in installed \ {gen} : g # target
    BY <2>2
  <2>a. \A g \in Gens : /\ open'[g] \subseteq open[g] /\ open[g] \ {"workers"} \subseteq open'[g]
                        /\ g # target => open'[g] = open[g] /\ workers'[g] = workers[g]
    <3>1. CASE open' = [open EXCEPT ![target] = @ \ {"workers"}]
      BY <2>1, <2>3, <3>1
    <3>2. CASE open' = open /\ workers' = workers
      BY <3>2
    <3> QED
      BY <2>1, <3>1, <3>2
  <2>b. /\ gen' = gen /\ installed' = installed /\ created' = created
        /\ up' = up /\ url' = url /\ executing' = executing
    BY <2>2
  <2>4. OwnInv'
    BY <2>3, <2>a, <2>b
  <2>5. PcInv'
    BY <2>1, <2>2, <2>3
  <2> QED
    BY <2>4, <2>5
<1>7. CASE TearRelease
  BY <1>7, TearReleaseOwn DEF TypeInv
<1>8. CASE TornDown
  <2>1. /\ pc = "tornDown" /\ UNCHANGED <<created, installed, genVars>>
        /\ gen' = gen \/ (gen' = 0 /\ reason # "generation_create_failed" /\ open[target] = {})
    BY <1>8 DEF TornDown, Drop, Clean
  <2>2. \/ pc' = "load" /\ gen' = 0
        \/ pc' = "save" /\ cont' \in {<<"done", "done">>, <<"started", "restore">>,
                                     <<"started", "restartFailed">>}
        \/ pc' = "save" /\ cont' = <<"create", "reconcileFailed">> /\ gen' = 0
    BY <1>8 DEF TornDown, Drop, Clean, fail, updateState, startLocked, ReconcileFresh
  <2>3. OwnInv'
    <3>1. CASE gen' = gen
      BY <2>1, <3>1
    <3>2. CASE gen' = 0 /\ gen # 0
      <4>1. target = gen /\ open[gen] = {} /\ gen \in Gens
        BY <2>1, <3>2
      <4>2. up[gen] = {} /\ workers[gen] = "none" /\ ~executing[gen] /\ ~url[gen]
        BY <2>1, <4>1, CleanOwnsNothing
      <4> QED
        BY <2>1, <3>2, <4>1, <4>2
    <3> QED
      BY <2>1, <3>1, <3>2
  <2>4. PcInv'
    BY <2>2
  <2> QED
    BY <2>3, <2>4
<1>9. CASE Restore
  BY <1>9, <1>a DEF Restore
<1>10. CASE RestartFailed
  BY <1>10, <1>a DEF RestartFailed, fail, updateState
<1>11. CASE Started
  BY <1>11, <1>a DEF Started, updateState, BeginTeardown
<1>12. CASE LoadConfig
  BY <1>12, <1>a DEF LoadConfig, fail, updateState
<1>13. CASE newGeneration
  <2>1. /\ pc = "create" /\ gen = 0 /\ created' = created + 1 /\ target' = created'
        /\ created < MaxGenerations /\ created \in Nat
        /\ UNCHANGED <<up, workers, executing, url>>
    BY <1>13 DEF newGeneration
  <2>2. \/ /\ pc' = "api" /\ gen' = created' /\ installed' = installed \cup {created'}
           /\ open' = [open EXCEPT ![created'] = Telemetry \cup {"ctx", "api", "edge"}]
        \/ /\ pc' = "pause" /\ reason' = "generation_create_failed"
           /\ UNCHANGED <<gen, installed>>
           /\ \E acquired \in SUBSET Resource : open' = [open EXCEPT ![created'] = acquired]
    <3>1. \A acquired \in {{"ctx"}, Telemetry \cup {"ctx"}, Telemetry \cup {"ctx", "api"}} :
             acquired \in SUBSET Resource
      BY DEF Telemetry
    <3> HIDE DEF Resource
    <3> QED
      BY <1>13, <3>1, Zenon DEF newGeneration, BeginTeardown
  <2>3. created' \in Gens /\ created' \notin installed /\ up[created'] = {} /\ ~url[created']
    BY <2>1
  <2> QED
    BY <1>a, <2>1, <2>2, <2>3
<1>14. CASE Activated
  BY <1>14, <1>a DEF Activated, updateState
<1>15. CASE monitorGeneration
  BY <1>15, <1>a DEF monitorGeneration
<1>16. CASE rollback
  BY <1>16, <1>a DEF rollback, BeginTeardown
<1>17. CASE StopGen
  BY <1>17, <1>a DEF StopGen, updateState, BeginTeardown
<1>18. CASE RestartGen
  BY <1>18, <1>a DEF RestartGen, updateState, BeginTeardown, startLocked
<1>19. CASE ReconcileGen
  BY <1>19, <1>a DEF ReconcileGen, updateState, BeginTeardown, ReconcileFresh
<1>20. CASE ReconcileFailed
  BY <1>20, <1>a DEF ReconcileFailed, fail, updateState
<1>21. CASE CloseGen
  BY <1>21, <1>a DEF CloseGen, updateState, BeginTeardown
<1>22. CASE Start
  BY <1>22, <1>a DEF Start, startLocked, updateState
<1>23. CASE Stop
  BY <1>23, <1>a DEF Stop, updateState
<1>24. CASE Restart
  BY <1>24, <1>a DEF Restart, updateState
<1>25. CASE Reconcile
  BY <1>25, <1>a DEF Reconcile
<1>26. CASE Close
  BY <1>26, <1>a DEF Close
<1>27. CASE RequestStart
  BY <1>27, <1>a DEF RequestStart
<1>28. CASE Boot
  BY <1>28, <1>a DEF Boot, Load
<1>29. CASE SaveConfig
  BY <1>29, <1>a DEF SaveConfig
<1>30. CASE CancelContext
  BY <1>30, <1>a DEF CancelContext
<1>31. CASE ProcessEnds
  BY <1>31, <1>a DEF ProcessEnds, IdleHolder, FreshGenerations
<1>32. ASSUME NEW ok \in BOOLEAN, Save(ok) PROVE OwnInv' /\ PcInv'
  BY <1>32, <1>a DEF Save
<1>33. ASSUME NEW ok \in BOOLEAN, RequestSave(ok) PROVE OwnInv' /\ PcInv'
  BY <1>33, <1>a DEF RequestSave
<1>34. ASSUME NEW step \in ActStep, activate(step) PROVE OwnInv' /\ PcInv'
  BY <1>34, <1>a DEF activate, StepEffect, Brings, NextStep
<1>35. ASSUME NEW g \in Gens, MonitorNotified(g) PROVE OwnInv' /\ PcInv'
  BY <1>35, <1>a DEF MonitorNotified
<1>36. ASSUME NEW g \in Gens, MonitorEnds(g) PROVE OwnInv' /\ PcInv'
  BY <1>36, <1>a DEF MonitorEnds
<1>37. ASSUME NEW g \in Gens, handleGenerationFailure(g) PROVE OwnInv' /\ PcInv'
  <2>1. /\ UNCHANGED <<stateVars, ownVars, cont, open, up, workers, executing, url>>
        /\ pc = "idle"
        /\ \/ pc' = pc
           \/ pc' = "pause" /\ target' = g /\ reason' = "component_failed" /\ gen = g
    BY <1>37, Zenon DEF handleGenerationFailure, IsStale, BeginTeardown
  <2> QED
    BY <1>a, <2>1
<1>38. ASSUME NEW g \in Gens, watchFailureSource(g) PROVE OwnInv' /\ PcInv'
  BY <1>38, <1>a DEF watchFailureSource
<1>39. ASSUME NEW g \in Gens, APIStartsWorker(g) PROVE OwnInv' /\ PcInv'
  BY <1>39, <1>a DEF APIStartsWorker
<1>40. ASSUME NEW g \in Gens, WorkersEnd(g) PROVE OwnInv' /\ PcInv'
  BY <1>40, <1>a DEF WorkersEnd
<1>41. CASE UNCHANGED vars
  BY <1>41, <1>a DEF vars
<1> HIDE DEF OwnInv, PcInv, TypeInv, TypeOK, ProcessOK, HolderOK, GensOK,
            DroppedOwnsNothing, Continuation, WillCreate, Gens, St, State, Desired,
            Actual, Pc, ActStep, TearStep, Kind, OpKind, Reason, Resource, Component,
            stateVars, ownVars, procVars, localVars, holderVars, watchVars, genVars,
            tearFrame, CanBegin, CanBeginOp
<1> QED
  BY <1>1, <1>2, <1>3, <1>4, <1>5, <1>6, <1>7, <1>8, <1>9, <1>10, <1>11, <1>12, <1>13,
     <1>14, <1>15, <1>16, <1>17, <1>18, <1>19, <1>20, <1>21, <1>22, <1>23, <1>24, <1>25,
     <1>26, <1>27, <1>28, <1>29, <1>30, <1>31, <1>32, <1>33, <1>34, <1>35, <1>36, <1>37,
     <1>38, <1>39, <1>40, <1>41, Zenon
   DEF Next, HolderStep, MonitorStep

\* In every behaviour, a generation that setGeneration has replaced by nil has
\* no resource open, no component up, no worker, no URL, and does not execute,
\* also when requests start workers during its teardown (supervisor.go,
\* teardownGeneration and its callers).
THEOREM NothingLeaks == Spec => []DroppedOwnsNothing
<1>1. Init => TypeInv /\ OwnInv /\ PcInv
  <2>1. Init => OwnInv /\ PcInv
    BY DEF Init, OwnInv, PcInv, DroppedOwnsNothing, ActStep, TearStep
  <2> QED
    BY <2>1, TypeInvInit
<1>2. TypeInv /\ OwnInv /\ PcInv /\ [Next]_vars => (TypeInv /\ OwnInv /\ PcInv)'
  BY TypeInvNext, OwnInvNext
<1>3. OwnInv => DroppedOwnsNothing
  BY DEF OwnInv
<1> QED
  BY <1>1, <1>2, <1>3, PTL DEF Spec

-----------------------------------------------------------------------------
(* The state that is reported, stored and told to Credimi                  *)

\* The holder is about to return, or will be when its save ends.
Ending == pc = "done" \/ (pc = "save" /\ cont = <<"done", "done">>)

\* The holder will construct and activate a generation.
Activating == pc \in ActStep \cup {"activated", "armMonitor"}
              \/ (pc = "save" /\ cont[1] = "armMonitor")

\* Which steps, reasons and desired states the operations go with.
KindInv ==
    /\ app = "down" => pc = "idle"
    /\ pc = "idle" => target = 0 /\ kind = "stop" /\ ~failed
    /\ pc \notin TearStep \ {"pause"} => ~remoteErr
    /\ (kind = "stop" /\ pc # "idle") =>
          /\ pc \in {"stopGen", "done"} \cup TearStep
             \/ (pc = "save" /\ cont \in {<<"stopGen", "stopGen">>, <<"done", "done">>})
          /\ pc \in TearStep => reason = "runtime_stop"
          /\ mem.desired = "stopped"
          /\ pc = "save" => saving = "stopped"
          /\ (pc = "stopGen" \/ (pc = "save" /\ cont[1] = "stopGen")) => target = 0
    /\ kind = "close" =>
          /\ pc \in {"closeGen"} \cup TearStep \/ Ending
          /\ pc \in TearStep => reason = "service_shutdown"
          /\ pc = "save" => saving = want
    /\ kind = "failure" =>
          /\ pc \in TearStep \/ Ending
          /\ pc \in TearStep => reason = "component_failed"
    /\ (kind = "reconcile" /\ want = "stopped") =>
          /\ pc \in {"reconcileGen"} \cup TearStep \/ Ending
          /\ pc \in TearStep => reason = "config_reconcile"
    /\ kind = "reconcile" =>
          /\ pc \notin {"started", "load", "restore"}
          /\ pc = "save" => cont[1] \notin {"started", "restartGen"} /\ saving = want
          /\ (pc \in TearStep => reason # "start_cleanup")
          /\ mem.desired = want
    /\ (pc = "stopGen" \/ (pc = "save" /\ cont[1] = "stopGen")
         \/ (pc \in TearStep /\ reason = "runtime_stop")) => kind = "stop"
    /\ (pc = "reconcileGen" \/ (pc = "save" /\ cont[1] = "create")) => kind = "reconcile"
    /\ (pc \in TearStep /\ reason = "config_reconcile") => kind = "reconcile"
    /\ (pc \in TearStep /\ reason = "runtime_restart") => kind = "restart"
    /\ (pc = "restartGen" \/ (pc = "save" /\ cont[1] = "restartGen")) => kind = "restart"
    /\ (pc = "started" \/ (pc = "save" /\ cont[1] = "started")) => mem.desired = "running"

\* An executing generation is the current one and its context has not ended;
\* outside its activation and its teardown all of it is up and watched.
ExecInv ==
    /\ app = "down" => gen = 0
    /\ \A g \in Gens : executing[g] => g = gen /\ "ctx" \in open[g]
    /\ (pc \in {"restartFailed", "reconcileFailed"}
         \/ (pc = "save" /\ cont[2] = "restartFailed")
         \/ (pc \in TearStep /\ reason = "generation_create_failed")) => gen = 0
    /\ pc \in ActStep => ~executing[gen] /\ "ctx" \in open[gen]
    /\ pc \in ActStep \ {"api"} => "api" \in up[gen]
    /\ pc \in ActStep \ {"api", "edge"} => "edge" \in up[gen]
    /\ pc \in {"workers", "resume", "heartbeat", "loop"} => registered[gen]
    /\ (Activating /\ pc \notin ActStep) =>
          executing[gen] /\ up[gen] = Component /\ registered[gen]
    /\ (gen # 0 /\ executing[gen] /\ ~Activating /\ pc \notin TearStep \cup {"rollback"}) =>
          /\ up[gen] = Component /\ registered[gen]
          /\ monitor[gen] \in {"watching", "notified"}

\* The state st says whether a generation executes.
Tells(st) ==
    /\ st.actual \notin {"starting", "stopping"}
    /\ st.actual = "running" <=> (gen # 0 /\ executing[gen])
    /\ st.actual = "running" => st.desired = "running"

\* Memory tells the truth when the holder returns; so does the state that a
\* start or a restart goes back to.
TruthInv ==
    /\ (pc = "idle" \/ Ending) => Tells(mem)
    /\ (pc = "restore" \/ (pc = "save" /\ cont[2] = "restore")) => Tells(prev)
    /\ (pc = "armMonitor" \/ (pc = "save" /\ cont[1] = "armMonitor")) =>
          mem = St("running", "running")

\* What becomes of a Stop: the file and Credimi follow unless it fails, and
\* nothing brings a start back.
StopInv ==
    /\ StopIsDurable /\ StopPausesRemote
    /\ reqSaving # "none" => stopAck = "no" /\ (pc = "idle" \/ kind \notin OpKind)
    /\ (stopAck # "no" /\ pc # "idle") =>
          kind = "stop" \/ (kind \in {"reconcile", "close"} /\ want = "stopped")
    /\ (kind = "stop" /\ pc # "idle" /\ ~failed) =>
          /\ disk = "stopped" \/ (pc = "save" /\ cont[1] = "stopGen")
          /\ (target # 0 /\ registered[target] /\ pc # "pause" /\ ~remoteErr) =>
                remote = "paused"

\* After Close nothing executes, and no activation gets past its registration.
CloseInv ==
    /\ NothingExecutesAfterClose
    /\ app = "closed" => pc \notin {"workers", "resume", "heartbeat", "loop"}
    /\ (kind = "close" /\ Ending) => \A g \in Gens : ~executing[g]

\* Every step preserves KindInv.
LEMMA KindInvNext == TypeInv /\ KindInv /\ [Next]_vars => KindInv'
<1> SUFFICES ASSUME TypeInv, KindInv, [Next]_vars PROVE KindInv'
  OBVIOUS
<1> USE DEF KindInv, Ending, TypeInv, TypeOK, ProcessOK, HolderOK, Continuation, St,
            State, Desired, Actual, Pc, ActStep, TearStep, Kind, OpKind, OpFree,
            stateVars, ownVars, procVars, localVars, holderVars, watchVars, genVars,
            tearFrame, CanBegin, CanBeginOp
<1>1. CASE Return
  BY <1>1 DEF Return, IdleHolder
<1>2. CASE TearPause
  BY <1>2 DEF TearPause, Pause
<1>3. CASE TearStopWorkers
  BY <1>3 DEF TearStopWorkers, StopWorkers
<1>4. CASE TearStopAPI
  BY <1>4 DEF TearStopAPI
<1>5. CASE TearStopEdge
  BY <1>5 DEF TearStopEdge
<1>6. CASE TearWaitWorkers
  BY <1>6 DEF TearWaitWorkers, WaitAll
<1>7. CASE TearRelease
  BY <1>7 DEF TearRelease
<1>8. CASE TornDown
  <2> USE DEF Reason, GensOK
  <2>1. pc = "tornDown" /\ UNCHANGED <<procVars, kind, want>> /\ reason \in Reason
    BY <1>8 DEF TornDown
  <2>2. target' = IF kind = "stop" THEN target ELSE 0
    BY <1>8 DEF TornDown
  <2>3. CASE reason = "start_cleanup"
    BY <1>8, <2>1, <2>2, <2>3 DEF TornDown, Drop, fail, updateState
  <2>4. CASE reason = "generation_create_failed"
    BY <1>8, <2>1, <2>2, <2>4 DEF TornDown, fail, updateState
  <2>5. CASE reason \in {"start_failed", "component_failed"}
    BY <1>8, <2>1, <2>2, <2>5 DEF TornDown, Drop, fail, updateState
  <2>6. CASE reason = "runtime_stop"
    BY <1>8, <2>1, <2>2, <2>6 DEF TornDown, Drop, updateState
  <2>7. CASE reason = "runtime_restart"
    BY <1>8, <2>1, <2>2, <2>7 DEF TornDown, Drop, fail, updateState, startLocked
  <2>8. CASE reason = "config_reconcile"
    BY <1>8, <2>1, <2>2, <2>8 DEF TornDown, Drop, fail, updateState, ReconcileFresh
  <2>9. CASE reason = "service_shutdown"
    BY <1>8, <2>1, <2>2, <2>9 DEF TornDown, Drop, updateState
  <2> QED
    BY <1>8, <2>1, <2>3, <2>4, <2>5, <2>6, <2>7, <2>8, <2>9 DEF TornDown
<1>9. CASE Restore
  BY <1>9 DEF Restore
<1>10. CASE RestartFailed
  BY <1>10 DEF RestartFailed, fail, updateState
<1>11. CASE Started
  BY <1>11 DEF Started, updateState, BeginTeardown
<1>12. CASE LoadConfig
  BY <1>12 DEF LoadConfig, fail, updateState
<1>13. CASE newGeneration
  BY <1>13 DEF newGeneration, BeginTeardown
<1>14. CASE Activated
  BY <1>14 DEF Activated, updateState
<1>15. CASE monitorGeneration
  BY <1>15 DEF monitorGeneration
<1>16. CASE rollback
  BY <1>16 DEF rollback, BeginTeardown
<1>17. CASE StopGen
  BY <1>17 DEF StopGen, updateState, BeginTeardown
<1>18. CASE RestartGen
  BY <1>18 DEF RestartGen, updateState, BeginTeardown, startLocked
<1>19. CASE ReconcileGen
  BY <1>19 DEF ReconcileGen, updateState, BeginTeardown, ReconcileFresh
<1>20. CASE ReconcileFailed
  BY <1>20 DEF ReconcileFailed, fail, updateState
<1>21. CASE CloseGen
  BY <1>21 DEF CloseGen, updateState, BeginTeardown
<1>22. CASE Start
  BY <1>22 DEF Start, startLocked, updateState
<1>23. CASE Stop
  BY <1>23 DEF Stop, updateState
<1>24. CASE Restart
  BY <1>24 DEF Restart, updateState
<1>25. CASE Reconcile
  BY <1>25 DEF Reconcile
<1>26. CASE Close
  BY <1>26 DEF Close
<1>27. CASE RequestStart
  BY <1>27 DEF RequestStart
<1>28. CASE Boot
  BY <1>28 DEF Boot, Load
<1>29. CASE SaveConfig
  BY <1>29 DEF SaveConfig
<1>30. CASE CancelContext
  BY <1>30 DEF CancelContext
<1>31. CASE ProcessEnds
  BY <1>31 DEF ProcessEnds, IdleHolder, FreshGenerations
<1>32. ASSUME NEW ok \in BOOLEAN, Save(ok) PROVE KindInv'
  BY <1>32 DEF Save
<1>33. ASSUME NEW ok \in BOOLEAN, RequestSave(ok) PROVE KindInv'
  BY <1>33 DEF RequestSave
<1>34. ASSUME NEW step \in ActStep, activate(step) PROVE KindInv'
  BY <1>34 DEF activate, StepEffect, Brings, NextStep
<1>35. ASSUME NEW g \in Gens, MonitorNotified(g) PROVE KindInv'
  BY <1>35 DEF MonitorNotified
<1>36. ASSUME NEW g \in Gens, MonitorEnds(g) PROVE KindInv'
  BY <1>36 DEF MonitorEnds
<1>37. ASSUME NEW g \in Gens, handleGenerationFailure(g) PROVE KindInv'
  BY <1>37 DEF handleGenerationFailure, BeginTeardown
<1>38. ASSUME NEW g \in Gens, watchFailureSource(g) PROVE KindInv'
  BY <1>38 DEF watchFailureSource
<1>39. ASSUME NEW g \in Gens, APIStartsWorker(g) PROVE KindInv'
  BY <1>39 DEF APIStartsWorker
<1>40. ASSUME NEW g \in Gens, WorkersEnd(g) PROVE KindInv'
  BY <1>40 DEF WorkersEnd
<1>41. CASE UNCHANGED vars
  BY <1>41 DEF vars
<1> HIDE DEF KindInv, Ending, TypeInv, TypeOK, ProcessOK, HolderOK, Continuation, St,
             State, Desired, Actual, Pc, ActStep, TearStep, Kind, OpKind, OpFree,
             stateVars, ownVars, procVars, localVars, holderVars, watchVars, genVars,
             tearFrame, CanBegin, CanBeginOp
<1> QED
  BY <1>1, <1>2, <1>3, <1>4, <1>5, <1>6, <1>7, <1>8, <1>9, <1>10, <1>11, <1>12, <1>13,
     <1>14, <1>15, <1>16, <1>17, <1>18, <1>19, <1>20, <1>21, <1>22, <1>23, <1>24, <1>25,
     <1>26, <1>27, <1>28, <1>29, <1>30, <1>31, <1>32, <1>33, <1>34, <1>35, <1>36, <1>37,
     <1>38, <1>39, <1>40, <1>41, Zenon
   DEF Next, HolderStep, MonitorStep

\* Every step preserves ExecInv.
LEMMA ExecInvNext == TypeInv /\ OwnInv /\ PcInv /\ KindInv /\ ExecInv /\ [Next]_vars => ExecInv'
<1> SUFFICES ASSUME TypeInv, OwnInv, PcInv, KindInv, ExecInv, [Next]_vars PROVE ExecInv'
  OBVIOUS
<1> USE BoundsAssumption
<1> USE DEF ExecInv, Activating, OwnInv, PcInv, KindInv, Ending, DroppedOwnsNothing,
            TypeInv, TypeOK, ProcessOK, HolderOK, GensOK, Continuation, Gens, Pc,
            ActStep, TearStep, Kind, OpKind, Reason, Component, stateVars, ownVars,
            procVars, localVars, holderVars, watchVars, genVars, tearFrame, CanBegin,
            CanBeginOp
<1>1. CASE Return
  BY <1>1 DEF Return, IdleHolder
<1>2. CASE TearPause
  BY <1>2 DEF TearPause, Pause
<1>3. CASE TearStopWorkers
  BY <1>3 DEF TearStopWorkers, StopWorkers
<1>4. CASE TearStopAPI
  BY <1>4 DEF TearStopAPI
<1>5. CASE TearStopEdge
  BY <1>5 DEF TearStopEdge
<1>6. CASE TearWaitWorkers
  BY <1>6 DEF TearWaitWorkers, WaitAll
<1>7. CASE TearRelease
  BY <1>7 DEF TearRelease
<1>8. CASE TornDown
  BY <1>8 DEF TornDown, Drop, Clean, fail, updateState, startLocked, ReconcileFresh
<1>9. CASE Restore
  BY <1>9 DEF Restore
<1>10. CASE RestartFailed
  BY <1>10 DEF RestartFailed, fail, updateState
<1>11. CASE Started
  BY <1>11 DEF Started, updateState, BeginTeardown
<1>12. CASE LoadConfig
  BY <1>12 DEF LoadConfig, fail, updateState
<1>13. CASE newGeneration
  <2>1. /\ pc = "create" /\ gen = 0 /\ created' = created + 1 /\ created' \in Gens
        /\ UNCHANGED <<up, executing, registered, monitor, app>>
    BY <1>13 DEF newGeneration, WillCreate
  <2>2. \/ /\ pc' = "api" /\ gen' = created'
           /\ open' = [open EXCEPT ![created'] = Telemetry \cup {"ctx", "api", "edge"}]
        \/ /\ pc' = "pause" /\ reason' = "generation_create_failed" /\ gen' = gen
    BY <1>13, Zenon DEF newGeneration, BeginTeardown
  <2>3. \A g \in Gens : ~executing[g]
    BY <2>1
  <2>4. pc' = "api" => "ctx" \in open'[gen'] /\ ~executing'[gen']
    BY <2>1, <2>2, <2>3
  <2> QED
    BY <2>1, <2>2, <2>3, <2>4
<1>14. CASE Activated
  BY <1>14 DEF Activated, updateState
<1>15. CASE monitorGeneration
  BY <1>15 DEF monitorGeneration
<1>16. CASE rollback
  BY <1>16 DEF rollback, BeginTeardown
<1>17. CASE StopGen
  BY <1>17 DEF StopGen, updateState, BeginTeardown
<1>18. CASE RestartGen
  BY <1>18 DEF RestartGen, updateState, BeginTeardown, startLocked
<1>19. CASE ReconcileGen
  BY <1>19 DEF ReconcileGen, updateState, BeginTeardown, ReconcileFresh
<1>20. CASE ReconcileFailed
  BY <1>20 DEF ReconcileFailed, fail, updateState
<1>21. CASE CloseGen
  BY <1>21 DEF CloseGen, updateState, BeginTeardown
<1>22. CASE Start
  BY <1>22 DEF Start, startLocked, updateState
<1>23. CASE Stop
  BY <1>23 DEF Stop, updateState
<1>24. CASE Restart
  BY <1>24 DEF Restart, updateState
<1>25. CASE Reconcile
  BY <1>25 DEF Reconcile
<1>26. CASE Close
  BY <1>26 DEF Close
<1>27. CASE RequestStart
  BY <1>27 DEF RequestStart
<1>28. CASE Boot
  BY <1>28 DEF Boot, Load
<1>29. CASE SaveConfig
  BY <1>29 DEF SaveConfig
<1>30. CASE CancelContext
  BY <1>30 DEF CancelContext
<1>31. CASE ProcessEnds
  BY <1>31 DEF ProcessEnds, IdleHolder, FreshGenerations
<1>32. ASSUME NEW ok \in BOOLEAN, Save(ok) PROVE ExecInv'
  BY <1>32 DEF Save
<1>33. ASSUME NEW ok \in BOOLEAN, RequestSave(ok) PROVE ExecInv'
  BY <1>33 DEF RequestSave
<1>34. ASSUME NEW step \in ActStep, activate(step) PROVE ExecInv'
  BY <1>34 DEF activate, StepEffect, Brings, NextStep
<1>35. ASSUME NEW g \in Gens, MonitorNotified(g) PROVE ExecInv'
  BY <1>35 DEF MonitorNotified
<1>36. ASSUME NEW g \in Gens, MonitorEnds(g) PROVE ExecInv'
  BY <1>36 DEF MonitorEnds
<1>37. ASSUME NEW g \in Gens, handleGenerationFailure(g) PROVE ExecInv'
  <2>1. /\ UNCHANGED <<stateVars, ownVars, procVars, cont, open, up, registered, executing>>
        /\ pc = "idle" /\ monitor' = [monitor EXCEPT ![g] = "done"]
        /\ \/ pc' = "idle" /\ (gen # g \/ ~executing[g])
           \/ pc' = "pause" /\ reason' = "component_failed"
    BY <1>37, Zenon DEF handleGenerationFailure, IsStale, BeginTeardown
  <2> QED
    BY <2>1
<1>38. ASSUME NEW g \in Gens, watchFailureSource(g) PROVE ExecInv'
  BY <1>38 DEF watchFailureSource
<1>39. ASSUME NEW g \in Gens, APIStartsWorker(g) PROVE ExecInv'
  BY <1>39 DEF APIStartsWorker
<1>40. ASSUME NEW g \in Gens, WorkersEnd(g) PROVE ExecInv'
  BY <1>40 DEF WorkersEnd
<1>41. CASE UNCHANGED vars
  BY <1>41 DEF vars
<1> HIDE DEF ExecInv, Activating, OwnInv, PcInv, KindInv, Ending, DroppedOwnsNothing,
             TypeInv, TypeOK, ProcessOK, HolderOK, GensOK, Continuation, Gens, Pc,
             ActStep, TearStep, Kind, OpKind, Reason, Component, stateVars, ownVars,
             procVars, localVars, holderVars, watchVars, genVars, tearFrame, CanBegin,
             CanBeginOp
<1> QED
  BY <1>1, <1>2, <1>3, <1>4, <1>5, <1>6, <1>7, <1>8, <1>9, <1>10, <1>11, <1>12, <1>13,
     <1>14, <1>15, <1>16, <1>17, <1>18, <1>19, <1>20, <1>21, <1>22, <1>23, <1>24, <1>25,
     <1>26, <1>27, <1>28, <1>29, <1>30, <1>31, <1>32, <1>33, <1>34, <1>35, <1>36, <1>37,
     <1>38, <1>39, <1>40, <1>41, Zenon
   DEF Next, HolderStep, MonitorStep

\* Every step preserves TruthInv.
LEMMA TruthInvNext == TypeInv /\ OwnInv /\ PcInv /\ KindInv /\ ExecInv /\ TruthInv /\ [Next]_vars => TruthInv'
<1> SUFFICES ASSUME TypeInv, OwnInv, PcInv, KindInv, ExecInv, TruthInv, [Next]_vars PROVE TruthInv'
  OBVIOUS
<1> USE BoundsAssumption
<1> USE DEF TruthInv, Tells, OwnInv, PcInv, KindInv, ExecInv, Activating, Ending,
            DroppedOwnsNothing, TypeInv, TypeOK, ProcessOK, HolderOK, GensOK,
            Continuation, Gens, St, State, Desired, Actual, Pc, ActStep, TearStep, Kind,
            OpKind, OpFree, Reason, Component, stateVars, ownVars, procVars, localVars,
            holderVars, watchVars, genVars, tearFrame, CanBegin, CanBeginOp
<1>1. CASE Return
  BY <1>1 DEF Return, IdleHolder
<1>2. CASE TearPause
  BY <1>2 DEF TearPause, Pause
<1>3. CASE TearStopWorkers
  BY <1>3 DEF TearStopWorkers, StopWorkers
<1>4. CASE TearStopAPI
  BY <1>4 DEF TearStopAPI
<1>5. CASE TearStopEdge
  BY <1>5 DEF TearStopEdge
<1>6. CASE TearWaitWorkers
  BY <1>6 DEF TearWaitWorkers, WaitAll
<1>7. CASE TearRelease
  BY <1>7 DEF TearRelease
<1>8. CASE TornDown
  BY <1>8 DEF TornDown, Drop, Clean, fail, updateState, startLocked, ReconcileFresh
<1>9. CASE Restore
  BY <1>9 DEF Restore
<1>10. CASE RestartFailed
  BY <1>10 DEF RestartFailed, fail, updateState
<1>11. CASE Started
  BY <1>11 DEF Started, updateState, BeginTeardown
<1>12. CASE LoadConfig
  BY <1>12 DEF LoadConfig, fail, updateState
<1>13. CASE newGeneration
  BY <1>13 DEF newGeneration, BeginTeardown
<1>14. CASE Activated
  BY <1>14 DEF Activated, updateState
<1>15. CASE monitorGeneration
  BY <1>15 DEF monitorGeneration
<1>16. CASE rollback
  BY <1>16 DEF rollback, BeginTeardown
<1>17. CASE StopGen
  BY <1>17 DEF StopGen, updateState, BeginTeardown
<1>18. CASE RestartGen
  BY <1>18 DEF RestartGen, updateState, BeginTeardown, startLocked
<1>19. CASE ReconcileGen
  BY <1>19 DEF ReconcileGen, updateState, BeginTeardown, ReconcileFresh
<1>20. CASE ReconcileFailed
  BY <1>20 DEF ReconcileFailed, fail, updateState
<1>21. CASE CloseGen
  BY <1>21 DEF CloseGen, updateState, BeginTeardown
<1>22. CASE Start
  BY <1>22 DEF Start, startLocked, updateState
<1>23. CASE Stop
  BY <1>23 DEF Stop, updateState
<1>24. CASE Restart
  BY <1>24 DEF Restart, updateState
<1>25. CASE Reconcile
  BY <1>25 DEF Reconcile
<1>26. CASE Close
  BY <1>26 DEF Close
<1>27. CASE RequestStart
  BY <1>27 DEF RequestStart
<1>28. CASE Boot
  BY <1>28 DEF Boot, Load
<1>29. CASE SaveConfig
  BY <1>29 DEF SaveConfig
<1>30. CASE CancelContext
  BY <1>30 DEF CancelContext
<1>31. CASE ProcessEnds
  BY <1>31 DEF ProcessEnds, IdleHolder, FreshGenerations
<1>32. ASSUME NEW ok \in BOOLEAN, Save(ok) PROVE TruthInv'
  BY <1>32 DEF Save
<1>33. ASSUME NEW ok \in BOOLEAN, RequestSave(ok) PROVE TruthInv'
  BY <1>33 DEF RequestSave
<1>34. ASSUME NEW step \in ActStep, activate(step) PROVE TruthInv'
  BY <1>34 DEF activate, StepEffect, Brings, NextStep
<1>35. ASSUME NEW g \in Gens, MonitorNotified(g) PROVE TruthInv'
  BY <1>35 DEF MonitorNotified
<1>36. ASSUME NEW g \in Gens, MonitorEnds(g) PROVE TruthInv'
  BY <1>36 DEF MonitorEnds
<1>37. ASSUME NEW g \in Gens, handleGenerationFailure(g) PROVE TruthInv'
  BY <1>37 DEF handleGenerationFailure, BeginTeardown
<1>38. ASSUME NEW g \in Gens, watchFailureSource(g) PROVE TruthInv'
  BY <1>38 DEF watchFailureSource
<1>39. ASSUME NEW g \in Gens, APIStartsWorker(g) PROVE TruthInv'
  BY <1>39 DEF APIStartsWorker
<1>40. ASSUME NEW g \in Gens, WorkersEnd(g) PROVE TruthInv'
  BY <1>40 DEF WorkersEnd
<1>41. CASE UNCHANGED vars
  BY <1>41 DEF vars
<1> HIDE DEF TruthInv, Tells, OwnInv, PcInv, KindInv, ExecInv, Activating, Ending,
             DroppedOwnsNothing, TypeInv, TypeOK, ProcessOK, HolderOK, GensOK,
             Continuation, Gens, St, State, Desired, Actual, Pc, ActStep, TearStep,
             Kind, OpKind, OpFree, Reason, Component, stateVars, ownVars, procVars,
             localVars, holderVars, watchVars, genVars, tearFrame, CanBegin, CanBeginOp
<1> QED
  BY <1>1, <1>2, <1>3, <1>4, <1>5, <1>6, <1>7, <1>8, <1>9, <1>10, <1>11, <1>12, <1>13,
     <1>14, <1>15, <1>16, <1>17, <1>18, <1>19, <1>20, <1>21, <1>22, <1>23, <1>24, <1>25,
     <1>26, <1>27, <1>28, <1>29, <1>30, <1>31, <1>32, <1>33, <1>34, <1>35, <1>36, <1>37,
     <1>38, <1>39, <1>40, <1>41, Zenon
   DEF Next, HolderStep, MonitorStep

\* Every step preserves StopInv.
LEMMA StopInvNext == TypeInv /\ OwnInv /\ PcInv /\ KindInv /\ ExecInv /\ TruthInv /\ StopInv /\ [Next]_vars => StopInv'
<1> SUFFICES ASSUME TypeInv, OwnInv, PcInv, KindInv, ExecInv, TruthInv, StopInv, [Next]_vars PROVE StopInv'
  OBVIOUS
<1> USE BoundsAssumption
<1> USE DEF StopInv, StopIsDurable, StopPausesRemote, TruthInv, Tells, OwnInv, PcInv,
            KindInv, ExecInv, Activating, Ending, DroppedOwnsNothing, TypeInv, TypeOK,
            ProcessOK, HolderOK, GensOK, Continuation, Gens, St, State, Desired, Actual,
            Pc, ActStep, TearStep, Kind, OpKind, OpFree, Reason, Component, stateVars,
            ownVars, procVars, localVars, holderVars, watchVars, genVars, tearFrame,
            CanBegin, CanBeginOp
<1>1. CASE Return
  BY <1>1 DEF Return, IdleHolder
<1>2. CASE TearPause
  BY <1>2 DEF TearPause, Pause, Pauses
<1>3. CASE TearStopWorkers
  BY <1>3 DEF TearStopWorkers, StopWorkers
<1>4. CASE TearStopAPI
  BY <1>4 DEF TearStopAPI
<1>5. CASE TearStopEdge
  BY <1>5 DEF TearStopEdge
<1>6. CASE TearWaitWorkers
  BY <1>6 DEF TearWaitWorkers, WaitAll
<1>7. CASE TearRelease
  BY <1>7 DEF TearRelease
<1>8. CASE TornDown
  BY <1>8 DEF TornDown, Drop, Clean, fail, updateState, startLocked, ReconcileFresh
<1>9. CASE Restore
  BY <1>9 DEF Restore
<1>10. CASE RestartFailed
  BY <1>10 DEF RestartFailed, fail, updateState
<1>11. CASE Started
  BY <1>11 DEF Started, updateState, BeginTeardown
<1>12. CASE LoadConfig
  BY <1>12 DEF LoadConfig, fail, updateState
<1>13. CASE newGeneration
  BY <1>13 DEF newGeneration, BeginTeardown
<1>14. CASE Activated
  BY <1>14 DEF Activated, updateState
<1>15. CASE monitorGeneration
  BY <1>15 DEF monitorGeneration
<1>16. CASE rollback
  BY <1>16 DEF rollback, BeginTeardown
<1>17. CASE StopGen
  BY <1>17 DEF StopGen, updateState, BeginTeardown
<1>18. CASE RestartGen
  BY <1>18 DEF RestartGen, updateState, BeginTeardown, startLocked
<1>19. CASE ReconcileGen
  BY <1>19 DEF ReconcileGen, updateState, BeginTeardown, ReconcileFresh
<1>20. CASE ReconcileFailed
  BY <1>20 DEF ReconcileFailed, fail, updateState
<1>21. CASE CloseGen
  BY <1>21 DEF CloseGen, updateState, BeginTeardown
<1>22. CASE Start
  BY <1>22 DEF Start, startLocked, updateState
<1>23. CASE Stop
  BY <1>23 DEF Stop, updateState
<1>24. CASE Restart
  BY <1>24 DEF Restart, updateState
<1>25. CASE Reconcile
  BY <1>25 DEF Reconcile
<1>26. CASE Close
  BY <1>26 DEF Close
<1>27. CASE RequestStart
  BY <1>27 DEF RequestStart
<1>28. CASE Boot
  BY <1>28 DEF Boot, Load
<1>29. CASE SaveConfig
  BY <1>29 DEF SaveConfig
<1>30. CASE CancelContext
  BY <1>30 DEF CancelContext
<1>31. CASE ProcessEnds
  BY <1>31 DEF ProcessEnds, IdleHolder, FreshGenerations
<1>32. ASSUME NEW ok \in BOOLEAN, Save(ok) PROVE StopInv'
  BY <1>32 DEF Save
<1>33. ASSUME NEW ok \in BOOLEAN, RequestSave(ok) PROVE StopInv'
  BY <1>33 DEF RequestSave
<1>34. ASSUME NEW step \in ActStep, activate(step) PROVE StopInv'
  BY <1>34 DEF activate, StepEffect, Brings, NextStep
<1>35. ASSUME NEW g \in Gens, MonitorNotified(g) PROVE StopInv'
  BY <1>35 DEF MonitorNotified
<1>36. ASSUME NEW g \in Gens, MonitorEnds(g) PROVE StopInv'
  BY <1>36 DEF MonitorEnds
<1>37. ASSUME NEW g \in Gens, handleGenerationFailure(g) PROVE StopInv'
  <2>1. /\ UNCHANGED <<stateVars, ownVars, procVars, cont, want, failed, registered, executing,
                      remote, stopAck>>
        /\ pc = "idle"
        /\ \/ UNCHANGED <<pc, kind, target, remoteErr>>
           \/ /\ pc' = "pause" /\ kind' = "failure" /\ gen = g /\ executing[g]
    BY <1>37, Zenon DEF handleGenerationFailure, IsStale, BeginTeardown
  <2> QED
    BY <2>1
<1>38. ASSUME NEW g \in Gens, watchFailureSource(g) PROVE StopInv'
  BY <1>38 DEF watchFailureSource
<1>39. ASSUME NEW g \in Gens, APIStartsWorker(g) PROVE StopInv'
  BY <1>39 DEF APIStartsWorker
<1>40. ASSUME NEW g \in Gens, WorkersEnd(g) PROVE StopInv'
  BY <1>40 DEF WorkersEnd
<1>41. CASE UNCHANGED vars
  BY <1>41 DEF vars
<1> HIDE DEF StopInv, StopIsDurable, StopPausesRemote, TruthInv, Tells, OwnInv, PcInv,
             KindInv, ExecInv, Activating, Ending, DroppedOwnsNothing, TypeInv, TypeOK,
             ProcessOK, HolderOK, GensOK, Continuation, Gens, St, State, Desired,
             Actual, Pc, ActStep, TearStep, Kind, OpKind, OpFree, Reason, Component,
             stateVars, ownVars, procVars, localVars, holderVars, watchVars, genVars,
             tearFrame, CanBegin, CanBeginOp
<1> QED
  BY <1>1, <1>2, <1>3, <1>4, <1>5, <1>6, <1>7, <1>8, <1>9, <1>10, <1>11, <1>12, <1>13,
     <1>14, <1>15, <1>16, <1>17, <1>18, <1>19, <1>20, <1>21, <1>22, <1>23, <1>24, <1>25,
     <1>26, <1>27, <1>28, <1>29, <1>30, <1>31, <1>32, <1>33, <1>34, <1>35, <1>36, <1>37,
     <1>38, <1>39, <1>40, <1>41, Zenon
   DEF Next, HolderStep, MonitorStep

\* Every step preserves CloseInv.
LEMMA CloseInvNext == TypeInv /\ OwnInv /\ PcInv /\ KindInv /\ ExecInv /\ CloseInv /\ [Next]_vars => CloseInv'
<1> SUFFICES ASSUME TypeInv, OwnInv, PcInv, KindInv, ExecInv, CloseInv, [Next]_vars PROVE CloseInv'
  OBVIOUS
<1> USE BoundsAssumption
<1> USE DEF CloseInv, NothingExecutesAfterClose, OwnInv, PcInv, KindInv, ExecInv,
            Activating, Ending, DroppedOwnsNothing, TypeInv, TypeOK, ProcessOK,
            HolderOK, GensOK, Continuation, Gens, St, State, Desired, Actual, Pc,
            ActStep, TearStep, Kind, OpKind, OpFree, Reason, Component, stateVars,
            ownVars, procVars, localVars, holderVars, watchVars, genVars, tearFrame,
            CanBegin, CanBeginOp
<1>1. CASE Return
  BY <1>1 DEF Return, IdleHolder
<1>2. CASE TearPause
  BY <1>2 DEF TearPause, Pause
<1>3. CASE TearStopWorkers
  BY <1>3 DEF TearStopWorkers, StopWorkers
<1>4. CASE TearStopAPI
  BY <1>4 DEF TearStopAPI
<1>5. CASE TearStopEdge
  BY <1>5 DEF TearStopEdge
<1>6. CASE TearWaitWorkers
  BY <1>6 DEF TearWaitWorkers, WaitAll
<1>7. CASE TearRelease
  BY <1>7 DEF TearRelease
<1>8. CASE TornDown
  BY <1>8 DEF TornDown, Drop, Clean, fail, updateState, startLocked, ReconcileFresh
<1>9. CASE Restore
  BY <1>9 DEF Restore
<1>10. CASE RestartFailed
  BY <1>10 DEF RestartFailed, fail, updateState
<1>11. CASE Started
  BY <1>11 DEF Started, updateState, BeginTeardown
<1>12. CASE LoadConfig
  BY <1>12 DEF LoadConfig, fail, updateState
<1>13. CASE newGeneration
  BY <1>13 DEF newGeneration, BeginTeardown
<1>14. CASE Activated
  BY <1>14 DEF Activated, updateState
<1>15. CASE monitorGeneration
  BY <1>15 DEF monitorGeneration
<1>16. CASE rollback
  BY <1>16 DEF rollback, BeginTeardown
<1>17. CASE StopGen
  BY <1>17 DEF StopGen, updateState, BeginTeardown
<1>18. CASE RestartGen
  BY <1>18 DEF RestartGen, updateState, BeginTeardown, startLocked
<1>19. CASE ReconcileGen
  BY <1>19 DEF ReconcileGen, updateState, BeginTeardown, ReconcileFresh
<1>20. CASE ReconcileFailed
  BY <1>20 DEF ReconcileFailed, fail, updateState
<1>21. CASE CloseGen
  BY <1>21 DEF CloseGen, updateState, BeginTeardown
<1>22. CASE Start
  BY <1>22 DEF Start, startLocked, updateState
<1>23. CASE Stop
  BY <1>23 DEF Stop, updateState
<1>24. CASE Restart
  BY <1>24 DEF Restart, updateState
<1>25. CASE Reconcile
  BY <1>25 DEF Reconcile
<1>26. CASE Close
  BY <1>26 DEF Close
<1>27. CASE RequestStart
  BY <1>27 DEF RequestStart
<1>28. CASE Boot
  BY <1>28 DEF Boot, Load
<1>29. CASE SaveConfig
  BY <1>29 DEF SaveConfig
<1>30. CASE CancelContext
  BY <1>30 DEF CancelContext
<1>31. CASE ProcessEnds
  BY <1>31 DEF ProcessEnds, IdleHolder, FreshGenerations
<1>32. ASSUME NEW ok \in BOOLEAN, Save(ok) PROVE CloseInv'
  BY <1>32 DEF Save
<1>33. ASSUME NEW ok \in BOOLEAN, RequestSave(ok) PROVE CloseInv'
  BY <1>33 DEF RequestSave
<1>34. ASSUME NEW step \in ActStep, activate(step) PROVE CloseInv'
  <2>1. /\ UNCHANGED <<stateVars, ownVars, procVars, localVars>>
        /\ pc = step /\ step \in ActStep
        /\ executing' = executing \/ \E b \in BOOLEAN : executing' = [executing EXCEPT ![target] = b /\ step = "loop"]
    BY <1>34, Zenon DEF activate
  <2>2. step = "register" => pc' = "rollback" \/ app = "up"
    BY <1>34, Zenon DEF activate, NeedsContext
  <2>3. step # "register" => pc' \in {"rollback", NextStep[step]}
    BY <1>34, Zenon DEF activate
  <2> QED
    BY <2>1, <2>2, <2>3 DEF NextStep
<1>35. ASSUME NEW g \in Gens, MonitorNotified(g) PROVE CloseInv'
  BY <1>35 DEF MonitorNotified
<1>36. ASSUME NEW g \in Gens, MonitorEnds(g) PROVE CloseInv'
  BY <1>36 DEF MonitorEnds
<1>37. ASSUME NEW g \in Gens, handleGenerationFailure(g) PROVE CloseInv'
  BY <1>37 DEF handleGenerationFailure, BeginTeardown
<1>38. ASSUME NEW g \in Gens, watchFailureSource(g) PROVE CloseInv'
  BY <1>38 DEF watchFailureSource
<1>39. ASSUME NEW g \in Gens, APIStartsWorker(g) PROVE CloseInv'
  BY <1>39 DEF APIStartsWorker
<1>40. ASSUME NEW g \in Gens, WorkersEnd(g) PROVE CloseInv'
  BY <1>40 DEF WorkersEnd
<1>41. CASE UNCHANGED vars
  BY <1>41 DEF vars
<1> HIDE DEF CloseInv, NothingExecutesAfterClose, OwnInv, PcInv, KindInv, ExecInv,
             Activating, Ending, DroppedOwnsNothing, TypeInv, TypeOK, ProcessOK,
             HolderOK, GensOK, Continuation, Gens, St, State, Desired, Actual, Pc,
             ActStep, TearStep, Kind, OpKind, OpFree, Reason, Component, stateVars,
             ownVars, procVars, localVars, holderVars, watchVars, genVars, tearFrame,
             CanBegin, CanBeginOp
<1> QED
  BY <1>1, <1>2, <1>3, <1>4, <1>5, <1>6, <1>7, <1>8, <1>9, <1>10, <1>11, <1>12, <1>13,
     <1>14, <1>15, <1>16, <1>17, <1>18, <1>19, <1>20, <1>21, <1>22, <1>23, <1>24, <1>25,
     <1>26, <1>27, <1>28, <1>29, <1>30, <1>31, <1>32, <1>33, <1>34, <1>35, <1>36, <1>37,
     <1>38, <1>39, <1>40, <1>41, Zenon
   DEF Next, HolderStep, MonitorStep

\* The inductive invariant that the four theorems below rest on.
SupervisorInv ==
    /\ TypeInv /\ OwnInv /\ PcInv
    /\ KindInv /\ ExecInv /\ TruthInv /\ StopInv /\ CloseInv

\* The initial state satisfies SupervisorInv.
LEMMA SupervisorInvInit == Init => SupervisorInv
<1> SUFFICES ASSUME Init PROVE SupervisorInv
  OBVIOUS
<1>1. TypeInv
  BY TypeInvInit
<1>2. OwnInv /\ PcInv
  BY DEF Init, OwnInv, PcInv, DroppedOwnsNothing, ActStep, TearStep
<1>3. KindInv
  BY DEF Init, KindInv, Ending, ActStep, TearStep
<1>4. ExecInv
  BY DEF Init, ExecInv, Activating, ActStep, TearStep
<1>5. TruthInv
  BY DEF Init, TruthInv, Tells, Ending, St
<1>6. StopInv
  BY DEF Init, StopInv, StopIsDurable, StopPausesRemote
<1>7. CloseInv
  BY DEF Init, CloseInv, NothingExecutesAfterClose, Ending
<1> QED
  BY <1>1, <1>2, <1>3, <1>4, <1>5, <1>6, <1>7 DEF SupervisorInv

\* In every behaviour the whole invariant holds.
LEMMA SupervisorInvHolds == Spec => []SupervisorInv
<1>1. Init => SupervisorInv
  BY SupervisorInvInit
<1>2. SupervisorInv /\ [Next]_vars => SupervisorInv'
  BY TypeInvNext, OwnInvNext, KindInvNext, ExecInvNext, TruthInvNext, StopInvNext,
     CloseInvNext
   DEF SupervisorInv
<1> QED
  BY <1>1, <1>2, PTL DEF Spec

\* Whenever transitionMu is free, the reported actual state is "running"
\* exactly when a generation executes, and then that generation is wanted,
\* complete, registered and watched by its monitor (supervisor.go: Status, and
\* the last updateState of every operation).
THEOREM Truthful == Spec => []ActualIsTruthful
<1>1. SupervisorInv => ActualIsTruthful
  <2> SUFFICES ASSUME SupervisorInv, pc = "idle"
               PROVE  ActualIsTruthful
    BY DEF ActualIsTruthful
  <2>1. Tells(mem)
    BY DEF SupervisorInv, TruthInv
  <2>2. (gen # 0 /\ executing[gen]) => /\ up[gen] = Component /\ registered[gen]
                                       /\ monitor[gen] \in {"watching", "notified"}
    BY DEF SupervisorInv, ExecInv, Activating, ActStep, TearStep
  <2> QED
    BY <2>1, <2>2 DEF ActualIsTruthful, Tells
<1> QED
  BY <1>1, SupervisorInvHolds, PTL

\* A Stop that has returned nil stays on disk and in memory until somebody
\* asks for a start: no late failure notification, reconciliation, shutdown,
\* crash or restart of the process revives the runtime (supervisor.go: Stop,
\* handleGenerationFailure, Reconcile, Close and New).
THEOREM StopDurable == Spec => []StopIsDurable
<1>1. SupervisorInv => StopIsDurable
  BY DEF SupervisorInv, StopInv
<1> QED
  BY <1>1, SupervisorInvHolds, PTL

\* A Stop that has torn down a registered generation and returned nil leaves
\* the runner paused at Credimi (supervisor.go: Stop and teardownGeneration).
THEOREM StopPauses == Spec => []StopPausesRemote
<1>1. SupervisorInv => StopPausesRemote
  BY DEF SupervisorInv, StopInv
<1> QED
  BY <1>1, SupervisorInvHolds, PTL

\* Nothing executes once Close has returned, whatever operation is still
\* submitted (supervisor.go: Close, and registerWithRetry's look at the
\* cancelled context).
THEOREM ClosedIsIdle == Spec => []NothingExecutesAfterClose
<1>1. SupervisorInv => NothingExecutesAfterClose
  BY DEF SupervisorInv, CloseInv
<1> QED
  BY <1>1, SupervisorInvHolds, PTL
=============================================================================
