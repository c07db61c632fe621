---------------------- MODULE DurableOperations_proofs ----------------------
(***************************************************************************)
(* Proofs about DurableOperations for every set of operations and          *)
(* workspaces and every value of the limits.                               *)
(***************************************************************************)
EXTENDS DurableOperations, FiniteSetTheorems, NaturalsInduction,
        WellFoundedInduction, TLAPS

(***************************************************************************)
(* The inductive invariant.                                                *)
(***************************************************************************)

\* What the program counters of the runner, the stop and the recovery say of
\* the local variables of those procedures.
ControlInv ==
    /\ phase # "up" => pc = "off" /\ stopPc = "none"
    /\ phase = "up" => pc # "off"
    /\ pc \in {"idle", "claim", "exited", "off"} => cur = None
    /\ pc \in {"idle", "claim", "exited", "off", "prepare", "poll"} =>
          outcome = "NONE"
    /\ pc \in {"publish", "commit", "record"} => outcome = "SUCCEEDED"
    /\ pc \in {"quarantine", "settle", "suppress"} =>
          outcome \in {"INTERRUPTED", "CANCELLED", "TIMED_OUT", "FAILED", "RESCUE"}
    /\ pc = "abandon" => outcome = "RESCUE"
    /\ stopPc \in {"recover", "report", "stopped"} => ~Alive
    /\ rec # None => Recovering /\ rec \in todo

\* Who is responsible for an executing row, and what recovery will find.
RowInv ==
    /\ phase = "up" => InState(Executing) \subseteq {cur}
    /\ phase = "recovering" => InState(Executing) \subseteq todo
    /\ Recovering => \A o \in todo : /\ state[o] \in Executing \cup {"INTERRUPTED"}
                                     /\ artifact[o] # "NOT_STARTED"
    /\ \A o \in Operations : state[o] \in Executing => artifact[o] = "EXECUTING"
    /\ \A o \in Operations :
          state[o] \in {"ABSENT", "QUEUED"} => artifact[o] = "NOT_STARTED"
    /\ \A o \in Operations : state[o] # "ABSENT" => owner[o] \in Workspaces
    /\ \A o \in todo : state[o] # "ABSENT"
    /\ pc \in Active => artifact[cur] \notin {"NOT_STARTED", "QUARANTINED"}
    /\ pc = "record" => state[cur] = "SUCCEEDED" /\ artifact[cur] = "PUBLISHED"

\* A bundle is counted at the very end of an execution.
BundleInv ==
    /\ CountedBundleIsAvailable
    /\ pc \in Active => cur \notin recorded
    /\ pc \in {"commit", "record"} => cur \in run

\* Files agree with rows, also between a quarantine and the row that records it.
FileInv ==
    /\ ArtifactStateIsTrue
    /\ pc = "settle" => ~Material(cur) /\ Sealed(cur)
    /\ rec # None /\ recOk => ~Material(rec) /\ Sealed(rec)

ReceiptInv == interrupted \subseteq InState({"INTERRUPTED"})

-----------------------------------------------------------------------------
(***************************************************************************)
(* Each part of the invariant is kept by every step.                       *)
(***************************************************************************)

\* Every step keeps the types.
LEMMA TypeStep ==
    ASSUME TypeOK, ControlInv, [Next]_vars
    PROVE  TypeOK'
<1> USE DEF TypeOK, rows, files, process, runner, stopping, bounds, Terminal,
    Retryable, Outstanding, Executing, States, ArtifactStates, FailureCodes,
    Outcomes, Active, InState, ControlInv
<1>1. ASSUME NEW o \in Operations, NEW w \in Workspaces, NEW k \in Kinds,
             NEW t \in 0 .. MaxTime, AdmitOperation(o, w, k, t)
      PROVE  TypeOK'
  BY <1>1 DEF AdmitOperation, Enqueue
<1>2. ASSUME NEW old \in Operations, NEW o \in Operations,
             NEW t \in 0 .. MaxTime, RetryOperation(old, o, t)
      PROVE  TypeOK'
  BY <1>2 DEF RetryOperation, Enqueue
<1>3. ASSUME NEW o \in Operations, CancelQueued(o)
      PROVE  TypeOK'
  BY <1>3 DEF CancelQueued
<1>4. ASSUME NEW o \in Operations, CancelRunning(o)
      PROVE  TypeOK'
  BY <1>4 DEF CancelRunning
<1>5. ASSUME NEW o \in Operations, WorkerSealsBundle(o)
      PROVE  TypeOK'
  BY <1>5 DEF WorkerSealsBundle
<1>6. ASSUME NEW o \in Operations, NEW rc \in {"ok", "bad"}, WorkerExits(o, rc)
      PROVE  TypeOK'
  BY <1>6 DEF WorkerExits
<1>7. CASE BeginTurn
  BY <1>7 DEF BeginTurn
<1>8. CASE RunnerExits
  BY <1>8 DEF RunnerExits
<1>9. CASE ClaimNothing
  BY <1>9 DEF ClaimNothing
<1>10. ASSUME NEW o \in Operations, ClaimNextOperation(o)
      PROVE  TypeOK'
  BY <1>10 DEF ClaimNextOperation
<1>11. CASE PrepareExecution
  BY <1>11 DEF PrepareExecution
<1>12. CASE PollStops
  BY <1>12 DEF PollStops, Reaped
<1>13. CASE PollSeesExit
  BY <1>13 DEF PollSeesExit, Reaped
<1>14. CASE PublishSuccess
  BY <1>14 DEF PublishSuccess
<1>15. CASE CommitSuccess
  BY <1>15 DEF CommitSuccess, Finish, MayCommit
<1>16. CASE RecordTerminalFreshBundle
  BY <1>16 DEF RecordTerminalFreshBundle, EndExecution, NeedsRecord
<1>17. CASE RecordRefused
  BY <1>17 DEF RecordRefused, Rescue, Reaped, NeedsRecord
<1>18. CASE Quarantine
  BY <1>18 DEF Quarantine, QuarantineSucceeds
<1>19. CASE QuarantineFails
  BY <1>19 DEF QuarantineFails, QuarantineRaises, QuarantineRefuses,
         QuarantineStops, Fault
<1>20. CASE SettleQuarantined
  BY <1>20 DEF SettleQuarantined, FinishQuarantined, Finish, EndExecution,
         TerminalOf, ReasonCode
<1>21. CASE SettleSuppressed
  BY <1>21 DEF SettleSuppressed, Finish, EndExecution, TerminalOf
<1>22. CASE RunnerFails
  BY <1>22 DEF RunnerFails, Finish, EndExecution, Fault
<1>23. CASE ClaimRaises
  BY <1>23 DEF ClaimRaises, Fault
<1>24. CASE PrepareRaises
  BY <1>24 DEF PrepareRaises, Fault, Rescue, Reaped
<1>25. CASE PublishRaises
  BY <1>25 DEF PublishRaises, Fault, Rescue, Reaped
<1>26. CASE StoreRaises
  BY <1>26 DEF StoreRaises, Fault, Rescue, Reaped
<1>27. CASE RecoverRow
  <2>1. rec \in Operations
    BY <1>27 DEF RecoverRow
  <2>2. recOk' \in BOOLEAN /\ freshOpen' \in BOOLEAN /\ stopEvent' \in BOOLEAN
    BY <1>27 DEF RecoverRow
  <2>3. /\ state' \in [Operations -> States]
        /\ artifact' \in [Operations -> ArtifactStates]
        /\ failure' \in [Operations -> FailureCodes]
    <3>1. CASE recOk
      BY <1>27, <2>1, <3>1 DEF RecoverRow, FinishQuarantined, Finish
    <3>2. CASE ~recOk
      BY <1>27, <2>1, <3>2 DEF RecoverRow, RecoverSuppressed, Finish
    <3> QED
      BY <3>1, <3>2
  <2> QED
    BY <1>27, <2>1, <2>2, <2>3 DEF RecoverRow
<1>28. ASSUME NEW o \in Operations, RecoverMaterial(o)
      PROVE  TypeOK'
  <2>1. recOk' \in BOOLEAN /\ freshOpen' \in BOOLEAN /\ stopEvent' \in BOOLEAN
    BY <1>28 DEF RecoverMaterial
  <2>2. faults' \in Nat
    BY <1>28 DEF RecoverMaterial, QuarantineRaises, Fault
  <2>3. /\ temp' \subseteq Operations /\ run' \subseteq Operations
        /\ events' \subseteq Operations
        /\ direct' \in [Operations -> {"absent", "open", "sealed"}]
    BY <1>28 DEF RecoverMaterial, QuarantineSucceeds, QuarantineRaises,
           QuarantineRefuses, QuarantineStops
  <2> QED
    BY <1>28, <2>1, <2>2, <2>3 DEF RecoverMaterial
<1>29. CASE StopClosesAdmission
  <2>1. freshOpen' \in BOOLEAN /\ stopEvent' \in BOOLEAN /\ recOk' \in BOOLEAN
    BY <1>29 DEF StopClosesAdmission
  <2>2. stops' \in Nat
    BY <1>29 DEF StopClosesAdmission
  <2> QED
    BY <1>29, <2>1, <2>2 DEF StopClosesAdmission
<1>30. CASE StopSnapshots
  BY <1>30 DEF StopSnapshots
<1>31. CASE StopInterruptsQueued
  BY <1>31 DEF StopInterruptsQueued
<1>32. CASE StopSignals
  BY <1>32 DEF StopSignals, NeedsRecovery
<1>33. CASE StopRecovered
  BY <1>33 DEF StopRecovered
<1>34. CASE StopJoins
  BY <1>34 DEF StopJoins
<1>35. CASE StopJoinExpires
  BY <1>35 DEF StopJoinExpires
<1>36. CASE StopReports
  BY <1>36 DEF StopReports
<1>37. ASSUME NEW o \in Operations, StopExpires(o)
      PROVE  TypeOK'
  BY <1>37 DEF StopExpires, Finish
<1>38. CASE ProcessEnds
  <2>1. freshOpen' \in BOOLEAN /\ stopEvent' \in BOOLEAN /\ recOk' \in BOOLEAN
    BY <1>38 DEF ProcessEnds, LoseMemory
  <2>2. /\ worker' \in [Operations -> {"none", "live", "ok", "bad"}]
        /\ faults' \in Nat /\ crashes' \in Nat /\ stops' \in Nat
    BY <1>38 DEF ProcessEnds, LoseMemory
  <2> QED
    BY <1>38, <2>1, <2>2 DEF ProcessEnds, LoseMemory
<1>39. CASE Restart
  BY <1>39 DEF Restart, NeedsRecovery
<1>40. CASE RunnerStarts
  BY <1>40 DEF RunnerStarts
<1>41. CASE Crash
  <2>1. freshOpen' \in BOOLEAN /\ stopEvent' \in BOOLEAN /\ recOk' \in BOOLEAN
    BY <1>41 DEF Crash, LoseMemory
  <2>2. /\ worker' \in [Operations -> {"none", "live", "ok", "bad"}]
        /\ faults' \in Nat /\ crashes' \in Nat /\ stops' \in Nat
    BY <1>41 DEF Crash, LoseMemory
  <2> QED
    BY <1>41, <2>1, <2>2 DEF Crash, LoseMemory
<1>42. CASE UNCHANGED vars
  BY <1>42 DEF vars
<1> QED
  BY <1>1, <1>2, <1>3, <1>4, <1>5, <1>6, <1>7, <1>8, <1>9, <1>10, <1>11, <1>12,
     <1>13, <1>14, <1>15, <1>16, <1>17, <1>18, <1>19, <1>20, <1>21, <1>22,
     <1>23, <1>24, <1>25, <1>26, <1>27, <1>28, <1>29, <1>30, <1>31, <1>32,
     <1>33, <1>34, <1>35, <1>36, <1>37, <1>38, <1>39, <1>40, <1>41, <1>42
  DEF Next, RequestStep, WorkerStep, RunnerStep, RunnerFault, RecoveryStep,
      StopStep, ProcessStep

\* Every step keeps the program counters consistent.
LEMMA ControlStep ==
    ASSUME TypeOK, ControlInv, [Next]_vars
    PROVE  ControlInv'
<1> USE DEF ControlInv, Alive, Active, Recovering, rows, files, process,
    runner, stopping, bounds, TypeOK, InState
<1>1. CASE RequestStep
  BY <1>1 DEF RequestStep, AdmitOperation, Enqueue, RetryOperation, Retryable,
         CancelQueued, CancelRunning
<1>2. CASE WorkerStep
  BY <1>2 DEF WorkerStep, WorkerSealsBundle, WorkerExits
<1>3. CASE BeginTurn
  BY <1>3 DEF BeginTurn
<1>4. CASE RunnerExits
  BY <1>4 DEF RunnerExits
<1>5. CASE ClaimNothing
  BY <1>5 DEF ClaimNothing
<1>6. ASSUME NEW o \in Operations, ClaimNextOperation(o)
      PROVE  ControlInv'
  BY <1>6 DEF ClaimNextOperation
<1>7. CASE PrepareExecution
  BY <1>7 DEF PrepareExecution
<1>8. CASE PollStops
  BY <1>8 DEF PollStops, Reaped
<1>9. CASE PollSeesExit
  BY <1>9 DEF PollSeesExit, Reaped
<1>10. CASE PublishSuccess
  BY <1>10 DEF PublishSuccess
<1>11. CASE CommitSuccess
  BY <1>11 DEF CommitSuccess, Finish, Terminal, Retryable, MayCommit
<1>12. CASE RecordTerminalFreshBundle
  BY <1>12 DEF RecordTerminalFreshBundle, EndExecution, NeedsRecord
<1>13. CASE RecordRefused
  BY <1>13 DEF RecordRefused, Rescue, Reaped, NeedsRecord
<1>14. CASE Quarantine
  BY <1>14 DEF Quarantine, QuarantineSucceeds
<1>15. CASE QuarantineFails
  BY <1>15 DEF QuarantineFails, QuarantineRaises, QuarantineRefuses,
         QuarantineStops, Fault
<1>16. CASE SettleQuarantined
  BY <1>16 DEF SettleQuarantined, FinishQuarantined, Finish, EndExecution,
         TerminalOf, ReasonCode, Terminal, Retryable
<1>17. CASE SettleSuppressed
  BY <1>17 DEF SettleSuppressed, Finish, EndExecution, TerminalOf, Terminal,
         Retryable
<1>18. CASE RunnerFails
  BY <1>18 DEF RunnerFails, Finish, EndExecution, Fault, Terminal, Retryable
<1>19. CASE ClaimRaises
  BY <1>19 DEF ClaimRaises, Fault
<1>20. CASE PrepareRaises
  BY <1>20 DEF PrepareRaises, Fault, Rescue, Reaped
<1>21. CASE PublishRaises
  BY <1>21 DEF PublishRaises, Fault, Rescue, Reaped
<1>22. CASE StoreRaises
  BY <1>22 DEF StoreRaises, Fault, Rescue, Reaped
<1>23. CASE RecoverRow
  BY <1>23 DEF RecoverRow, FinishQuarantined, RecoverSuppressed, Finish,
         Terminal, Retryable
<1>24. ASSUME NEW o \in Operations, RecoverMaterial(o)
      PROVE  ControlInv'
  BY <1>24 DEF RecoverMaterial, QuarantineSucceeds, QuarantineRaises,
         QuarantineRefuses, QuarantineStops, Fault
<1>25. CASE StopClosesAdmission
  BY <1>25 DEF StopClosesAdmission
<1>26. CASE StopSnapshots
  BY <1>26 DEF StopSnapshots
<1>27. CASE StopInterruptsQueued
  BY <1>27 DEF StopInterruptsQueued
<1>28. CASE StopSignals
  BY <1>28 DEF StopSignals, NeedsRecovery
<1>29. CASE StopRecovered
  BY <1>29 DEF StopRecovered
<1>30. CASE StopJoins
  BY <1>30 DEF StopJoins
<1>31. CASE StopJoinExpires
  BY <1>31 DEF StopJoinExpires
<1>32. CASE StopReports
  BY <1>32 DEF StopReports
<1>33. ASSUME NEW o \in Operations, StopExpires(o)
      PROVE  ControlInv'
  BY <1>33 DEF StopExpires, Finish, Terminal, Retryable
<1>34. CASE ProcessEnds
  BY <1>34 DEF ProcessEnds, LoseMemory
<1>35. CASE Restart
  BY <1>35 DEF Restart, NeedsRecovery
<1>36. CASE RunnerStarts
  BY <1>36 DEF RunnerStarts
<1>37. CASE Crash
  BY <1>37 DEF Crash, LoseMemory
<1>38. CASE UNCHANGED vars
  BY <1>38 DEF vars
<1> QED
  BY <1>1, <1>2, <1>3, <1>4, <1>5, <1>6, <1>7, <1>8, <1>9, <1>10, <1>11, <1>12,
     <1>13, <1>14, <1>15, <1>16, <1>17, <1>18, <1>19, <1>20, <1>21, <1>22,
     <1>23, <1>24, <1>25, <1>26, <1>27, <1>28, <1>29, <1>30, <1>31, <1>32,
     <1>33, <1>34, <1>35, <1>36, <1>37, <1>38
  DEF Next, RunnerStep, RunnerFault, RecoveryStep, StopStep, ProcessStep

\* Every step keeps executing rows with the runner or with recovery.
LEMMA RowStep ==
    ASSUME TypeOK, ControlInv, RowInv, [Next]_vars
    PROVE  RowInv'
<1> USE DEF RowInv, rows, files, process, runner, stopping, bounds,
    Outstanding, Executing, Active, Terminal, Retryable, Recovering, InState,
    TypeOK, ControlInv, Alive
<1>1. CASE WorkerStep
  BY <1>1 DEF WorkerStep, WorkerSealsBundle, WorkerExits
<1>2. ASSUME NEW o \in Operations, NEW w \in Workspaces, NEW k \in Kinds,
             NEW t \in 0 .. MaxTime, AdmitOperation(o, w, k, t)
      PROVE  RowInv'
  BY <1>2 DEF AdmitOperation, Enqueue
<1>3. ASSUME NEW old \in Operations, NEW o \in Operations,
             NEW t \in 0 .. MaxTime, RetryOperation(old, o, t)
      PROVE  RowInv'
  BY <1>3 DEF RetryOperation, Enqueue
<1>4. ASSUME NEW o \in Operations, CancelQueued(o)
      PROVE  RowInv'
  BY <1>4 DEF CancelQueued
<1>5. ASSUME NEW o \in Operations, CancelRunning(o)
      PROVE  RowInv'
  BY <1>5 DEF CancelRunning
<1>6. CASE BeginTurn
  BY <1>6 DEF BeginTurn
<1>7. CASE RunnerExits
  BY <1>7 DEF RunnerExits
<1>8. CASE ClaimNothing
  BY <1>8 DEF ClaimNothing
<1>9. ASSUME NEW o \in Operations, ClaimNextOperation(o)
      PROVE  RowInv'
  BY <1>9 DEF ClaimNextOperation
<1>10. CASE PrepareExecution
  BY <1>10 DEF PrepareExecution
<1>11. CASE PollStops
  BY <1>11 DEF PollStops, Reaped
<1>12. CASE PollSeesExit
  BY <1>12 DEF PollSeesExit, Reaped
<1>13. CASE PublishSuccess
  BY <1>13 DEF PublishSuccess
<1>14. CASE CommitSuccess
  BY <1>14 DEF CommitSuccess, Finish, MayCommit
<1>15. CASE RecordTerminalFreshBundle
  BY <1>15 DEF RecordTerminalFreshBundle, EndExecution, NeedsRecord
<1>16. CASE RecordRefused
  BY <1>16 DEF RecordRefused, Rescue, Reaped, NeedsRecord
<1>17. CASE Quarantine
  BY <1>17 DEF Quarantine, QuarantineSucceeds
<1>18. CASE QuarantineFails
  BY <1>18 DEF QuarantineFails, QuarantineRaises, QuarantineRefuses,
         QuarantineStops, Fault
<1>19. CASE SettleQuarantined
  BY <1>19 DEF SettleQuarantined, FinishQuarantined, Finish, EndExecution,
         TerminalOf, ReasonCode
<1>20. CASE SettleSuppressed
  BY <1>20 DEF SettleSuppressed, Finish, EndExecution, TerminalOf
<1>21. CASE RunnerFails
  BY <1>21 DEF RunnerFails, Finish, EndExecution, Fault
<1>22. CASE ClaimRaises
  BY <1>22 DEF ClaimRaises, Fault
<1>23. CASE PrepareRaises
  BY <1>23 DEF PrepareRaises, Fault, Rescue, Reaped
<1>24. CASE PublishRaises
  BY <1>24 DEF PublishRaises, Fault, Rescue, Reaped
<1>25. CASE StoreRaises
  BY <1>25 DEF StoreRaises, Fault, Rescue, Reaped
<1>26. CASE RecoverRow
  BY <1>26 DEF RecoverRow, FinishQuarantined, RecoverSuppressed, Finish
<1>27. ASSUME NEW o \in Operations, RecoverMaterial(o)
      PROVE  RowInv'
  BY <1>27 DEF RecoverMaterial, QuarantineSucceeds, QuarantineRaises,
         QuarantineRefuses, QuarantineStops, Fault
<1>28. CASE StopClosesAdmission
  BY <1>28 DEF StopClosesAdmission
<1>29. CASE StopSnapshots
  BY <1>29 DEF StopSnapshots
<1>30. CASE StopInterruptsQueued
  BY <1>30 DEF StopInterruptsQueued
<1>31. CASE StopSignals
  BY <1>31 DEF StopSignals, NeedsRecovery
<1>32. CASE StopRecovered
  BY <1>32 DEF StopRecovered
<1>33. CASE StopJoins
  BY <1>33 DEF StopJoins
<1>34. CASE StopJoinExpires
  BY <1>34 DEF StopJoinExpires
<1>35. CASE StopReports
  BY <1>35 DEF StopReports
<1>36. ASSUME NEW o \in Operations, StopExpires(o)
      PROVE  RowInv'
  BY <1>36 DEF StopExpires, Finish
<1>37. CASE ProcessEnds
  BY <1>37 DEF ProcessEnds, LoseMemory
<1>38. CASE Restart
  BY <1>38 DEF Restart, NeedsRecovery
<1>39. CASE RunnerStarts
  BY <1>39 DEF RunnerStarts
<1>40. CASE Crash
  BY <1>40 DEF Crash, LoseMemory
<1>41. CASE UNCHANGED vars
  BY <1>41 DEF vars
<1> QED
  BY <1>1, <1>2, <1>3, <1>4, <1>5, <1>6, <1>7, <1>8, <1>9, <1>10, <1>11, <1>12,
     <1>13, <1>14, <1>15, <1>16, <1>17, <1>18, <1>19, <1>20, <1>21, <1>22,
     <1>23, <1>24, <1>25, <1>26, <1>27, <1>28, <1>29, <1>30, <1>31, <1>32,
     <1>33, <1>34, <1>35, <1>36, <1>37, <1>38, <1>39, <1>40, <1>41
  DEF Next, RequestStep, RunnerStep, RunnerFault, RecoveryStep, StopStep,
      ProcessStep

\* Every step keeps counted bundles available.
LEMMA BundleStep ==
    ASSUME TypeOK, ControlInv, RowInv, BundleInv, [Next]_vars
    PROVE  BundleInv'
<1> USE DEF BundleInv, CountedBundleIsAvailable, ResultReadable, rows, files,
    process, runner, stopping, bounds, Executing, Active, Terminal, Retryable,
    TypeOK, ControlInv, RowInv, Recovering, InState
<1>1. CASE WorkerStep
  BY <1>1 DEF WorkerStep, WorkerSealsBundle, WorkerExits
<1>2. CASE RunnerFault
  BY <1>2 DEF RunnerFault, ClaimRaises, Fault, PrepareRaises, Rescue, Reaped,
         PublishRaises, StoreRaises
<1>3. CASE ProcessStep
  BY <1>3 DEF ProcessStep, ProcessEnds, LoseMemory, Restart, NeedsRecovery,
         RunnerStarts
<1>4. ASSUME NEW o \in Operations, NEW w \in Workspaces, NEW k \in Kinds,
             NEW t \in 0 .. MaxTime, AdmitOperation(o, w, k, t)
      PROVE  BundleInv'
  BY <1>4 DEF AdmitOperation, Enqueue
<1>5. ASSUME NEW old \in Operations, NEW o \in Operations,
             NEW t \in 0 .. MaxTime, RetryOperation(old, o, t)
      PROVE  BundleInv'
  BY <1>5 DEF RetryOperation, Enqueue
<1>6. ASSUME NEW o \in Operations, CancelQueued(o)
      PROVE  BundleInv'
  BY <1>6 DEF CancelQueued
<1>7. ASSUME NEW o \in Operations, CancelRunning(o)
      PROVE  BundleInv'
  BY <1>7 DEF CancelRunning
<1>8. CASE BeginTurn
  BY <1>8 DEF BeginTurn
<1>9. CASE RunnerExits
  BY <1>9 DEF RunnerExits
<1>10. CASE ClaimNothing
  BY <1>10 DEF ClaimNothing
<1>11. ASSUME NEW o \in Operations, ClaimNextOperation(o)
      PROVE  BundleInv'
  BY <1>11 DEF ClaimNextOperation
<1>12. CASE PrepareExecution
  BY <1>12 DEF PrepareExecution
<1>13. CASE PollStops
  BY <1>13 DEF PollStops, Reaped
<1>14. CASE PollSeesExit
  BY <1>14 DEF PollSeesExit, Reaped
<1>15. CASE PublishSuccess
  BY <1>15 DEF PublishSuccess
<1>16. CASE CommitSuccess
  BY <1>16 DEF CommitSuccess, Finish, MayCommit
<1>17. CASE RecordTerminalFreshBundle
  BY <1>17 DEF RecordTerminalFreshBundle, EndExecution, NeedsRecord
<1>18. CASE RecordRefused
  BY <1>18 DEF RecordRefused, Rescue, Reaped, NeedsRecord
<1>19. CASE Quarantine
  BY <1>19 DEF Quarantine, QuarantineSucceeds
<1>20. CASE QuarantineFails
  BY <1>20 DEF QuarantineFails, QuarantineRaises, QuarantineRefuses,
         QuarantineStops, Fault
<1>21. CASE SettleQuarantined
  BY <1>21 DEF SettleQuarantined, FinishQuarantined, Finish, EndExecution,
         TerminalOf, ReasonCode
<1>22. CASE SettleSuppressed
  BY <1>22 DEF SettleSuppressed, Finish, EndExecution, TerminalOf
<1>23. CASE RunnerFails
  BY <1>23 DEF RunnerFails, Finish, EndExecution, Fault
<1>24. CASE RecoverRow
  BY <1>24 DEF RecoverRow, FinishQuarantined, RecoverSuppressed, Finish
<1>25. ASSUME NEW o \in Operations, RecoverMaterial(o)
      PROVE  BundleInv'
  <2>1. o \notin recorded /\ pc \notin Active
    BY <1>25 DEF RecoverMaterial, Recovering, ControlInv, RowInv, Alive, TypeOK
  <2>2. /\ run' \in {run, run \ {o}}
        /\ UNCHANGED <<state, artifact, kind, recorded, bundle, pc, cur>>
    BY <1>25 DEF RecoverMaterial, QuarantineSucceeds, QuarantineRaises,
           QuarantineRefuses, QuarantineStops
  <2> QED
    BY <2>1, <2>2
<1>26. CASE StopClosesAdmission
  BY <1>26 DEF StopClosesAdmission
<1>27. CASE StopSnapshots
  BY <1>27 DEF StopSnapshots
<1>28. CASE StopInterruptsQueued
  BY <1>28 DEF StopInterruptsQueued
<1>29. CASE StopSignals
  BY <1>29 DEF StopSignals, NeedsRecovery
<1>30. CASE StopRecovered
  BY <1>30 DEF StopRecovered
<1>31. CASE StopJoins
  BY <1>31 DEF StopJoins
<1>32. CASE StopJoinExpires
  BY <1>32 DEF StopJoinExpires
<1>33. CASE StopReports
  BY <1>33 DEF StopReports
<1>34. ASSUME NEW o \in Operations, StopExpires(o)
      PROVE  BundleInv'
  BY <1>34 DEF StopExpires, Finish
<1>35. CASE Crash
  BY <1>35 DEF Crash, LoseMemory
<1>36. CASE UNCHANGED vars
  BY <1>36 DEF vars
<1> QED
  BY <1>1, <1>2, <1>3, <1>4, <1>5, <1>6, <1>7, <1>8, <1>9, <1>10, <1>11, <1>12,
     <1>13, <1>14, <1>15, <1>16, <1>17, <1>18, <1>19, <1>20, <1>21, <1>22,
     <1>23, <1>24, <1>25, <1>26, <1>27, <1>28, <1>29, <1>30, <1>31, <1>32,
     <1>33, <1>34, <1>35, <1>36
  DEF Next, RequestStep, RunnerStep, RecoveryStep, StopStep

\* Every step keeps files and rows in agreement.
LEMMA FileStep ==
    ASSUME TypeOK, ControlInv, RowInv, BundleInv, FileInv, [Next]_vars
    PROVE  FileInv'
<1> USE DEF FileInv, ArtifactStateIsTrue, Material, Sealed, rows, files,
    process, runner, stopping, bounds, Executing, Active, Terminal, Retryable,
    TypeOK, ControlInv, RowInv, BundleInv, Recovering, InState
<1>1. CASE WorkerStep
  BY <1>1 DEF WorkerStep, WorkerSealsBundle, WorkerExits
<1>2. CASE ProcessStep
  BY <1>2 DEF ProcessStep, ProcessEnds, LoseMemory, Restart, NeedsRecovery,
         RunnerStarts
<1>3. ASSUME NEW o \in Operations, NEW w \in Workspaces, NEW k \in Kinds,
             NEW t \in 0 .. MaxTime, AdmitOperation(o, w, k, t)
      PROVE  FileInv'
  BY <1>3 DEF AdmitOperation, Enqueue
<1>4. ASSUME NEW old \in Operations, NEW o \in Operations,
             NEW t \in 0 .. MaxTime, RetryOperation(old, o, t)
      PROVE  FileInv'
  BY <1>4 DEF RetryOperation, Enqueue
<1>5. ASSUME NEW o \in Operations, CancelQueued(o)
      PROVE  FileInv'
  BY <1>5 DEF CancelQueued
<1>6. ASSUME NEW o \in Operations, CancelRunning(o)
      PROVE  FileInv'
  BY <1>6 DEF CancelRunning
<1>7. CASE BeginTurn
  BY <1>7 DEF BeginTurn
<1>8. CASE RunnerExits
  BY <1>8 DEF RunnerExits
<1>9. CASE ClaimNothing
  BY <1>9 DEF ClaimNothing
<1>10. ASSUME NEW o \in Operations, ClaimNextOperation(o)
      PROVE  FileInv'
  BY <1>10 DEF ClaimNextOperation
<1>11. CASE PrepareExecution
  <2>1. /\ cur \in Operations /\ rec = None
        /\ artifact[cur] \notin {"NOT_STARTED", "QUARANTINED"}
    BY <1>11 DEF PrepareExecution, ControlInv, RowInv, Recovering, Alive, TypeOK
  <2>2. /\ temp' \in {temp, temp \cup {cur}}
        /\ worker' \in {[worker EXCEPT ![cur] = "live"],
                        [worker EXCEPT ![cur] = "none"]}
        /\ UNCHANGED <<artifact, run, direct, events, bundle, rec, cur>>
        /\ pc' \in {"poll", "quarantine"}
    BY <1>11 DEF PrepareExecution, Rescue, Reaped
  <2> QED
    BY <2>1, <2>2 DEF TypeOK
<1>12. CASE PollStops
  BY <1>12 DEF PollStops, Reaped
<1>13. CASE PollSeesExit
  BY <1>13 DEF PollSeesExit, Reaped
<1>14. CASE PublishSuccess
  BY <1>14 DEF PublishSuccess
<1>15. CASE CommitSuccess
  BY <1>15 DEF CommitSuccess, Finish, MayCommit
<1>16. CASE RecordTerminalFreshBundle
  BY <1>16 DEF RecordTerminalFreshBundle, EndExecution, NeedsRecord
<1>17. CASE RecordRefused
  BY <1>17 DEF RecordRefused, Rescue, Reaped, NeedsRecord
<1>18. CASE Quarantine
  BY <1>18 DEF Quarantine, QuarantineSucceeds
<1>19. CASE QuarantineFails
  BY <1>19 DEF QuarantineFails, QuarantineRaises, QuarantineRefuses,
         QuarantineStops, Fault
<1>20. CASE SettleQuarantined
  BY <1>20 DEF SettleQuarantined, FinishQuarantined, Finish, EndExecution,
         TerminalOf, ReasonCode
<1>21. CASE SettleSuppressed
  BY <1>21 DEF SettleSuppressed, Finish, EndExecution, TerminalOf
<1>22. CASE RunnerFails
  BY <1>22 DEF RunnerFails, Finish, EndExecution, Fault
<1>23. CASE ClaimRaises
  BY <1>23 DEF ClaimRaises, Fault
<1>24. CASE PrepareRaises
  <2>1. /\ cur \in Operations /\ rec = None
        /\ artifact[cur] \notin {"NOT_STARTED", "QUARANTINED"}
    BY <1>24 DEF PrepareRaises, ControlInv, RowInv, Recovering, Alive, TypeOK
  <2>2. /\ temp' \in {temp, temp \cup {cur}}
        /\ worker' \in {[worker EXCEPT ![cur] = "live"],
                        [worker EXCEPT ![cur] = "none"]}
        /\ UNCHANGED <<artifact, run, direct, events, bundle, rec, cur>>
        /\ pc' \in {"poll", "quarantine"}
    BY <1>24 DEF PrepareRaises, Rescue, Reaped
  <2> QED
    BY <2>1, <2>2 DEF TypeOK
<1>25. CASE PublishRaises
  BY <1>25 DEF PublishRaises, Fault, Rescue, Reaped
<1>26. CASE StoreRaises
  BY <1>26 DEF StoreRaises, Fault, Rescue, Reaped
<1>27. CASE RecoverRow
  BY <1>27 DEF RecoverRow, FinishQuarantined, RecoverSuppressed, Finish
<1>28. ASSUME NEW o \in Operations, RecoverMaterial(o)
      PROVE  FileInv'
  BY <1>28 DEF RecoverMaterial, QuarantineSucceeds, QuarantineRaises,
         QuarantineRefuses, QuarantineStops, Fault
<1>29. CASE StopClosesAdmission
  BY <1>29 DEF StopClosesAdmission
<1>30. CASE StopSnapshots
  BY <1>30 DEF StopSnapshots
<1>31. CASE StopInterruptsQueued
  BY <1>31 DEF StopInterruptsQueued
<1>32. CASE StopSignals
  BY <1>32 DEF StopSignals, NeedsRecovery
<1>33. CASE StopRecovered
  BY <1>33 DEF StopRecovered
<1>34. CASE StopJoins
  BY <1>34 DEF StopJoins
<1>35. CASE StopJoinExpires
  BY <1>35 DEF StopJoinExpires
<1>36. CASE StopReports
  BY <1>36 DEF StopReports
<1>37. ASSUME NEW o \in Operations, StopExpires(o)
      PROVE  FileInv'
  BY <1>37 DEF StopExpires, Finish
<1>38. CASE Crash
  BY <1>38 DEF Crash, LoseMemory
<1>39. CASE UNCHANGED vars
  BY <1>39 DEF vars
<1> QED
  BY <1>1, <1>2, <1>3, <1>4, <1>5, <1>6, <1>7, <1>8, <1>9, <1>10, <1>11, <1>12,
     <1>13, <1>14, <1>15, <1>16, <1>17, <1>18, <1>19, <1>20, <1>21, <1>22,
     <1>23, <1>24, <1>25, <1>26, <1>27, <1>28, <1>29, <1>30, <1>31, <1>32,
     <1>33, <1>34, <1>35, <1>36, <1>37, <1>38, <1>39
  DEF Next, RequestStep, RunnerStep, RunnerFault, RecoveryStep, StopStep

\* Every step keeps the receipt true.
LEMMA ReceiptStep ==
    ASSUME TypeOK, ControlInv, RowInv, ReceiptInv, [Next]_vars
    PROVE  ReceiptInv'
<1> USE DEF ReceiptInv, InState, rows, files, process, runner, stopping,
    bounds, Executing, Active, Terminal, Retryable, TypeOK, ControlInv, RowInv
<1>1. CASE WorkerStep
  BY <1>1 DEF WorkerStep, WorkerSealsBundle, WorkerExits
<1>2. CASE RunnerFault
  BY <1>2 DEF RunnerFault, ClaimRaises, Fault, PrepareRaises, Rescue, Reaped,
         PublishRaises, StoreRaises
<1>3. CASE ProcessStep
  BY <1>3 DEF ProcessStep, ProcessEnds, LoseMemory, Restart, NeedsRecovery,
         RunnerStarts
<1>4. ASSUME NEW o \in Operations, NEW w \in Workspaces, NEW k \in Kinds,
             NEW t \in 0 .. MaxTime, AdmitOperation(o, w, k, t)
      PROVE  ReceiptInv'
  BY <1>4 DEF AdmitOperation, Enqueue
<1>5. ASSUME NEW old \in Operations, NEW o \in Operations,
             NEW t \in 0 .. MaxTime, RetryOperation(old, o, t)
      PROVE  ReceiptInv'
  BY <1>5 DEF RetryOperation, Enqueue
<1>6. ASSUME NEW o \in Operations, CancelQueued(o)
      PROVE  ReceiptInv'
  BY <1>6 DEF CancelQueued
<1>7. ASSUME NEW o \in Operations, CancelRunning(o)
      PROVE  ReceiptInv'
  BY <1>7 DEF CancelRunning
<1>8. CASE BeginTurn
  BY <1>8 DEF BeginTurn
<1>9. CASE RunnerExits
  BY <1>9 DEF RunnerExits
<1>10. CASE ClaimNothing
  BY <1>10 DEF ClaimNothing
<1>11. ASSUME NEW o \in Operations, ClaimNextOperation(o)
      PROVE  ReceiptInv'
  BY <1>11 DEF ClaimNextOperation
<1>12. CASE PrepareExecution
  BY <1>12 DEF PrepareExecution
<1>13. CASE PollStops
  BY <1>13 DEF PollStops, Reaped
<1>14. CASE PollSeesExit
  BY <1>14 DEF PollSeesExit, Reaped
<1>15. CASE PublishSuccess
  BY <1>15 DEF PublishSuccess
<1>16. CASE CommitSuccess
  BY <1>16 DEF CommitSuccess, Finish, MayCommit
<1>17. CASE RecordTerminalFreshBundle
  BY <1>17 DEF RecordTerminalFreshBundle, EndExecution, NeedsRecord
<1>18. CASE RecordRefused
  BY <1>18 DEF RecordRefused, Rescue, Reaped, NeedsRecord
<1>19. CASE Quarantine
  BY <1>19 DEF Quarantine, QuarantineSucceeds
<1>20. CASE QuarantineFails
  BY <1>20 DEF QuarantineFails, QuarantineRaises, QuarantineRefuses,
         QuarantineStops, Fault
<1>21. CASE SettleQuarantined
  BY <1>21 DEF SettleQuarantined, FinishQuarantined, Finish, EndExecution,
         TerminalOf, ReasonCode
<1>22. CASE SettleSuppressed
  BY <1>22 DEF SettleSuppressed, Finish, EndExecution, TerminalOf
<1>23. CASE RunnerFails
  BY <1>23 DEF RunnerFails, Finish, EndExecution, Fault
<1>24. CASE RecoverRow
  BY <1>24 DEF RecoverRow, FinishQuarantined, RecoverSuppressed, Finish
<1>25. ASSUME NEW o \in Operations, RecoverMaterial(o)
      PROVE  ReceiptInv'
  BY <1>25 DEF RecoverMaterial, QuarantineSucceeds, QuarantineRaises,
         QuarantineRefuses, QuarantineStops, Fault, Recovering
<1>26. CASE StopClosesAdmission
  BY <1>26 DEF StopClosesAdmission
<1>27. CASE StopSnapshots
  BY <1>27 DEF StopSnapshots
<1>28. CASE StopInterruptsQueued
  BY <1>28 DEF StopInterruptsQueued
<1>29. CASE StopSignals
  BY <1>29 DEF StopSignals, NeedsRecovery
<1>30. CASE StopRecovered
  BY <1>30 DEF StopRecovered
<1>31. CASE StopJoins
  BY <1>31 DEF StopJoins
<1>32. CASE StopJoinExpires
  BY <1>32 DEF StopJoinExpires
<1>33. CASE StopReports
  BY <1>33 DEF StopReports
<1>34. ASSUME NEW o \in Operations, StopExpires(o)
      PROVE  ReceiptInv'
  BY <1>34 DEF StopExpires, Finish
<1>35. CASE Crash
  BY <1>35 DEF Crash, LoseMemory
<1>36. CASE UNCHANGED vars
  BY <1>36 DEF vars
<1> QED
  BY <1>1, <1>2, <1>3, <1>4, <1>5, <1>6, <1>7, <1>8, <1>9, <1>10, <1>11, <1>12,
     <1>13, <1>14, <1>15, <1>16, <1>17, <1>18, <1>19, <1>20, <1>21, <1>22,
     <1>23, <1>24, <1>25, <1>26, <1>27, <1>28, <1>29, <1>30, <1>31, <1>32,
     <1>33, <1>34, <1>35, <1>36
  DEF Next, RequestStep, RunnerStep, RecoveryStep, StopStep

\* Every step keeps the compute subprocess with the runner that polls it.
LEMMA SubprocessStep ==
    ASSUME OrphanWorkers = FALSE, TypeOK, ControlInv, OneComputeSubprocess,
           [Next]_vars
    PROVE  OneComputeSubprocess'
<1> USE DEF OneComputeSubprocess, rows, files, process, runner, stopping,
    bounds, TypeOK, ControlInv, Alive
<1>1. CASE RequestStep
  BY <1>1 DEF RequestStep, AdmitOperation, Enqueue, RetryOperation, Retryable,
         CancelQueued, CancelRunning
<1>2. CASE StopStep
  BY <1>2 DEF StopStep, StopSnapshots, StopInterruptsQueued, StopSignals,
         NeedsRecovery, StopRecovered, StopJoins, StopJoinExpires, StopReports,
         StopExpires, Finish, Terminal, Retryable
<1>3. CASE RecoveryStep
  BY <1>3 DEF RecoveryStep, RecoverRow, FinishQuarantined, RecoverSuppressed,
         Finish, Terminal, Retryable, RecoverMaterial, QuarantineSucceeds,
         QuarantineRaises, QuarantineRefuses, QuarantineStops, Fault,
         Recovering
<1>4. ASSUME NEW o \in Operations, WorkerSealsBundle(o)
      PROVE  OneComputeSubprocess'
  BY <1>4 DEF WorkerSealsBundle
<1>5. ASSUME NEW o \in Operations, NEW rc \in {"ok", "bad"}, WorkerExits(o, rc)
      PROVE  OneComputeSubprocess'
  BY <1>5 DEF WorkerExits
<1>6. CASE BeginTurn
  BY <1>6 DEF BeginTurn
<1>7. CASE RunnerExits
  BY <1>7 DEF RunnerExits
<1>8. CASE ClaimNothing
  BY <1>8 DEF ClaimNothing
<1>9. ASSUME NEW o \in Operations, ClaimNextOperation(o)
      PROVE  OneComputeSubprocess'
  BY <1>9 DEF ClaimNextOperation
<1>10. CASE PrepareExecution
  BY <1>10 DEF PrepareExecution
<1>11. CASE PollStops
  BY <1>11 DEF PollStops, Reaped
<1>12. CASE PollSeesExit
  BY <1>12 DEF PollSeesExit, Reaped
<1>13. CASE PublishSuccess
  BY <1>13 DEF PublishSuccess
<1>14. CASE CommitSuccess
  BY <1>14 DEF CommitSuccess, Finish, Terminal, Retryable, MayCommit
<1>15. CASE RecordTerminalFreshBundle
  BY <1>15 DEF RecordTerminalFreshBundle, EndExecution, NeedsRecord
<1>16. CASE RecordRefused
  BY <1>16 DEF RecordRefused, Rescue, Reaped, NeedsRecord
<1>17. CASE Quarantine
  BY <1>17 DEF Quarantine, QuarantineSucceeds
<1>18. CASE QuarantineFails
  BY <1>18 DEF QuarantineFails, QuarantineRaises, QuarantineRefuses,
         QuarantineStops, Fault
<1>19. CASE SettleQuarantined
  BY <1>19 DEF SettleQuarantined, FinishQuarantined, Finish, EndExecution,
         TerminalOf, ReasonCode, Terminal, Retryable
<1>20. CASE SettleSuppressed
  BY <1>20 DEF SettleSuppressed, Finish, EndExecution, TerminalOf, Terminal,
         Retryable
<1>21. CASE RunnerFails
  BY <1>21 DEF RunnerFails, Finish, EndExecution, Fault, Terminal, Retryable
<1>22. CASE ClaimRaises
  BY <1>22 DEF ClaimRaises, Fault
<1>23. CASE PrepareRaises
  BY <1>23 DEF PrepareRaises, Fault, Rescue, Reaped
<1>24. CASE PublishRaises
  BY <1>24 DEF PublishRaises, Fault, Rescue, Reaped
<1>25. CASE StoreRaises
  BY <1>25 DEF StoreRaises, Fault, Rescue, Reaped
<1>26. CASE StopClosesAdmission
  BY <1>26 DEF StopClosesAdmission
<1>27. CASE ProcessEnds
  BY <1>27 DEF ProcessEnds, LoseMemory
<1>28. CASE Restart
  BY <1>28 DEF Restart, NeedsRecovery
<1>29. CASE RunnerStarts
  BY <1>29 DEF RunnerStarts
<1>30. CASE Crash
  BY <1>30 DEF Crash, LoseMemory
<1>31. CASE UNCHANGED vars
  BY <1>31 DEF vars
<1> QED
  BY <1>1, <1>2, <1>3, <1>4, <1>5, <1>6, <1>7, <1>8, <1>9, <1>10, <1>11, <1>12,
     <1>13, <1>14, <1>15, <1>16, <1>17, <1>18, <1>19, <1>20, <1>21, <1>22,
     <1>23, <1>24, <1>25, <1>26, <1>27, <1>28, <1>29, <1>30, <1>31
  DEF Next, WorkerStep, RunnerStep, RunnerFault, ProcessStep

\* Every step leaves terminal rows as they are, up to a recovered quarantine.
LEMMA TerminalStep ==
    ASSUME TypeOK, ControlInv, RowInv, [Next]_vars
    PROVE  FrozenStep
<1> USE DEF FrozenStep, rows, files, process, runner, stopping, bounds,
    Executing, Terminal, Retryable, TypeOK, ControlInv, RowInv, InState,
    Active, Recovering
<1>1. CASE WorkerStep
  BY <1>1 DEF WorkerStep, WorkerSealsBundle, WorkerExits
<1>2. CASE RunnerFault
  BY <1>2 DEF RunnerFault, ClaimRaises, Fault, PrepareRaises, Rescue, Reaped,
         PublishRaises, StoreRaises
<1>3. CASE ProcessStep
  BY <1>3 DEF ProcessStep, ProcessEnds, LoseMemory, Restart, NeedsRecovery,
         RunnerStarts
<1>4. ASSUME NEW o \in Operations, NEW w \in Workspaces, NEW k \in Kinds,
             NEW t \in 0 .. MaxTime, AdmitOperation(o, w, k, t)
      PROVE  FrozenStep
  BY <1>4 DEF AdmitOperation, Enqueue
<1>5. ASSUME NEW old \in Operations, NEW o \in Operations,
             NEW t \in 0 .. MaxTime, RetryOperation(old, o, t)
      PROVE  FrozenStep
  BY <1>5 DEF RetryOperation, Enqueue
<1>6. ASSUME NEW o \in Operations, CancelQueued(o)
      PROVE  FrozenStep
  BY <1>6 DEF CancelQueued
<1>7. ASSUME NEW o \in Operations, CancelRunning(o)
      PROVE  FrozenStep
  BY <1>7 DEF CancelRunning
<1>8. CASE BeginTurn
  BY <1>8 DEF BeginTurn
<1>9. CASE RunnerExits
  BY <1>9 DEF RunnerExits
<1>10. CASE ClaimNothing
  BY <1>10 DEF ClaimNothing
<1>11. ASSUME NEW o \in Operations, ClaimNextOperation(o)
      PROVE  FrozenStep
  BY <1>11 DEF ClaimNextOperation
<1>12. CASE PrepareExecution
  BY <1>12 DEF PrepareExecution
<1>13. CASE PollStops
  BY <1>13 DEF PollStops, Reaped
<1>14. CASE PollSeesExit
  BY <1>14 DEF PollSeesExit, Reaped
<1>15. CASE PublishSuccess
  BY <1>15 DEF PublishSuccess
<1>16. CASE CommitSuccess
  BY <1>16 DEF CommitSuccess, Finish, MayCommit
<1>17. CASE RecordTerminalFreshBundle
  BY <1>17 DEF RecordTerminalFreshBundle, EndExecution, NeedsRecord
<1>18. CASE RecordRefused
  BY <1>18 DEF RecordRefused, Rescue, Reaped, NeedsRecord
<1>19. CASE Quarantine
  BY <1>19 DEF Quarantine, QuarantineSucceeds
<1>20. CASE QuarantineFails
  BY <1>20 DEF QuarantineFails, QuarantineRaises, QuarantineRefuses,
         QuarantineStops, Fault
<1>21. CASE SettleQuarantined
  BY <1>21 DEF SettleQuarantined, FinishQuarantined, Finish, EndExecution,
         TerminalOf, ReasonCode
<1>22. CASE SettleSuppressed
  BY <1>22 DEF SettleSuppressed, Finish, EndExecution, TerminalOf
<1>23. CASE RunnerFails
  BY <1>23 DEF RunnerFails, Finish, EndExecution, Fault
<1>24. CASE RecoverRow
  BY <1>24 DEF RecoverRow, FinishQuarantined, RecoverSuppressed, Finish
<1>25. ASSUME NEW o \in Operations, RecoverMaterial(o)
      PROVE  FrozenStep
  BY <1>25 DEF RecoverMaterial, QuarantineSucceeds, QuarantineRaises,
         QuarantineRefuses, QuarantineStops, Fault
<1>26. CASE StopClosesAdmission
  BY <1>26 DEF StopClosesAdmission
<1>27. CASE StopSnapshots
  BY <1>27 DEF StopSnapshots
<1>28. CASE StopInterruptsQueued
  BY <1>28 DEF StopInterruptsQueued
<1>29. CASE StopSignals
  BY <1>29 DEF StopSignals, NeedsRecovery
<1>30. CASE StopRecovered
  BY <1>30 DEF StopRecovered
<1>31. CASE StopJoins
  BY <1>31 DEF StopJoins
<1>32. CASE StopJoinExpires
  BY <1>32 DEF StopJoinExpires
<1>33. CASE StopReports
  BY <1>33 DEF StopReports
<1>34. ASSUME NEW o \in Operations, StopExpires(o)
      PROVE  FrozenStep
  BY <1>34 DEF StopExpires, Finish
<1>35. CASE Crash
  BY <1>35 DEF Crash, LoseMemory
<1>36. CASE UNCHANGED vars
  BY <1>36 DEF vars
<1> QED
  BY <1>1, <1>2, <1>3, <1>4, <1>5, <1>6, <1>7, <1>8, <1>9, <1>10, <1>11, <1>12,
     <1>13, <1>14, <1>15, <1>16, <1>17, <1>18, <1>19, <1>20, <1>21, <1>22,
     <1>23, <1>24, <1>25, <1>26, <1>27, <1>28, <1>29, <1>30, <1>31, <1>32,
     <1>33, <1>34, <1>35, <1>36
  DEF Next, RequestStep, RunnerStep, RecoveryStep, StopStep

\* The life cycle reads the same sets off the rows and counts them alike.
LEMMA SameSets ==
    /\ Lifecycle!Outstanding = Outstanding
    /\ \A S : Lifecycle!InState(S) = InState(S)
    /\ \A S : Lifecycle!Cardinality(S) = Cardinality(S)
<1>1. Lifecycle!Outstanding = Outstanding /\ \A S : Lifecycle!InState(S) = InState(S)
  BY DEF Lifecycle!Outstanding, Outstanding, Lifecycle!InState, InState
<1>2. \A S : Lifecycle!Cardinality(S) = Cardinality(S)
  BY Zenon DEF Lifecycle!Cardinality, Cardinality
<1> QED
  BY <1>1, <1>2

\* Every step is a step of the life cycle or leaves the rows' states alone.
LEMMA LifecycleStep ==
    ASSUME TypeOK, ControlInv, RowInv, [Next]_vars
    PROVE  [Lifecycle!Next]_<<state, owner>>
<1> USE DEF rows, files, process, runner, stopping, bounds
<1>1. CASE WorkerStep
  BY <1>1 DEF WorkerStep, WorkerSealsBundle, WorkerExits
<1>2. CASE RunnerFault
  BY <1>2 DEF RunnerFault, ClaimRaises, Fault, PrepareRaises, Rescue, Reaped,
         PublishRaises, StoreRaises
<1>3. CASE ProcessStep
  BY <1>3 DEF ProcessStep, ProcessEnds, LoseMemory, Restart, NeedsRecovery,
         RunnerStarts
<1>4. ASSUME NEW o \in Operations, NEW w \in Workspaces, NEW k \in Kinds,
             NEW t \in 0 .. MaxTime, AdmitOperation(o, w, k, t)
      PROVE  [Lifecycle!Next]_<<state, owner>>
  <2>1. w \in Workspaces /\ CapacityFor(w)
    BY <1>4 DEF AdmitOperation, RowInv, Retryable, Enqueue
  <2>2. /\ state[o] = "ABSENT" /\ state' = [state EXCEPT ![o] = "QUEUED"]
        /\ owner' = [owner EXCEPT ![o] = w]
    BY <1>4 DEF AdmitOperation, Enqueue
  <2>3. Lifecycle!Enqueue(o, w)
    BY <2>1, <2>2, SameSets DEF CapacityFor, Lifecycle!Enqueue
  <2> QED
    BY <2>1, <2>3 DEF Lifecycle!Next
<1>5. ASSUME NEW old \in Operations, NEW o \in Operations,
             NEW t \in 0 .. MaxTime, RetryOperation(old, o, t)
      PROVE  [Lifecycle!Next]_<<state, owner>>
  <2>1. owner[old] \in Workspaces /\ CapacityFor(owner[old])
    BY <1>5 DEF RetryOperation, RowInv, Retryable, Enqueue
  <2>2. /\ state[o] = "ABSENT" /\ state' = [state EXCEPT ![o] = "QUEUED"]
        /\ owner' = [owner EXCEPT ![o] = owner[old]]
    BY <1>5 DEF RetryOperation, Enqueue
  <2>3. Lifecycle!Enqueue(o, owner[old])
    BY <2>1, <2>2, SameSets DEF CapacityFor, Lifecycle!Enqueue
  <2> QED
    BY <2>1, <2>3 DEF Lifecycle!Next
<1>6. ASSUME NEW o \in Operations, CancelQueued(o)
      PROVE  [Lifecycle!Next]_<<state, owner>>
  <2>1. Lifecycle!RequestCancel(o)
    BY <1>6 DEF CancelQueued, TypeOK, Lifecycle!RequestCancel
  <2> QED
    BY <2>1 DEF Lifecycle!Next
<1>7. ASSUME NEW o \in Operations, CancelRunning(o)
      PROVE  [Lifecycle!Next]_<<state, owner>>
  <2>1. Lifecycle!RequestCancel(o)
    BY <1>7 DEF CancelRunning, TypeOK, Lifecycle!RequestCancel
  <2> QED
    BY <2>1 DEF Lifecycle!Next
<1>8. CASE BeginTurn
  BY <1>8 DEF BeginTurn
<1>9. CASE RunnerExits
  BY <1>9 DEF RunnerExits
<1>10. CASE ClaimNothing
  BY <1>10 DEF ClaimNothing
<1>11. ASSUME NEW o \in Operations, ClaimNextOperation(o)
      PROVE  [Lifecycle!Next]_<<state, owner>>
  <2>1. Lifecycle!Start(o)
    BY <1>11 DEF ClaimNextOperation, Executing, Lifecycle!Executing, InState, Lifecycle!InState,
           Lifecycle!Start
  <2> QED
    BY <2>1 DEF Lifecycle!Next
<1>12. CASE PrepareExecution
  BY <1>12 DEF PrepareExecution
<1>13. CASE PollStops
  BY <1>13 DEF PollStops, Reaped
<1>14. CASE PollSeesExit
  BY <1>14 DEF PollSeesExit, Reaped
<1>15. CASE PublishSuccess
  BY <1>15 DEF PublishSuccess
<1>16. CASE CommitSuccess
  <2>1. cur \in Operations
    BY <1>16 DEF CommitSuccess, TypeOK, Active
  <2>2. Lifecycle!Succeed(cur) \/ UNCHANGED <<state, owner>>
    BY <1>16 DEF CommitSuccess, Finish, MayCommit, Terminal, Retryable,
           Lifecycle!Succeed
  <2> QED
    BY <2>1, <2>2 DEF Lifecycle!Next
<1>17. CASE RecordTerminalFreshBundle
  BY <1>17 DEF RecordTerminalFreshBundle, EndExecution, NeedsRecord
<1>18. CASE RecordRefused
  BY <1>18 DEF RecordRefused, Rescue, Reaped, NeedsRecord
<1>19. CASE Quarantine
  BY <1>19 DEF Quarantine, QuarantineSucceeds
<1>20. CASE QuarantineFails
  BY <1>20 DEF QuarantineFails, QuarantineRaises, QuarantineRefuses,
         QuarantineStops, Fault
<1>21. CASE SettleQuarantined
  <2>1. cur \in Operations /\ state[cur] \in Executing \cup Terminal
    BY <1>21 DEF SettleQuarantined, TypeOK, ControlInv, RowInv, Recovering, Executing,
           Outstanding, Terminal, Retryable, States, Active
  <2>2. TerminalOf(outcome) \in Lifecycle!Unsuccessful
    BY <1>21 DEF SettleQuarantined, ControlInv, TerminalOf, Lifecycle!Unsuccessful
  <2>3. \/ state[cur] \notin Terminal /\ state' = [state EXCEPT ![cur] = TerminalOf(outcome)]
        \/ UNCHANGED state
    BY <1>21 DEF SettleQuarantined, FinishQuarantined, Finish
  <2>4. UNCHANGED owner
    BY <1>21 DEF SettleQuarantined
  <2>5. Lifecycle!End(cur, TerminalOf(outcome)) \/ UNCHANGED <<state, owner>>
    BY <2>1, <2>3, <2>4 DEF Executing, Lifecycle!End, Lifecycle!Executing
  <2> QED
    BY <2>1, <2>2, <2>5 DEF Lifecycle!Next
<1>22. CASE SettleSuppressed
  <2>1. cur \in Operations /\ state[cur] \in Executing \cup Terminal
    BY <1>22 DEF SettleSuppressed, TypeOK, ControlInv, RowInv, Recovering, Executing,
           Outstanding, Terminal, Retryable, States, Active
  <2>2. TerminalOf(outcome) \in Lifecycle!Unsuccessful
    BY <1>22 DEF SettleSuppressed, ControlInv, TerminalOf, Lifecycle!Unsuccessful
  <2>3. \/ state[cur] \notin Terminal /\ state' = [state EXCEPT ![cur] = TerminalOf(outcome)]
        \/ UNCHANGED state
    BY <1>22 DEF SettleSuppressed, Finish
  <2>4. UNCHANGED owner
    BY <1>22 DEF SettleSuppressed
  <2>5. Lifecycle!End(cur, TerminalOf(outcome)) \/ UNCHANGED <<state, owner>>
    BY <2>1, <2>3, <2>4 DEF Executing, Lifecycle!End, Lifecycle!Executing
  <2> QED
    BY <2>1, <2>2, <2>5 DEF Lifecycle!Next
<1>23. CASE RunnerFails
  <2>1. cur \in Operations /\ state[cur] \in Executing \cup Terminal
    BY <1>23 DEF RunnerFails, TypeOK, ControlInv, RowInv, Recovering, Executing,
           Outstanding, Terminal, Retryable, States, Active
  <2>2. "FAILED" \in Lifecycle!Unsuccessful
    BY <1>23 DEF RunnerFails, ControlInv, TerminalOf, Lifecycle!Unsuccessful
  <2>3. \/ state[cur] \notin Terminal /\ state' = [state EXCEPT ![cur] = "FAILED"]
        \/ UNCHANGED state
    BY <1>23 DEF RunnerFails, Finish
  <2>4. UNCHANGED owner
    BY <1>23 DEF RunnerFails
  <2>5. Lifecycle!End(cur, "FAILED") \/ UNCHANGED <<state, owner>>
    BY <2>1, <2>3, <2>4 DEF Executing, Lifecycle!End, Lifecycle!Executing
  <2> QED
    BY <2>1, <2>2, <2>5 DEF Lifecycle!Next
<1>24. CASE RecoverRow
  <2>1. rec \in Operations /\ state[rec] \in Executing \cup Terminal
    BY <1>24 DEF RecoverRow, TypeOK, ControlInv, RowInv, Recovering, Executing,
           Outstanding, Terminal, Retryable, States, Active
  <2>2. "INTERRUPTED" \in Lifecycle!Unsuccessful
    BY <1>24 DEF RecoverRow, ControlInv, TerminalOf, Lifecycle!Unsuccessful
  <2>3. \/ state[rec] \notin Terminal /\ state' = [state EXCEPT ![rec] = "INTERRUPTED"]
        \/ UNCHANGED state
    BY <1>24 DEF RecoverRow, FinishQuarantined, RecoverSuppressed, Finish
  <2>4. UNCHANGED owner
    BY <1>24 DEF RecoverRow
  <2>5. Lifecycle!End(rec, "INTERRUPTED") \/ UNCHANGED <<state, owner>>
    BY <2>1, <2>3, <2>4 DEF Executing, Lifecycle!End, Lifecycle!Executing
  <2> QED
    BY <2>1, <2>2, <2>5 DEF Lifecycle!Next
<1>25. ASSUME NEW o \in Operations, RecoverMaterial(o)
      PROVE  [Lifecycle!Next]_<<state, owner>>
  BY <1>25 DEF RecoverMaterial, QuarantineSucceeds, QuarantineRaises,
         QuarantineRefuses, QuarantineStops, Fault, Recovering
<1>26. CASE StopClosesAdmission
  BY <1>26 DEF StopClosesAdmission
<1>27. CASE StopSnapshots
  BY <1>27 DEF StopSnapshots
<1>28. CASE StopInterruptsQueued
  <2>1. Lifecycle!InterruptQueued
    BY <1>28 DEF StopInterruptsQueued, InState, TypeOK,
           Lifecycle!InterruptQueued
  <2> QED
    BY <2>1 DEF Lifecycle!Next
<1>29. CASE StopSignals
  BY <1>29 DEF StopSignals, NeedsRecovery
<1>30. CASE StopRecovered
  BY <1>30 DEF StopRecovered
<1>31. CASE StopJoins
  BY <1>31 DEF StopJoins
<1>32. CASE StopJoinExpires
  BY <1>32 DEF StopJoinExpires
<1>33. CASE StopReports
  BY <1>33 DEF StopReports
<1>34. ASSUME NEW o \in Operations, StopExpires(o)
      PROVE  [Lifecycle!Next]_<<state, owner>>
  <2>1. /\ o \in Operations /\ state[o] \in Outstanding \cup Terminal
        /\ UNCHANGED owner
    BY <1>34 DEF StopExpires, TypeOK, RowInv, States
  <2>2. \/ state[o] \notin Terminal /\ state' = [state EXCEPT ![o] = "INTERRUPTED"]
        \/ UNCHANGED state
    BY <1>34 DEF StopExpires, Finish
  <2>3. Lifecycle!End(o, "INTERRUPTED") \/ UNCHANGED <<state, owner>>
    BY <2>1, <2>2 DEF Outstanding, Lifecycle!Executing, Lifecycle!End
  <2> QED
    BY <2>1, <2>3 DEF Lifecycle!Next, Lifecycle!Unsuccessful
<1>35. CASE Crash
  BY <1>35 DEF Crash, LoseMemory
<1>36. CASE UNCHANGED vars
  BY <1>36 DEF vars
<1> QED
  BY <1>1, <1>2, <1>3, <1>4, <1>5, <1>6, <1>7, <1>8, <1>9, <1>10, <1>11, <1>12,
     <1>13, <1>14, <1>15, <1>16, <1>17, <1>18, <1>19, <1>20, <1>21, <1>22,
     <1>23, <1>24, <1>25, <1>26, <1>27, <1>28, <1>29, <1>30, <1>31, <1>32,
     <1>33, <1>34, <1>35, <1>36
  DEF Next, RequestStep, RunnerStep, RecoveryStep, StopStep
-----------------------------------------------------------------------------
(***************************************************************************)
(* The invariant holds, and with it the safety properties.                 *)
(***************************************************************************)
IInv == TypeOK /\ ControlInv /\ RowInv /\ BundleInv /\ FileInv /\ ReceiptInv

\* The queue starts empty, with an idle runner and no file.
LEMMA InitIInv == Init => IInv
<1> SUFFICES ASSUME Init
             PROVE  IInv
  OBVIOUS
<1> USE DEF Init, Active, Executing, Recovering, Alive
<1>1. TypeOK
  BY DEF TypeOK, States, ArtifactStates, FailureCodes, Outcomes
<1>2. ControlInv
  BY DEF ControlInv
<1>3. RowInv
  BY DEF RowInv, InState
<1>4. BundleInv
  BY DEF BundleInv, CountedBundleIsAvailable
<1>5. FileInv
  BY DEF FileInv, ArtifactStateIsTrue, Material, Sealed
<1>6. ReceiptInv
  BY DEF ReceiptInv, InState
<1> QED
  BY <1>1, <1>2, <1>3, <1>4, <1>5, <1>6 DEF IInv

\* The invariant is inductive, so every reachable state satisfies it.
THEOREM Invariance == Spec => []IInv
<1>1. IInv /\ [Next]_vars => IInv'
  BY TypeStep, ControlStep, RowStep, BundleStep, FileStep, ReceiptStep DEF IInv
<1> QED
  BY InitIInv, <1>1, PTL DEF Spec

\* Rows, files and control variables keep their types in every behaviour, for
\* every number of operations, faults, crashes and stops.
THEOREM TypeCorrect == Spec => []TypeOK
<1>1. IInv => TypeOK
  BY DEF IInv
<1> QED
  BY Invariance, <1>1, PTL

\* No crash, stop, fault or recovery leaves a row executing that the live
\* runner thread does not hold: nothing blocks claim_next_operation for ever.
THEOREM NothingIsStranded == Spec => []NoStrandedOperation
<1>1. IInv => NoStrandedOperation
  BY DEF IInv, TypeOK, ControlInv, RowInv, NoStrandedOperation, Alive
<1> QED
  BY Invariance, <1>1, PTL

\* A bundle counted against its workspace stays the published result of a
\* succeeded operation; recovery and quarantine never reach it.
THEOREM CountedBundlesStay == Spec => []CountedBundleIsAvailable
<1>1. IInv => CountedBundleIsAvailable
  BY DEF IInv, BundleInv
<1> QED
  BY Invariance, <1>1, PTL

\* The artifact state of a row tells the truth about the directories, however
\* a quarantine was interrupted.
THEOREM ArtifactStateCorrect == Spec => []ArtifactStateIsTrue
<1>1. IInv => ArtifactStateIsTrue
  BY DEF IInv, FileInv
<1> QED
  BY Invariance, <1>1, PTL

\* A stop that reports STOPPED leaves nothing executing, except for a runner
\* thread that store errors killed.
THEOREM StopIsQuiescent == Spec => []StoppedIsQuiescent
<1>1. IInv => StoppedIsQuiescent
  <2> SUFFICES ASSUME IInv, stopPc = "stopped"
               PROVE  InState(Executing) \subseteq
                         (IF pc = "dead" THEN {cur} ELSE {})
    BY DEF StoppedIsQuiescent
  <2>1. phase = "up" /\ pc \in {"exited", "dead"}
    BY DEF IInv, ControlInv, TypeOK, Alive
  <2>2. InState(Executing) \subseteq {cur}
    BY <2>1 DEF IInv, RowInv
  <2>3. pc = "exited" => cur \notin Operations
    BY ConstantsAssumption DEF IInv, ControlInv
  <2> QED
    BY <2>1, <2>2, <2>3 DEF InState
<1> QED
  BY Invariance, <1>1, PTL

\* The stop receipt never calls an operation interrupted that ended otherwise.
THEOREM ReceiptCorrect == Spec => []ReceiptIsTrue
<1>1. IInv => ReceiptIsTrue
  BY DEF IInv, ReceiptInv, ReceiptIsTrue
<1> QED
  BY Invariance, <1>1, PTL

\* On a host where a subprocess dies with its Core process there is never a
\* second compute subprocess, nor one that nobody supervises.
THEOREM OneSubprocess ==
    ASSUME OrphanWorkers = FALSE
    PROVE  Spec => []OneComputeSubprocess
<1>1. Init => OneComputeSubprocess
  BY DEF Init, OneComputeSubprocess
<1>2. IInv /\ OneComputeSubprocess /\ [Next]_vars => OneComputeSubprocess'
  BY SubprocessStep DEF IInv
<1> QED
  BY Invariance, <1>1, <1>2, PTL DEF Spec
-----------------------------------------------------------------------------
(***************************************************************************)
(* Refinement, and what follows from it.                                   *)
(***************************************************************************)

\* The queue with its threads, files, stops and crashes implements the life
\* cycle that clients are promised.
THEOREM Refinement == Spec => ImplementsLifecycle
<1>1. Init => Lifecycle!Init
  BY DEF Init, Lifecycle!Init
<1>2. IInv /\ [Next]_vars => [Lifecycle!Next]_<<state, owner>>
  BY LifecycleStep DEF IInv
<1> QED
  BY Invariance, <1>1, <1>2, PTL DEF Spec, ImplementsLifecycle, Lifecycle!Spec

\* A step of the life cycle keeps admission within its limits.
LEMMA CapacityStep ==
    ASSUME TypeOK, CapacityRespected, [Lifecycle!Next]_<<state, owner>>
    PROVE  CapacityRespected'
<1> DEFINE Out == InState(Outstanding)
<1>1. IsFiniteSet(Out) /\ Cardinality(Out) \in Nat
  BY ConstantsAssumption, FS_Subset, FS_CardinalityType DEF InState
<1>2. ASSUME NEW o \in Operations, NEW w \in Workspaces, Lifecycle!Enqueue(o, w)
      PROVE  CapacityRespected'
  <2>1. /\ Cardinality(Out) < OutstandingLimit
        /\ \A p \in Out : owner[p] # w
    BY <1>2, SameSets DEF Lifecycle!Enqueue
  <2>2. o \notin Out /\ Out' = Out \cup {o}
    BY <1>2 DEF Lifecycle!Enqueue, TypeOK, InState, Outstanding
  <2>3. Cardinality(Out') = Cardinality(Out) + 1
    BY <1>1, <2>2, FS_AddElement
  <2>4. Cardinality(Out') <= OutstandingLimit
    BY <1>1, <2>1, <2>3, ConstantsAssumption DEF OutstandingLimit
  <2>5. ASSUME NEW p \in Out', NEW q \in Out', owner'[p] = owner'[q]
        PROVE  p = q
    BY <1>2, <2>1, <2>2, <2>5
       DEF Lifecycle!Enqueue, TypeOK, InState, CapacityRespected
  <2> QED
    BY <2>4, <2>5 DEF CapacityRespected, OutstandingLimit
<1>3. ASSUME Out' \subseteq Out, UNCHANGED owner
      PROVE  CapacityRespected'
  <2>1. Cardinality(Out') \in Nat /\ Cardinality(Out') <= Cardinality(Out)
    BY <1>1, <1>3, FS_Subset, FS_CardinalityType
  <2>2. Cardinality(Out') <= OutstandingLimit
    BY <1>1, <2>1, ConstantsAssumption DEF CapacityRespected, OutstandingLimit
  <2> QED
    BY <1>3, <2>2 DEF CapacityRespected, OutstandingLimit
<1>4. \/ \E o \in Operations, w \in Workspaces : Lifecycle!Enqueue(o, w)
      \/ Out' \subseteq Out /\ UNCHANGED owner
  BY DEF Lifecycle!Next, Lifecycle!Start, Lifecycle!RequestCancel,
         Lifecycle!Succeed, Lifecycle!End, Lifecycle!InterruptQueued,
         Lifecycle!Executing, Lifecycle!Unsuccessful, TypeOK, InState,
         Outstanding
<1> QED
  BY <1>2, <1>3, <1>4

\* However requests, retries, stops and crashes interleave, at most one
\* operation runs, at most the configured number waits, and no workspace has
\* two outstanding operations.
THEOREM CapacityBound == Spec => []CapacityRespected
<1>1. Init => CapacityRespected
  <2>1. Init => InState(Outstanding) = {}
    BY DEF Init, InState, Outstanding
  <2> QED
    BY <2>1, FS_EmptySet, ConstantsAssumption
       DEF CapacityRespected, OutstandingLimit
<1>2. IInv /\ CapacityRespected /\ [Next]_vars => CapacityRespected'
  BY LifecycleStep, CapacityStep DEF IInv
<1> QED
  BY Invariance, <1>1, <1>2, PTL DEF Spec

\* A cancellation that was accepted is never overtaken by success, not even
\* when the result was published before the runner read the row.
THEOREM CancellationHonoured == Spec => CancelIsHonoured
<1>1. IInv /\ [Next]_vars =>
        [\A o \in Operations :
            state[o] = "CANCELLING" => state'[o] # "SUCCEEDED"]_vars
  <2> SUFFICES ASSUME IInv, [Next]_vars, NEW o \in Operations,
                      state[o] = "CANCELLING"
               PROVE  state'[o] # "SUCCEEDED"
    OBVIOUS
  <2>1. TypeOK /\ [Lifecycle!Next]_<<state, owner>>
    BY LifecycleStep DEF IInv
  <2> QED
    BY <2>1 DEF Lifecycle!Next, Lifecycle!Enqueue, Lifecycle!Start,
           Lifecycle!RequestCancel, Lifecycle!Succeed, Lifecycle!End,
           Lifecycle!InterruptQueued, Lifecycle!Unsuccessful, TypeOK
<1> QED
  BY Invariance, <1>1, PTL DEF Spec, CancelIsHonoured

\* The first terminal state of a row is its last, whichever of the runner, the
\* stop, the recovery and the clients writes it.
THEOREM TerminalRowsFrozen == Spec => TerminalRowIsFrozen
<1>1. IInv /\ [Next]_vars => [FrozenStep]_vars
  BY TerminalStep DEF IInv
<1> QED
  BY Invariance, <1>1, PTL DEF Spec, TerminalRowIsFrozen, FrozenStep
-----------------------------------------------------------------------------
(***************************************************************************)
(* That an execution ends.  Fairness makes the runner take its steps; that *)
(* none of them has to wait, that they lead to an end, and that the end    *)
(* leaves the row terminal are facts about single steps.                   *)
(***************************************************************************)

\* A step of the runner with an operation in hand.
LEMMA RunnerAdvances ==
    ASSUME TypeOK, ControlInv, RowInv, pc \in Active, RunnerStep \/ RunnerFault
    PROVE  /\ Ahead' < Ahead
           /\ pc' \in Active => cur' = cur
           /\ pc' \in Active \/ pc' = "dead" \/ state'[cur] \in Terminal
<1> USE DEF Ahead, Active, TypeOK, ControlInv, Terminal, Retryable
<1>1. pc \notin {"idle", "claim"}
  OBVIOUS
<1>2. CASE PrepareExecution
  BY <1>2 DEF PrepareExecution
<1>3. CASE PollStops
  BY <1>3 DEF PollStops
<1>4. CASE PollSeesExit
  BY <1>4 DEF PollSeesExit
<1>5. CASE PublishSuccess
  BY <1>5 DEF PublishSuccess
<1>6. CASE CommitSuccess
  BY <1>6 DEF CommitSuccess
<1>7. CASE RecordTerminalFreshBundle
  BY <1>7 DEF RecordTerminalFreshBundle, EndExecution, RowInv, rows
<1>8. CASE RecordRefused
  BY <1>8 DEF RecordRefused, Rescue
<1>9. CASE Quarantine
  BY <1>9 DEF Quarantine
<1>10. CASE QuarantineFails
  BY <1>10 DEF QuarantineFails
<1>11. CASE SettleQuarantined
  BY <1>11 DEF SettleQuarantined, EndExecution, FinishQuarantined, Finish,
         TerminalOf
<1>12. CASE SettleSuppressed
  BY <1>12 DEF SettleSuppressed, EndExecution, Finish, TerminalOf
<1>13. CASE RunnerFails
  BY <1>13 DEF RunnerFails, EndExecution, Finish
<1>14. CASE PrepareRaises
  BY <1>14 DEF PrepareRaises, Rescue
<1>15. CASE PublishRaises
  BY <1>15 DEF PublishRaises, Rescue
<1>16. CASE StoreRaises
  BY <1>16 DEF StoreRaises, Rescue
<1> QED
  BY <1>1, <1>2, <1>3, <1>4, <1>5, <1>6, <1>7, <1>8, <1>9, <1>10, <1>11, <1>12,
     <1>13, <1>14, <1>15, <1>16
  DEF RunnerStep, RunnerFault, BeginTurn, RunnerExits, ClaimNothing,
      ClaimNextOperation, ClaimRaises

\* Nobody else moves the runner, but for the end of its process.
LEMMA OthersLeaveRunner ==
    ASSUME TypeOK, ControlInv, pc \in Active, [Next]_vars
    PROVE  \/ RunnerStep \/ RunnerFault
           \/ UNCHANGED <<pc, cur, outcome>>
           \/ pc' = "off"
<1> USE DEF process, runner, stopping
<1>1. CASE RequestStep
  BY <1>1 DEF RequestStep, AdmitOperation, RetryOperation, CancelQueued,
         CancelRunning
<1>2. CASE WorkerStep
  BY <1>2 DEF WorkerStep, WorkerSealsBundle, WorkerExits
<1>3. CASE RecoveryStep
  BY <1>3 DEF RecoveryStep, RecoverRow, RecoverMaterial
<1>4. CASE StopClosesAdmission
  BY <1>4 DEF StopClosesAdmission
<1>5. CASE StopStep
  BY <1>5 DEF StopStep, StopSnapshots, StopInterruptsQueued, StopSignals,
         StopRecovered, StopJoins, StopJoinExpires, StopReports, StopExpires
<1>6. CASE ProcessStep
  BY <1>6 DEF ProcessStep, ProcessEnds, Restart, RunnerStarts, LoseMemory,
         Active, ControlInv, TypeOK
<1>7. CASE Crash
  BY <1>7 DEF Crash, LoseMemory
<1>8. CASE UNCHANGED vars
  BY <1>8 DEF vars
<1> QED
  BY <1>1, <1>2, <1>3, <1>4, <1>5, <1>6, <1>7, <1>8 DEF Next

\* An execution takes at most ten steps of the runner, errors included, and
\* leaves its row terminal; only the death of the thread or of the process cuts
\* it short.
THEOREM ExecutionsEnd == Spec => ExecutionsAdvance
<1>1. IInv /\ [Next]_vars => [Advance]_vars
  <2> SUFFICES ASSUME IInv, [Next]_vars, pc \in Active
               PROVE  /\ UNCHANGED <<pc, cur, outcome>> \/ Ahead' < Ahead
                      /\ RunnerStep \/ RunnerFault => Ahead' < Ahead
                      /\ pc' \in Active => cur' = cur
                      /\ \/ pc' \in Active \/ pc' \in {"dead", "off"}
                         \/ state'[cur] \in Terminal
    BY DEF Advance
  <2> USE DEF IInv
  <2>1. CASE RunnerStep \/ RunnerFault
    BY <2>1, RunnerAdvances
  <2>2. CASE UNCHANGED <<pc, cur, outcome>>
    BY <2>2, RunnerAdvances
  <2>3. CASE pc' = "off" /\ ~(RunnerStep \/ RunnerFault)
    <3>1. Ahead' = 0
      BY <2>3 DEF Ahead
    <3>2. Ahead > 0
      BY DEF Ahead, Active
    <3> QED BY <2>3, <3>1, <3>2 DEF Active
  <2> QED BY <2>1, <2>2, <2>3, OthersLeaveRunner
<1> QED
  BY Invariance, <1>1, PTL DEF Spec, ExecutionsAdvance

\* What a turn of the runner finds when it comes to the two steps that need
\* something: an oldest row to claim, and a temporary directory to publish under
\* a name that is free (operations.py:599-606, 1567-1579).
RunnerReady ==
    /\ InState({"QUEUED"}) # {} => \E o \in InState({"QUEUED"}) : Oldest(o)
    /\ pc = "publish" => cur \in temp /\ cur \notin run

\* What the runner has made and not yet published is where it left it.
PlaceInv ==
    /\ pc \in {"poll", "publish"} => cur \in temp
    /\ pc \in {"prepare", "poll", "publish"} => cur \notin run

\* Only the runner's own quarantine and publication move its directories.
LEMMA PlaceStep ==
    ASSUME IInv, PlaceInv, [Next]_vars
    PROVE  PlaceInv'
<1> USE DEF PlaceInv, process, runner, stopping, files, IInv, TypeOK, ControlInv
<1>1. CASE RequestStep
  BY <1>1 DEF RequestStep, AdmitOperation, RetryOperation, CancelQueued,
         CancelRunning
<1>2. CASE WorkerStep
  BY <1>2 DEF WorkerStep, WorkerSealsBundle, WorkerExits
<1>3. ASSUME NEW o \in Operations, ClaimNextOperation(o)
      PROVE  PlaceInv'
  BY <1>3 DEF ClaimNextOperation, FileInv, ArtifactStateIsTrue, RowInv, Material
<1>4. CASE BeginTurn \/ RunnerExits \/ ClaimNothing
  BY <1>4 DEF BeginTurn, RunnerExits, ClaimNothing
<1>5. CASE PrepareExecution
  BY <1>5 DEF PrepareExecution
<1>6. CASE PollStops \/ PollSeesExit
  BY <1>6 DEF PollStops, PollSeesExit
<1>7. CASE PublishSuccess \/ CommitSuccess
  BY <1>7 DEF PublishSuccess, CommitSuccess
<1>8. CASE RecordTerminalFreshBundle \/ RecordRefused
  BY <1>8 DEF RecordTerminalFreshBundle, RecordRefused, Rescue, EndExecution
<1>9. CASE Quarantine \/ QuarantineFails
  BY <1>9 DEF Quarantine, QuarantineFails
<1>10. CASE SettleQuarantined \/ SettleSuppressed \/ RunnerFails
  BY <1>10 DEF SettleQuarantined, SettleSuppressed, RunnerFails, EndExecution
<1>11. CASE RunnerFault
  BY <1>11 DEF RunnerFault, ClaimRaises, PrepareRaises, PublishRaises,
         StoreRaises, Rescue
<1>12. CASE RecoverRow
  BY <1>12 DEF RecoverRow
<1>13. ASSUME NEW o \in Operations, RecoverMaterial(o)
       PROVE  PlaceInv'
  BY <1>13 DEF RecoverMaterial, Recovering, Alive
<1>14. CASE StopClosesAdmission
  BY <1>14 DEF StopClosesAdmission
<1>15. CASE StopStep
  BY <1>15 DEF StopStep, StopSnapshots, StopInterruptsQueued, StopSignals,
         StopRecovered, StopJoins, StopJoinExpires, StopReports, StopExpires
<1>16. CASE ProcessStep
  BY <1>16 DEF ProcessStep, ProcessEnds, Restart, RunnerStarts, LoseMemory
<1>17. CASE Crash
  BY <1>17 DEF Crash, LoseMemory
<1>18. CASE UNCHANGED vars
  BY <1>18 DEF vars
<1> QED
  BY <1>1, <1>2, <1>3, <1>4, <1>5, <1>6, <1>7, <1>8, <1>9, <1>10, <1>11, <1>12,
     <1>13, <1>14, <1>15, <1>16, <1>17, <1>18
  DEF Next, RunnerStep, RecoveryStep

\* Clocks that were read have an earliest reading.
LEMMA EarliestReading ==
    ASSUME NEW Readings \in SUBSET Nat, Readings # {}
    PROVE  \E t \in Readings : \A s \in Readings : t <= s
<1> DEFINE Before == OpToRel(<, Nat)
<1>1. IsWellFoundedOn(Before, Nat)
  BY NatLessThanWellFounded
<1>2. PICK t \in Readings : \A s \in Readings : <<s, t>> \notin Before
  BY <1>1, WFMin
<1>3. \A s \in Readings : s < t => <<s, t>> \in Before
  BY DEF OpToRel
<1>4. ASSUME NEW s \in Readings
      PROVE  t <= s
  <2>1. ~(s < t) /\ s \in Nat /\ t \in Nat
    BY <1>2, <1>3
  <2> HIDE DEF Before
  <2> QED BY <2>1
<1> QED BY <1>4

\* A queue that is not empty has an oldest row, equal clocks included.
LEMMA OldestExists ==
    ASSUME TypeOK, InState({"QUEUED"}) # {}
    PROVE  \E o \in InState({"QUEUED"}) : Oldest(o)
<1> DEFINE Readings == {queuedAt[o] : o \in InState({"QUEUED"})}
<1>1. Readings # {} /\ Readings \in SUBSET Nat
  BY DEF InState, TypeOK
<1>2. PICK t \in Readings : \A s \in Readings : t <= s
  BY <1>1, EarliestReading
<1> QED BY <1>2 DEF Oldest

\* The runner never finds the directory it publishes gone, and its name is never
\* taken: _publish_success never raises "operation result already exists"
\* (operations.py:1576-1579). Its claim always finds an oldest row.
THEOREM RunnerIsReady == Spec => []RunnerReady
<1>1. Init => PlaceInv
  BY DEF Init, PlaceInv
<1>2. IInv /\ PlaceInv /\ [Next]_vars => PlaceInv'
  BY PlaceStep
<1>3. IInv /\ PlaceInv => RunnerReady
  BY OldestExists DEF IInv, PlaceInv, RunnerReady
<1> QED
  BY Invariance, <1>1, <1>2, <1>3, PTL DEF Spec
=============================================================================
