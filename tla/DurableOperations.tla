------------------------- MODULE DurableOperations -------------------------
(***************************************************************************)
(* The durable compute queue of the Core process: the durable_operations   *)
(* table written under one SQLite lock, the single runner thread that      *)
(* claims a row and supervises one compute subprocess, the artifact        *)
(* directories both leave behind, the bounded stop procedure and the       *)
(* recovery that runs at start-up (backend/app/operations.py, with         *)
(* backend/app/artifacts.py for quarantine and backend/app/main.py for the *)
(* lifespan).                                                              *)
(*                                                                         *)
(* One action is one SQLite transaction or one filesystem effect, so every *)
(* interleaving of the request handlers, the runner thread, the worker and *)
(* the stop procedure is a behaviour.  Idempotent replays return the       *)
(* stored row and change nothing: they are stuttering steps here.          *)
(*                                                                         *)
(* Next to some definitions stands a variant with one mistake in it, which *)
(* no other definition uses; it shows that a property can fail.            *)
(***************************************************************************)
EXTENDS Naturals, FiniteSets

CONSTANTS
    Operations,     \* operation ids that uuid4() may yet hand out
    Workspaces,
    None,           \* "no operation"
    Kinds,          \* operation kinds that clients ask for
    MaxWaiting,     \* QuotaPolicy.max_waiting_operations
    MaxBundles,     \* QuotaPolicy.max_workspace_terminal_fresh_bundles
    OrphanWorkers,  \* may a worker outlive a killed Core process on this host?
    MaxTime,        \* bound: latest queued_at value
    MaxFaults,      \* bound: filesystem or store calls that raise
    MaxCrashes,     \* bound: times the process dies without stopping
    MaxStops        \* bound: stop procedures begun

ASSUME ConstantsAssumption ==
    /\ IsFiniteSet(Operations)
    /\ None \notin Operations \cup Workspaces \cup Kinds
    /\ Kinds \subseteq {"BOUNDED_WORK", "FRESH_ANALYSIS"} /\ Kinds # {}
    /\ MaxWaiting \in Nat
    /\ MaxBundles \in Nat \ {0}
    /\ OrphanWorkers \in BOOLEAN
    /\ {MaxTime, MaxFaults, MaxCrashes, MaxStops} \subseteq Nat

VARIABLES
    \* durable: the rows of durable_operations and workspace_results
    state, artifact, failure, owner, kind, queuedAt, recorded,
    \* durable: directories under the artifact root
    temp,           \* temporary/<operation>
    run,            \* runs/<operation>
    bundle,         \* runs/analysis-run-<id>, sealed by the worker
    direct,         \* quarantine/<operation>
    events,         \* operations with a sealed quarantine/<operation>.event-*
    \* the compute subprocess of each operation
    worker,
    \* the Core process
    phase, freshOpen, stopEvent,
    \* the runner thread
    pc, cur, outcome,
    \* the stop procedure and recovery
    stopPc, pending, todo, rec, recOk, interrupted, late,
    \* what the bounds count
    faults, crashes, stops

rows == <<state, artifact, failure, owner, kind, queuedAt>>
files == <<temp, run, direct, events>>
process == <<phase, freshOpen, stopEvent>>
runner == <<pc, cur, outcome>>
stopping == <<stopPc, pending, todo, rec, recOk, interrupted, late>>
bounds == <<faults, crashes, stops>>
vars == <<rows, recorded, files, bundle, worker, process, runner, stopping,
          bounds>>
-----------------------------------------------------------------------------
Outstanding == {"QUEUED", "RUNNING", "CANCELLING"}
Executing == {"RUNNING", "CANCELLING"}
Retryable == {"INTERRUPTED", "FAILED", "TIMED_OUT", "CANCELLED"}
Terminal == Retryable \cup {"SUCCEEDED"}
States == {"ABSENT"} \cup Outstanding \cup Terminal

ArtifactStates ==
    {"NOT_STARTED", "EXECUTING", "PUBLISHED", "QUARANTINED",
     "QUARANTINE_UNAVAILABLE"}

FailureCodes ==
    {"NONE", "RUN_EXECUTION_INTERRUPTED", "OPERATION_CANCELLED",
     "OPERATION_TIMEOUT", "OPERATION_WORKER_FAILED",
     "OPERATION_RUNNER_FAILED", "OPERATION_ARTIFACT_QUARANTINE_FAILED",
     "OPERATION_CANCELLATION_TIMEOUT"}

\* What the local variable terminal_state of _execute holds; RESCUE stands for
\* the FAILED that its except branch records.
Outcomes ==
    {"NONE", "SUCCEEDED", "INTERRUPTED", "CANCELLED", "TIMED_OUT", "FAILED",
     "RESCUE"}

\* Where the runner thread is inside _execute.
Active ==
    {"prepare", "poll", "publish", "commit", "record", "quarantine", "settle",
     "suppress", "abandon"}

TerminalOfUnmapped(o) == o

TerminalOf(o) == IF o = "RESCUE" THEN "FAILED" ELSE o

ReasonCode(o) ==
    CASE o = "INTERRUPTED" -> "RUN_EXECUTION_INTERRUPTED"
      [] o = "CANCELLED"   -> "OPERATION_CANCELLED"
      [] o = "TIMED_OUT"   -> "OPERATION_TIMEOUT"
      [] o = "RESCUE"      -> "OPERATION_RUNNER_FAILED"
      [] OTHER             -> "OPERATION_WORKER_FAILED"

InState(S) == {o \in Operations : state[o] \in S}

\* min(MAX_RUNNING_OPERATIONS, q) + min(MAX_WAITING_OPERATIONS, q)
OutstandingLimit == 1 + (IF MaxWaiting < 2 THEN MaxWaiting ELSE 2)

FreshBundles(w) == {o \in recorded : owner[o] = w}

Alive == pc \notin {"off", "exited", "dead"}

\* A call that may raise: it does so at most MaxFaults times in a behaviour.
Fault == faults < MaxFaults /\ faults' = faults + 1

Init ==
    /\ state = [o \in Operations |-> "ABSENT"]
    /\ artifact = [o \in Operations |-> "NOT_STARTED"]
    /\ failure = [o \in Operations |-> "NONE"]
    /\ owner = [o \in Operations |-> None]
    /\ kind = [o \in Operations |-> None]
    /\ queuedAt = [o \in Operations |-> 0]
    /\ recorded = {} /\ temp = {} /\ run = {} /\ bundle = {} /\ events = {}
    /\ direct = [o \in Operations |-> "absent"]
    /\ worker = [o \in Operations |-> "none"]
    /\ phase = "up" /\ freshOpen = TRUE /\ stopEvent = FALSE
    /\ pc = "idle" /\ cur = None /\ outcome = "NONE"
    /\ stopPc = "none" /\ pending = {} /\ todo = {}
    /\ rec = None /\ recOk = FALSE /\ interrupted = {} /\ late = {}
    /\ faults = 0 /\ crashes = 0 /\ stops = 0
-----------------------------------------------------------------------------
(***************************************************************************)
(* Row updates shared by the handlers.                                     *)
(***************************************************************************)

FinishOverwrites(o, s, code, art) ==
    /\ state' = [state EXCEPT ![o] = s]
    /\ failure' = [failure EXCEPT ![o] = code]
    /\ artifact' = [artifact EXCEPT ![o] = art]

\* finish_operation: the first terminal state wins.
Finish(o, s, code, art) ==
    IF state[o] \in Terminal
    THEN UNCHANGED <<state, failure, artifact>>
    ELSE /\ state' = [state EXCEPT ![o] = s]
         /\ failure' = [failure EXCEPT ![o] = code]
         /\ artifact' = [artifact EXCEPT ![o] = art]

\* finish_operation(QUARANTINED) followed by mark_quarantine_recovered.  The
\* second call matters only for a row the first one found terminal.
FinishQuarantined(o, s, code) ==
    IF state[o] \in Terminal /\ artifact[o] = "QUARANTINE_UNAVAILABLE"
    THEN /\ artifact' = [artifact EXCEPT ![o] = "QUARANTINED"]
         /\ UNCHANGED <<state, failure>>
    ELSE Finish(o, s, code, "QUARANTINED")

-----------------------------------------------------------------------------
(***************************************************************************)
(* quarantine_operation_material.  Both directories are moved into a new   *)
(* quarantine event and its manifest is written last.  A call that raises  *)
(* may stop between any two of those effects; so does a crash, which is a  *)
(* raising call followed by Crash.                                         *)
(***************************************************************************)
Material(o) == o \in temp \/ o \in run

Sealed(o) == direct[o] = "sealed" \/ o \in events

QuarantineForgetsPublished(o) ==
    /\ Material(o) \/ direct[o] # "open"
    /\ direct' = [direct EXCEPT ![o] = IF @ = "absent" THEN "sealed" ELSE @]
    /\ events' = IF direct[o] # "absent" /\ Material(o)
                 THEN events \cup {o} ELSE events
    /\ temp' = temp \ {o}
    /\ UNCHANGED run

QuarantineSucceeds(o) ==
    /\ Material(o) \/ direct[o] # "open"
    /\ direct' = [direct EXCEPT ![o] = IF @ = "absent" THEN "sealed" ELSE @]
    /\ events' = IF direct[o] # "absent" /\ Material(o)
                 THEN events \cup {o} ELSE events
    /\ temp' = temp \ {o}
    /\ run' = run \ {o}

\* QUARANTINE_INTEGRITY_UNAVAILABLE: an earlier event lost its manifest.
QuarantineRefuses(o) ==
    /\ ~Material(o) /\ direct[o] = "open"
    /\ UNCHANGED <<temp, run, direct, events>>

QuarantineStops(o) ==
    /\ Material(o) \/ direct[o] = "absent"
    /\ direct' \in {direct, [direct EXCEPT ![o] = IF @ = "absent" THEN "open" ELSE @]}
    /\ \/ UNCHANGED <<temp, run>>
       \/ direct'[o] # "absent" /\ temp' = temp \ {o} /\ run' \in {run, run \ {o}}
    /\ UNCHANGED events

QuarantineRaises(o) ==
    \/ QuarantineRefuses(o) /\ UNCHANGED faults
    \/ QuarantineStops(o) /\ Fault

-----------------------------------------------------------------------------
(***************************************************************************)
(* Request handlers.  Any of them may also be refused (rate limit, expired *)
(* workspace, low disk or memory), which changes nothing here.             *)
(***************************************************************************)
CapacityForOneMore(w) ==
    /\ Cardinality(InState(Outstanding)) <= OutstandingLimit
    /\ \A p \in InState(Outstanding) : owner[p] # w

CapacityFor(w) ==
    /\ Cardinality(InState(Outstanding)) < OutstandingLimit
    /\ \A p \in InState(Outstanding) : owner[p] # w

\* queued_at is a wall-clock reading taken before the store lock, so it need
\* not follow commit order.
Enqueue(o, w, k, t) ==
    /\ state[o] = "ABSENT"
    /\ state' = [state EXCEPT ![o] = "QUEUED"]
    /\ owner' = [owner EXCEPT ![o] = w]
    /\ kind' = [kind EXCEPT ![o] = k]
    /\ queuedAt' = [queuedAt EXCEPT ![o] = t]
    /\ UNCHANGED <<artifact, failure>>

AdmitOperation(o, w, k, t) ==
    /\ phase = "up"
    /\ k = "FRESH_ANALYSIS" =>
          freshOpen /\ Cardinality(FreshBundles(w)) < MaxBundles
    /\ CapacityFor(w)
    /\ Enqueue(o, w, k, t)
    /\ UNCHANGED <<recorded, files, bundle, worker, process, runner,
                   stopping, bounds>>

RetryInPlace(old, o, t) ==
    /\ phase = "up"
    /\ state[old] \in Retryable
    /\ CapacityFor(owner[old])
    /\ state' = [state EXCEPT ![old] = "QUEUED"]
    /\ queuedAt' = [queuedAt EXCEPT ![old] = t]
    /\ UNCHANGED <<artifact, failure, owner, kind, recorded, files, bundle,
                   worker, process, runner, stopping, bounds>>

\* retry_operation consults neither the fresh-admission gate nor the fresh
\* bundle count.
RetryOperation(old, o, t) ==
    /\ phase = "up"
    /\ state[old] \in Retryable
    /\ CapacityFor(owner[old])
    /\ Enqueue(o, owner[old], kind[old], t)
    /\ UNCHANGED <<recorded, files, bundle, worker, process, runner,
                   stopping, bounds>>

CancelQueued(o) ==
    /\ phase = "up"
    /\ state[o] = "QUEUED"
    /\ state' = [state EXCEPT ![o] = "CANCELLED"]
    /\ failure' = [failure EXCEPT ![o] = "OPERATION_CANCELLED"]
    /\ artifact' = [artifact EXCEPT ![o] = "NOT_STARTED"]
    /\ UNCHANGED <<owner, kind, queuedAt, recorded, files, bundle, worker,
                   process, runner, stopping, bounds>>

CancelRunning(o) ==
    /\ phase = "up"
    /\ state[o] = "RUNNING"
    /\ state' = [state EXCEPT ![o] = "CANCELLING"]
    /\ UNCHANGED <<artifact, failure, owner, kind, queuedAt, recorded, files,
                   bundle, worker, process, runner, stopping, bounds>>
-----------------------------------------------------------------------------
(***************************************************************************)
(* The compute subprocess.  It runs whether or not anyone supervises it.   *)
(***************************************************************************)
WorkerSealsBundle(o) ==
    /\ worker[o] = "live" /\ kind[o] = "FRESH_ANALYSIS" /\ o \notin bundle
    /\ bundle' = bundle \cup {o}
    /\ UNCHANGED <<rows, recorded, files, worker, process, runner, stopping,
                   bounds>>

\* Return code 0 needs the result file, which lives in the temporary directory.
WorkerExits(o, rc) ==
    /\ worker[o] = "live"
    /\ rc = "ok" => o \in temp
    /\ worker' = [worker EXCEPT ![o] = rc]
    /\ UNCHANGED <<rows, recorded, files, bundle, process, runner, stopping,
                   bounds>>
-----------------------------------------------------------------------------
(***************************************************************************)
(* The runner thread: _run_loop, _execute, _quarantine_and_finish.         *)
(***************************************************************************)
Oldest(o) == \A p \in InState({"QUEUED"}) : queuedAt[o] <= queuedAt[p]

\* while not self._stop_event.is_set(): the event may be set before the claim.
BeginTurn ==
    /\ pc = "idle" /\ ~stopEvent
    /\ pc' = "claim"
    /\ UNCHANGED <<rows, recorded, files, bundle, worker, process, cur,
                   outcome, stopping, bounds>>

ClaimNextOperation(o) ==
    /\ pc = "claim"
    /\ InState(Executing) = {}
    /\ state[o] = "QUEUED" /\ Oldest(o)
    /\ state' = [state EXCEPT ![o] = "RUNNING"]
    /\ artifact' = [artifact EXCEPT ![o] = "EXECUTING"]
    /\ pc' = "prepare" /\ cur' = o
    /\ UNCHANGED <<failure, owner, kind, queuedAt, recorded, files, bundle,
                   worker, process, outcome, stopping, bounds>>

ClaimNothing ==
    /\ pc = "claim"
    /\ InState(Executing) # {} \/ InState({"QUEUED"}) = {}
    /\ pc' = "idle"
    /\ UNCHANGED <<rows, recorded, files, bundle, worker, process, cur,
                   outcome, stopping, bounds>>

\* A store error while claiming escapes _run_loop and ends the thread.
ClaimRaises ==
    /\ pc = "claim"
    /\ Fault
    /\ pc' = "dead"
    /\ UNCHANGED <<rows, recorded, files, bundle, worker, process, cur,
                   outcome, stopping, crashes, stops>>

RunnerExits ==
    /\ pc = "idle" /\ stopEvent
    /\ pc' = "exited"
    /\ UNCHANGED <<rows, recorded, files, bundle, worker, process, cur,
                   outcome, stopping, bounds>>

\* The directory is made, the request written and the subprocess started.
PrepareExecution ==
    /\ pc = "prepare"
    /\ temp' = temp \cup {cur}
    /\ worker' = [worker EXCEPT ![cur] = "live"]
    /\ pc' = "poll"
    /\ UNCHANGED <<rows, recorded, run, direct, events, bundle, process, cur,
                   outcome, stopping, bounds>>

ReapedNothing == worker

\* _terminate, or a return code that poll() has collected.
Reaped == [worker EXCEPT ![cur] = "none"]

\* The except branch of _execute.
Rescue ==
    /\ outcome' = "RESCUE" /\ pc' = "quarantine"
    /\ worker' = Reaped
    /\ UNCHANGED cur

PrepareRaises ==
    /\ pc = "prepare"
    /\ Fault
    /\ temp' \in {temp, temp \cup {cur}}
    /\ Rescue
    /\ UNCHANGED <<rows, recorded, run, direct, events, bundle, process,
                   stopping, crashes, stops>>

\* One turn of the polling loop that ends it; the stop event is read before
\* the row and the row before the deadline.  A deadline may pass at any turn.
PollStops ==
    /\ pc = "poll" /\ worker[cur] = "live"
    /\ outcome' = IF stopEvent THEN "INTERRUPTED"
                  ELSE IF state[cur] \in {"CANCELLING", "CANCELLED"}
                  THEN "CANCELLED" ELSE "TIMED_OUT"
    /\ worker' = Reaped
    /\ pc' = "quarantine"
    /\ UNCHANGED <<rows, recorded, files, bundle, process, cur, stopping,
                   bounds>>

PollSeesExit ==
    /\ pc = "poll" /\ worker[cur] # "live"
    /\ outcome' = IF state[cur] \in {"CANCELLING", "CANCELLED"} THEN "CANCELLED"
                  ELSE IF worker[cur] = "ok" THEN "SUCCEEDED" ELSE "FAILED"
    /\ worker' = Reaped
    /\ pc' = IF outcome' = "SUCCEEDED" THEN "publish" ELSE "quarantine"
    /\ UNCHANGED <<rows, recorded, files, bundle, process, cur, stopping,
                   bounds>>

\* _publish_success: the temporary directory becomes runs/<operation>.
PublishSuccess ==
    /\ pc = "publish" /\ cur \in temp /\ cur \notin run
    /\ temp' = temp \ {cur} /\ run' = run \cup {cur}
    /\ pc' = "commit"
    /\ UNCHANGED <<rows, recorded, direct, events, bundle, worker, process,
                   cur, outcome, stopping, bounds>>

PublishRaises ==
    /\ pc = "publish"
    /\ Fault
    /\ Rescue
    /\ UNCHANGED <<rows, recorded, files, bundle, process, stopping, crashes,
                   stops>>

MayCommitAlways(o) == TRUE

\* expected_state = "RUNNING"
MayCommit(o) == state[o] = "RUNNING"

\* finish_operation(SUCCEEDED, expected_state = RUNNING): a row that left
\* RUNNING keeps its state and the publication is withdrawn.
CommitSuccess ==
    /\ pc = "commit"
    /\ IF MayCommit(cur)
       THEN /\ Finish(cur, "SUCCEEDED", "NONE", "PUBLISHED")
            /\ pc' = "record" /\ UNCHANGED outcome
       ELSE /\ UNCHANGED <<state, failure, artifact>>
            /\ pc' = "quarantine" /\ outcome' = "CANCELLED"
    /\ UNCHANGED <<owner, kind, queuedAt, recorded, files, bundle, worker,
                   process, cur, stopping, bounds>>

EndExecution == pc' = "idle" /\ cur' = None /\ outcome' = "NONE"

\* Only a bundle the worker sealed (estimated or abstained) is counted.
NeedsRecord(o) == kind[o] = "FRESH_ANALYSIS" /\ o \in bundle

RecordTerminalFreshBundle ==
    /\ pc = "record"
    /\ IF NeedsRecord(cur)
       THEN /\ Cardinality(FreshBundles(owner[cur])) < MaxBundles
            /\ recorded' = recorded \cup {cur}
       ELSE UNCHANGED recorded
    /\ EndExecution
    /\ UNCHANGED <<rows, files, bundle, worker, process, stopping, bounds>>

\* The ledger refuses the mutation (bundle limit, lifetime or rate limit,
\* expired workspace); the exception reaches the except branch of _execute.
RecordRefused ==
    /\ pc = "record" /\ NeedsRecord(cur)
    /\ Rescue
    /\ UNCHANGED <<rows, recorded, files, bundle, process, stopping, bounds>>

Quarantine ==
    /\ pc = "quarantine"
    /\ QuarantineSucceeds(cur)
    /\ pc' = "settle"
    /\ UNCHANGED <<rows, recorded, bundle, worker, process, cur, outcome,
                   stopping, bounds>>

QuarantineFails ==
    /\ pc = "quarantine"
    /\ QuarantineRaises(cur)
    /\ pc' = "suppress"
    /\ UNCHANGED <<rows, recorded, bundle, worker, process, cur, outcome,
                   stopping, crashes, stops>>

SettleQuarantined ==
    /\ pc = "settle"
    /\ FinishQuarantined(cur, TerminalOf(outcome), ReasonCode(outcome))
    /\ EndExecution
    /\ UNCHANGED <<owner, kind, queuedAt, recorded, files, bundle, worker,
                   process, stopping, bounds>>

SettleSuppressed ==
    /\ pc = "suppress"
    /\ Finish(cur, TerminalOf(outcome), "OPERATION_ARTIFACT_QUARANTINE_FAILED",
              "QUARANTINE_UNAVAILABLE")
    /\ EndExecution
    /\ UNCHANGED <<owner, kind, queuedAt, recorded, files, bundle, worker,
                   process, stopping, bounds>>

StoreRaisesAlwaysRescued ==
    /\ pc \in {"poll", "commit", "record", "settle", "suppress"}
    /\ Fault
    /\ Rescue
    /\ UNCHANGED <<rows, recorded, files, bundle, process, stopping, crashes,
                   stops>>

\* A store call raises: the first time the except branch of _execute retries
\* the quarantine, the second time _run_loop catches the exception.
StoreRaises ==
    /\ pc \in {"poll", "commit", "record", "settle", "suppress"}
    /\ Fault
    /\ IF outcome = "RESCUE"
       THEN pc' = "abandon" /\ UNCHANGED <<cur, outcome, worker>>
       ELSE Rescue
    /\ UNCHANGED <<rows, recorded, files, bundle, process, stopping, crashes,
                   stops>>

\* The except branch of _run_loop.
RunnerFails ==
    /\ pc = "abandon"
    /\ \/ /\ Finish(cur, "FAILED", "OPERATION_RUNNER_FAILED",
                    "QUARANTINE_UNAVAILABLE")
          /\ EndExecution /\ UNCHANGED faults
       \/ /\ Fault
          /\ pc' = "dead"
          /\ UNCHANGED <<state, failure, artifact, cur, outcome>>
    /\ UNCHANGED <<owner, kind, queuedAt, recorded, files, bundle, worker,
                   process, stopping, crashes, stops>>
-----------------------------------------------------------------------------
(***************************************************************************)
(* Recovery, shared by start-up and by a stop that finds the runner thread *)
(* dead: recover_interrupted_operations over the rows in todo.             *)
(***************************************************************************)
NeedsRecoveryRunningOnly == InState({"RUNNING"})

NeedsRecovery ==
    {o \in Operations :
        \/ state[o] \in Executing
        \/ state[o] = "INTERRUPTED" /\ artifact[o] = "QUARANTINE_UNAVAILABLE"}

Recovering == phase = "recovering" \/ stopPc = "recover"

RecoverMaterial(o) ==
    /\ Recovering /\ rec = None /\ o \in todo
    /\ rec' = o
    /\ \/ QuarantineSucceeds(o) /\ recOk' = TRUE /\ UNCHANGED faults
       \/ QuarantineRaises(o) /\ recOk' = FALSE
    /\ UNCHANGED <<rows, recorded, bundle, worker, process, runner, stopPc,
                   pending, todo, interrupted, late, crashes, stops>>

\* mark_quarantine_failed, then finish_operation.
RecoverSuppressed(o) ==
    IF state[o] \in Terminal
    THEN /\ failure' = IF artifact[o] = "QUARANTINE_UNAVAILABLE"
                       THEN [failure EXCEPT ![o] =
                                "OPERATION_ARTIFACT_QUARANTINE_FAILED"]
                       ELSE failure
         /\ UNCHANGED <<state, artifact>>
    ELSE Finish(o, "INTERRUPTED", "OPERATION_ARTIFACT_QUARANTINE_FAILED",
                "QUARANTINE_UNAVAILABLE")

RecoverRow ==
    /\ rec # None
    /\ IF recOk THEN FinishQuarantined(rec, "INTERRUPTED",
                                       "RUN_EXECUTION_INTERRUPTED")
                ELSE RecoverSuppressed(rec)
    /\ todo' = todo \ {rec} /\ rec' = None /\ recOk' = FALSE
    /\ interrupted' = IF stopPc = "recover" THEN interrupted \cup {rec}
                                            ELSE interrupted
    /\ UNCHANGED <<owner, kind, queuedAt, recorded, files, bundle, worker,
                   process, runner, stopPc, pending, late, bounds>>

-----------------------------------------------------------------------------
(***************************************************************************)
(* OperationRunner.stop, reached from POST /api/lifecycle/stop and from    *)
(* the end of the lifespan; requests are still served while it runs.  A    *)
(* second call returns the memoised receipt and changes nothing.           *)
(***************************************************************************)
StopClosesAdmission ==
    /\ phase = "up" /\ stopPc = "none" /\ stops < MaxStops
    /\ stops' = stops + 1
    /\ freshOpen' = FALSE
    /\ stopPc' = "snapshot"
    /\ UNCHANGED <<rows, recorded, files, bundle, worker, phase, stopEvent,
                   runner, pending, todo, rec, recOk, interrupted, late,
                   faults, crashes>>

StopSnapshots ==
    /\ stopPc = "snapshot"
    /\ pending' = InState(Outstanding)
    /\ stopPc' = "drain"
    /\ UNCHANGED <<rows, recorded, files, bundle, worker, process, runner,
                   todo, rec, recOk, interrupted, late, bounds>>

\* interrupt_queued_operations
StopInterruptsQueued ==
    /\ stopPc = "drain"
    /\ LET queued == InState({"QUEUED"}) IN
       /\ state' = [o \in Operations |->
                       IF o \in queued THEN "INTERRUPTED" ELSE state[o]]
       /\ failure' = [o \in Operations |->
                         IF o \in queued THEN "RUN_EXECUTION_INTERRUPTED"
                                         ELSE failure[o]]
       /\ artifact' = [o \in Operations |->
                          IF o \in queued THEN "NOT_STARTED" ELSE artifact[o]]
       /\ interrupted' = queued
    /\ stopPc' = "signal"
    /\ UNCHANGED <<owner, kind, queuedAt, recorded, files, bundle, worker,
                   process, runner, pending, todo, rec, recOk, late, bounds>>

StopSignals ==
    /\ stopPc = "signal"
    /\ stopEvent' = TRUE
    /\ IF Alive
       THEN stopPc' = "join" /\ UNCHANGED todo
       ELSE stopPc' = "recover" /\ todo' = NeedsRecovery
    /\ UNCHANGED <<rows, recorded, files, bundle, worker, phase, freshOpen,
                   runner, pending, rec, recOk, interrupted, late, bounds>>

StopRecovered ==
    /\ stopPc = "recover" /\ todo = {} /\ rec = None
    /\ stopPc' = "stopped"
    /\ UNCHANGED <<rows, recorded, files, bundle, worker, process, runner,
                   pending, todo, rec, recOk, interrupted, late, bounds>>

StopJoinsUnchecked ==
    /\ stopPc = "join"
    /\ stopPc' = "report"
    /\ UNCHANGED <<rows, recorded, files, bundle, worker, process, runner,
                   pending, todo, rec, recOk, interrupted, late, bounds>>

StopJoins ==
    /\ stopPc = "join" /\ ~Alive
    /\ stopPc' = "report"
    /\ UNCHANGED <<rows, recorded, files, bundle, worker, process, runner,
                   pending, todo, rec, recOk, interrupted, late, bounds>>

\* The join expires while the thread is still working.
StopJoinExpires ==
    /\ stopPc = "join" /\ Alive
    /\ stopPc' = "expire"
    /\ todo' = InState(Outstanding)
    /\ UNCHANGED <<rows, recorded, files, bundle, worker, process, runner,
                   pending, rec, recOk, interrupted, late, bounds>>

StopExpires(o) ==
    /\ stopPc = "expire" /\ o \in todo
    /\ Finish(o, "INTERRUPTED", "OPERATION_CANCELLATION_TIMEOUT",
              "QUARANTINE_UNAVAILABLE")
    /\ todo' = todo \ {o}
    /\ late' = late \cup {o}
    /\ UNCHANGED <<owner, kind, queuedAt, recorded, files, bundle, worker,
                   process, runner, stopPc, pending, rec, recOk, interrupted,
                   bounds>>

StopReportsPending ==
    /\ \/ stopPc = "report" /\ stopPc' = "stopped"
       \/ stopPc = "expire" /\ todo = {} /\ stopPc' = "timed_out"
    /\ interrupted' = interrupted \cup pending
    /\ UNCHANGED <<rows, recorded, files, bundle, worker, process, runner,
                   pending, todo, rec, recOk, late, bounds>>

\* Receipt: what the snapshot held and ended INTERRUPTED.
StopReports ==
    /\ \/ stopPc = "report" /\ stopPc' = "stopped"
       \/ stopPc = "expire" /\ todo = {} /\ stopPc' = "timed_out"
    /\ interrupted' = interrupted \cup (pending \cap InState({"INTERRUPTED"}))
    /\ UNCHANGED <<rows, recorded, files, bundle, worker, process, runner,
                   pending, todo, rec, recOk, late, bounds>>

-----------------------------------------------------------------------------
(***************************************************************************)
(* The Core process ends, crashes and starts again.                        *)
(***************************************************************************)
LoseMemory ==
    /\ phase' = "down" /\ freshOpen' = TRUE /\ stopEvent' = FALSE
    /\ pc' = "off" /\ cur' = None /\ outcome' = "NONE"
    /\ stopPc' = "none" /\ pending' = {} /\ todo' = {}
    /\ rec' = None /\ recOk' = FALSE /\ interrupted' = {} /\ late' = {}
    /\ \/ worker' = [o \in Operations |-> "none"]
       \/ OrphanWorkers /\ UNCHANGED worker
    /\ UNCHANGED <<rows, recorded, files, bundle>>

ProcessEnds ==
    /\ stopPc \in {"stopped", "timed_out"}
    /\ LoseMemory
    /\ UNCHANGED bounds

Crash ==
    /\ phase # "down" /\ crashes < MaxCrashes
    /\ crashes' = crashes + 1
    /\ LoseMemory
    /\ UNCHANGED <<faults, stops>>

Restart ==
    /\ phase = "down"
    /\ phase' = "recovering"
    /\ todo' = NeedsRecovery
    /\ UNCHANGED <<rows, recorded, files, bundle, worker, freshOpen, stopEvent,
                   runner, stopPc, pending, rec, recOk, interrupted, late,
                   bounds>>

RunnerStarts ==
    /\ phase = "recovering" /\ todo = {} /\ rec = None
    /\ phase' = "up" /\ pc' = "idle"
    /\ UNCHANGED <<rows, recorded, files, bundle, worker, freshOpen, stopEvent,
                   cur, outcome, stopping, bounds>>

-----------------------------------------------------------------------------
RequestStep ==
    \E o \in Operations :
        \/ \E w \in Workspaces, k \in Kinds, t \in 0 .. MaxTime :
              AdmitOperation(o, w, k, t)
        \/ \E old \in Operations, t \in 0 .. MaxTime : RetryOperation(old, o, t)
        \/ CancelQueued(o) \/ CancelRunning(o)

WorkerStep ==
    \E o \in Operations :
        \/ WorkerSealsBundle(o)
        \/ \E rc \in {"ok", "bad"} : WorkerExits(o, rc)

RunnerStep ==
    \/ BeginTurn \/ RunnerExits \/ ClaimNothing
    \/ \E o \in Operations : ClaimNextOperation(o)
    \/ PrepareExecution \/ PollStops \/ PollSeesExit
    \/ PublishSuccess \/ CommitSuccess
    \/ RecordTerminalFreshBundle \/ RecordRefused
    \/ Quarantine \/ QuarantineFails
    \/ SettleQuarantined \/ SettleSuppressed \/ RunnerFails

RunnerFault == ClaimRaises \/ PrepareRaises \/ PublishRaises \/ StoreRaises

RecoveryStep == RecoverRow \/ \E o \in Operations : RecoverMaterial(o)

StopStep ==
    \/ StopSnapshots \/ StopInterruptsQueued \/ StopSignals \/ StopRecovered
    \/ StopJoins \/ StopJoinExpires \/ StopReports
    \/ \E o \in Operations : StopExpires(o)

ProcessStep == ProcessEnds \/ Restart \/ RunnerStarts

Next ==
    \/ RequestStep \/ WorkerStep \/ RunnerStep \/ RunnerFault
    \/ RecoveryStep \/ StopClosesAdmission \/ StopStep
    \/ ProcessStep \/ Crash

Spec == Init /\ [][Next]_vars

\* The runner thread, an expiring join or deadline, recovery and the stop
\* procedure once begun keep going.  WF_vars(ProcessStep) also assumes that a
\* process which ended is started again: a crash is answered by the host
\* (railway.toml), an orderly stop by nobody but the user who runs start.ps1.
\* Clients, faults, crashes and stop requests owe nothing.
FairSpec ==
    /\ Spec
    /\ WF_vars(RunnerStep) /\ WF_vars(RecoveryStep)
    /\ WF_vars(StopStep) /\ WF_vars(ProcessStep)
-----------------------------------------------------------------------------
(***************************************************************************)
(* What GET /api/analysis-runs/{id} reads of an operation beside its row:  *)
(* runs/<operation>/analysis-run-result.json.                              *)
(***************************************************************************)

\* load_fresh_analysis_result: a verified estimate of a bundle the worker
\* sealed, with no regard to the row.
ResultReadable(o) == kind[o] = "FRESH_ANALYSIS" /\ o \in run \cap bundle
-----------------------------------------------------------------------------
(***************************************************************************)
(* Properties.                                                             *)
(***************************************************************************)

\* Every variable keeps its type; in particular the rows hold only the states,
\* artifact states and failure codes that operations.py:30-56 declares.
TypeOK ==
    /\ state \in [Operations -> States]
    /\ artifact \in [Operations -> ArtifactStates]
    /\ failure \in [Operations -> FailureCodes]
    /\ owner \in [Operations -> Workspaces \cup {None}]
    /\ kind \in [Operations -> Kinds \cup {None}]
    /\ queuedAt \in [Operations -> Nat]
    /\ recorded \subseteq Operations /\ temp \subseteq Operations
    /\ run \subseteq Operations /\ bundle \subseteq Operations
    /\ events \subseteq Operations /\ pending \subseteq Operations
    /\ todo \subseteq Operations /\ interrupted \subseteq Operations
    /\ late \subseteq Operations
    /\ direct \in [Operations -> {"absent", "open", "sealed"}]
    /\ worker \in [Operations -> {"none", "live", "ok", "bad"}]
    /\ phase \in {"up", "down", "recovering"}
    /\ freshOpen \in BOOLEAN /\ stopEvent \in BOOLEAN
    /\ pc \in {"idle", "claim", "exited", "dead", "off"} \cup Active
    /\ cur \in Operations \cup {None}
    /\ pc \in Active => cur \in Operations
    /\ outcome \in Outcomes
    /\ stopPc \in {"none", "snapshot", "drain", "signal", "join", "expire",
                   "report", "recover", "stopped", "timed_out"}
    /\ rec \in Operations \cup {None} /\ recOk \in BOOLEAN
    /\ faults \in Nat /\ crashes \in Nat /\ stops \in Nat

\* While a live runner thread is between operations no row is RUNNING or
\* CANCELLING.  claim_next_operation refuses to claim while one is, so a row
\* stranded there, by a crash or a stop, would block the queue for ever.
NoStrandedOperation ==
    Alive => InState(Executing) \subseteq {cur}

\* Admission and retry, before and after any stop, crash or recovery, leave at
\* most one running and the configured number of waiting operations, and at
\* most one outstanding operation per workspace (operations.py:412-450).
CapacityRespected ==
    /\ Cardinality(InState(Outstanding)) <= OutstandingLimit
    /\ \A o, p \in InState(Outstanding) : owner[o] = owner[p] => o = p

\* A bundle that was counted against its workspace is, from then on, the
\* published result of a succeeded operation: no later recovery or quarantine
\* withdraws it (operations.py:1494-1505, 1118-1128).
CountedBundleIsAvailable ==
    \A o \in recorded :
        /\ state[o] = "SUCCEEDED" /\ artifact[o] = "PUBLISHED"
        /\ ResultReadable(o)

\* A row says QUARANTINED only when nothing of the operation is left in
\* temporary/ or runs/ and a quarantine event holds its manifest; a row that
\* never started has left nothing behind; and a published result is in runs/ or
\* was moved, when recording its bundle was refused, into a quarantine event.
ArtifactStateIsTrue ==
    \A o \in Operations :
        /\ artifact[o] = "QUARANTINED" => ~Material(o) /\ Sealed(o)
        /\ artifact[o] = "NOT_STARTED" =>
              ~Material(o) /\ ~Sealed(o) /\ o \notin bundle /\ worker[o] = "none"
        /\ artifact[o] = "PUBLISHED" => o \in run \/ direct[o] # "absent"

\* At most one compute subprocess is alive, and only while the runner polls the
\* operation it belongs to; on a host where a killed Core process takes its
\* subprocess with it (operations.py:1227).
OneComputeSubprocess ==
    \A o \in Operations : worker[o] = "live" => pc = "poll" /\ o = cur

\* A stop that reports STOPPED leaves no operation executing, however requests
\* and the runner interleaved with it (operations.py:1302-1352).  The operation
\* of a runner thread that died of store errors during the join is excepted.
StoppedIsQuiescent ==
    stopPc = "stopped" =>
        InState(Executing) \subseteq (IF pc = "dead" THEN {cur} ELSE {})

\* Every operation the stop receipt calls interrupted is INTERRUPTED.
ReceiptIsTrue ==
    stopPc \in {"stopped", "timed_out"} => interrupted \subseteq InState({"INTERRUPTED"})

\* Once a cancellation was accepted the operation never succeeds, even when its
\* worker had finished and its result was already published.
CancelIsHonoured ==
    [][\A o \in Operations :
          state[o] = "CANCELLING" => state'[o] # "SUCCEEDED"]_vars

\* A terminal row never changes its state, and the only change its artifact
\* state may see is the recovery of an unavailable quarantine: the runner, the
\* stop and the recovery race to finish a row and the first one wins.
FrozenStep ==
    \A o \in Operations :
        state[o] \in Terminal =>
            /\ state'[o] = state[o]
            /\ artifact'[o] # artifact[o] =>
                  artifact[o] = "QUARANTINE_UNAVAILABLE" /\ artifact'[o] = "QUARANTINED"

TerminalRowIsFrozen == [][FrozenStep]_vars

\* How many steps the runner may yet take before it lets go of its operation:
\* RESCUE marks the second and last attempt at a quarantine.
Ahead ==
    LET last == IF outcome = "RESCUE" THEN 2 ELSE 4
    IN  CASE pc = "prepare" -> 10
          [] pc = "poll" -> 9
          [] pc = "publish" -> 8
          [] pc = "commit" -> 7
          [] pc = "record" -> 6
          [] pc = "quarantine" -> last + 1
          [] pc \in {"settle", "suppress"} -> last
          [] pc = "abandon" -> 1
          [] OTHER -> 0

\* Whatever the runner does with an operation, a store or file system error
\* included, brings it nearer to the end, and nothing sends it back.  It lets go
\* of a terminal row only, unless it dies of the errors or with the process
\* (operations.py:1399-1522).
Advance ==
    pc \in Active =>
        /\ UNCHANGED <<pc, cur, outcome>> \/ Ahead' < Ahead
        /\ RunnerStep \/ RunnerFault => Ahead' < Ahead
        /\ pc' \in Active => cur' = cur
        /\ pc' \in Active \/ pc' \in {"dead", "off"} \/ state'[cur] \in Terminal

ExecutionsAdvance == [][Advance]_vars

\* The queue, its runner, its stop and its recovery implement the life cycle
\* that clients are promised: every step they take is one of its steps.
Lifecycle == INSTANCE OperationLifecycle WITH Limit <- OutstandingLimit

ImplementsLifecycle == Lifecycle!Spec

\* Every admitted operation reaches a terminal state across cancellations,
\* stops, crashes and restarts, provided a process that ended is started again.
EveryOperationEnds ==
    \A o \in Operations : state[o] \in Outstanding ~> state[o] \in Terminal
=============================================================================
