------------------------ MODULE ArtifactPublication ------------------------
(***************************************************************************)
(* The artifact root: publication of analysis bundles                      *)
(* (backend/app/references.py), quarantine and retention                   *)
(* (backend/app/artifacts.py).  A bundle is a run directory whose manifest *)
(* names content-addressed objects; runs share objects.  Publishers are    *)
(* child processes of the compute worker, readers live in the Core, and    *)
(* the retention command runs wherever the operator calls it: the mutation *)
(* lock of the module is local to each process, so their steps interleave. *)
(***************************************************************************)
EXTENDS Naturals, FiniteSets

CONSTANTS
  Runs,           \* analysis runs, one per durable operation
  Objects,        \* content-addressed objects
  Content,        \* the objects each bundle names
  Reproduces,     \* the run that a reproduction names, or NoRun
  NoRun,
  MaxNow,         \* bound: retention periods that pass
  MaxDamage,      \* bound: damaged objects
  MaxCleanups     \* bound: retention commands

ASSUME ContentAssumption == Content \in [Runs -> SUBSET Objects]
ASSUME ReproducesAssumption ==
  NoRun \notin Runs /\ Reproduces \in [Runs -> Runs \union {NoRun}]
ASSUME BoundAssumption ==
  MaxNow \in Nat \ {0} /\ MaxDamage \in Nat /\ MaxCleanups \in Nat

VARIABLES
  now,        \* the current retention period
  pub,        \* where the publisher of each run is
  left,       \* the objects a publisher has still to move
  moved,      \* the objects a publisher moved into the store
  stage,      \* runs with a staging directory under temporary/
  lease,      \* runs with a lease directory
  rundir,     \* the run directory: none, empty, sealed by a manifest
  done,       \* completed_at of a sealed run
  store,      \* the state of each object under objects/
  born,       \* the modification time of each object
  items,      \* quarantine items
  reader,     \* a reader whose verification of the run has failed
  recorded,   \* runs that a row of the database names
  registry,   \* the run of the validated-reference registry, or NoRun
  attested,   \* the run an attestation was written for, or NoRun
  cleaner,    \* the retention command
  evidence    \* history: whole runs that were pinned when a command read the pins

pubVars == <<pub, left, moved, stage, lease>>
bundleVars == <<rundir, done, store, born>>
coreVars == <<reader, recorded, registry, attested>>
vars == <<now, pubVars, bundleVars, items, coreVars, cleaner, evidence>>
---------------------------------------------------------------------------
Working == {"leased", "staged", "checked", "moving", "sealed", "published",
            "failing", "shelving", "closing"}
PubStates == Working \union {"idle", "verified", "refused", "failed", "dead"}
Kinds == {"operation", "run", "staging"}
Item == [kind : Kinds, run : Runs, at : 1 .. MaxNow, manifest : BOOLEAN,
         holds : SUBSET Objects]
NoCleanup == [pc |-> "idle", cutoff |-> 0, runs |-> {}, objects |-> {},
              todoRuns |-> {}, todoObjects |-> {}, todoItems |-> {}, count |-> 0]

\* One fresh execution at a time: the worker starts a child when none is left.
Busy == \E r \in Runs : pub[r] \in Working

\* The manifest is in place and every object it names has its digest.
Whole(r) == rundir[r] = "sealed" /\ \A o \in Content[r] : store[o] = "sound"

\* A run directory in quarantine marks its run even without a manifest; the other
\* kinds of material mark it by the manifest that names it.
Marked(r) == \E i \in items : i.run = r /\ (i.kind = "run" \/ i.manifest)

\* What the store returns as verified: a whole bundle that no quarantine marks.
Serves(r) == Whole(r) /\ ~Marked(r)

NewItem(k, r, m) == [kind |-> k, run |-> r, at |-> now, manifest |-> m, holds |-> {}]
Of(k, r) == {i \in items : i.kind = k /\ i.run = r}

Init ==
  /\ now = 1
  /\ pub = [r \in Runs |-> "idle"]
  /\ left = [r \in Runs |-> {}]
  /\ moved = [r \in Runs |-> {}]
  /\ stage = {} /\ lease = {}
  /\ rundir = [r \in Runs |-> "none"]
  /\ done = [r \in Runs |-> 0]
  /\ store = [o \in Objects |-> "absent"]
  /\ born = [o \in Objects |-> 0]
  /\ items = {}
  /\ reader = [r \in Runs |-> "idle"]
  /\ recorded = {} /\ registry = NoRun /\ attested = NoRun
  /\ cleaner = NoCleanup
  /\ evidence = {}
---------------------------------------------------------------------------
(* Publication.                                                            *)

PubStep(r, from, to) == pub[r] = from /\ pub' = [pub EXCEPT ![r] = to]

\* A reproduction reads its target first; then the run must not be quarantined and
\* its lease directory must be new.
Target(r) == Reproduces[r]
Start(r) ==
  /\ ~Busy
  /\ Target(r) # NoRun => Whole(Target(r))
  /\ ~Marked(r) /\ r \notin lease
  /\ PubStep(r, "idle", "leased")
  /\ lease' = lease \union {r}
  /\ UNCHANGED <<now, left, moved, stage, bundleVars, items, coreVars, cleaner, evidence>>

\* The target of a reproduction does not verify: the reproduction is refused and
\* its reader goes on to quarantine the target.
StartRefused(r) ==
  /\ ~Busy
  /\ Target(r) # NoRun /\ ~Whole(Target(r))
  /\ PubStep(r, "idle", "refused")
  /\ reader' = [reader EXCEPT ![Target(r)] =
                  IF @ = "idle" /\ rundir[Target(r)] # "none" THEN "failed" ELSE @]
  /\ UNCHANGED <<now, left, moved, stage, lease, bundleVars, items, recorded, registry,
                 attested, cleaner, evidence>>

\* Objects and manifest are written and verified in the staging directory.
Stage(r) ==
  /\ PubStep(r, "leased", "staged")
  /\ stage' = stage \union {r}
  /\ UNCHANGED <<now, left, moved, lease, bundleVars, items, coreVars, cleaner, evidence>>

\* No object of another content stands at the digest of a member.
CheckObjects(r) ==
  /\ \A o \in Content[r] : store[o] # "damaged"
  /\ PubStep(r, "staged", "checked")
  /\ UNCHANGED <<now, left, moved, stage, lease, bundleVars, items, coreVars, cleaner, evidence>>

MakeRunDirectory(r) ==
  /\ rundir[r] = "none"
  /\ PubStep(r, "checked", "moving")
  /\ rundir' = [rundir EXCEPT ![r] = "empty"]
  /\ left' = [left EXCEPT ![r] = Content[r]]
  /\ UNCHANGED <<now, moved, stage, lease, done, store, born, items, coreVars, cleaner, evidence>>

\* An object that is already there is left alone, with its modification time.
MoveObject(r, o) ==
  /\ pub[r] = "moving" /\ o \in left[r]
  /\ left' = [left EXCEPT ![r] = @ \ {o}]
  /\ IF store[o] = "absent"
     THEN /\ store' = [store EXCEPT ![o] = "sound"]
          /\ born' = [born EXCEPT ![o] = now]
          /\ moved' = [moved EXCEPT ![r] = @ \union {o}]
     ELSE UNCHANGED <<store, born, moved>>
  /\ UNCHANGED <<now, pub, stage, lease, rundir, done, items, coreVars, cleaner, evidence>>

\* The manifest last.
Seal(r) ==
  /\ left[r] = {} /\ rundir[r] = "empty"
  /\ PubStep(r, "moving", "sealed")
  /\ rundir' = [rundir EXCEPT ![r] = "sealed"]
  /\ done' = [done EXCEPT ![r] = now]
  /\ UNCHANGED <<now, left, moved, stage, lease, store, born, items, coreVars, cleaner, evidence>>

Release(r) ==
  /\ PubStep(r, "sealed", "published")
  /\ stage' = stage \ {r} /\ lease' = lease \ {r}
  /\ UNCHANGED <<now, left, moved, bundleVars, items, coreVars, cleaner, evidence>>

VerifyPublished(r) ==
  /\ Whole(r)
  /\ PubStep(r, "published", "verified")
  /\ UNCHANGED <<now, left, moved, stage, lease, bundleVars, items, coreVars, cleaner, evidence>>

VerifyPublishedFails(r) ==
  /\ ~Whole(r)
  /\ PubStep(r, "published", "refused")
  /\ reader' = [reader EXCEPT ![r] =
                  IF @ = "idle" /\ rundir[r] # "none" THEN "failed" ELSE @]
  /\ UNCHANGED <<now, left, moved, stage, lease, bundleVars, items, recorded, registry,
                 attested, cleaner, evidence>>

\* Any error between the lease and the seal: a staged member that does not verify, a
\* collision, a run directory in the way, a file operation that fails.
PublicationFails(r) ==
  /\ pub[r] \in {"leased", "staged", "checked", "moving"}
  /\ pub' = [pub EXCEPT ![r] = IF r \in stage THEN "failing" ELSE "closing"]
  /\ UNCHANGED <<now, left, moved, stage, lease, bundleVars, items, coreVars, cleaner, evidence>>

\* Quarantine of a failed publication: the stage, then each object this publisher
\* had moved, then the manifest, then the run directory.
ShelveStage(r) ==
  /\ PubStep(r, "failing", "shelving")
  /\ stage' = stage \ {r}
  /\ items' = items \union {NewItem("staging", r, FALSE)}
  /\ left' = [left EXCEPT ![r] = moved[r]]
  /\ UNCHANGED <<now, moved, lease, bundleVars, coreVars, cleaner, evidence>>

ShelveObject(r, o) ==
  /\ pub[r] = "shelving" /\ o \in left[r]
  /\ left' = [left EXCEPT ![r] = @ \ {o}]
  /\ IF store[o] # "absent"
     THEN /\ store' = [store EXCEPT ![o] = "absent"]
          /\ items' = {IF i \in Of("staging", r) THEN [i EXCEPT !.holds = @ \union {o}] ELSE i
                         : i \in items}
     ELSE UNCHANGED <<store, items>>
  /\ UNCHANGED <<now, pub, moved, stage, lease, rundir, done, born, coreVars, cleaner, evidence>>

\* Mutant: the manifest does not wait for the objects.
ShelveManifestEarly(r) ==
  /\ PubStep(r, "shelving", "closing")
  /\ items' = {IF i \in Of("staging", r) THEN [i EXCEPT !.manifest = TRUE] ELSE i
                 : i \in items}
  /\ UNCHANGED <<now, left, moved, stage, lease, bundleVars, coreVars, cleaner, evidence>>

ShelveManifest(r) ==
  /\ left[r] = {}
  /\ PubStep(r, "shelving", "closing")
  /\ items' = {IF i \in Of("staging", r) THEN [i EXCEPT !.manifest = TRUE] ELSE i
                 : i \in items}
  /\ UNCHANGED <<now, left, moved, stage, lease, bundleVars, coreVars, cleaner, evidence>>

\* The quarantine of the stage fails and the publisher goes on to the run directory.
ShelvingFails(r) ==
  /\ pub[r] \in {"failing", "shelving"}
  /\ pub' = [pub EXCEPT ![r] = "closing"]
  /\ UNCHANGED <<now, left, moved, stage, lease, bundleVars, items, coreVars, cleaner, evidence>>

ClosePublication(r) ==
  /\ PubStep(r, "closing", "failed")
  /\ lease' = lease \ {r}
  /\ IF rundir[r] = "empty"
     THEN /\ rundir' = [rundir EXCEPT ![r] = "none"]
          /\ items' = items \union {NewItem("run", r, TRUE)}
     ELSE UNCHANGED <<rundir, items>>
  /\ UNCHANGED <<now, left, moved, stage, done, store, born, coreVars, cleaner, evidence>>

\* A timeout, a cancel or a stop ends the child wherever it is.
Kill(r) ==
  /\ pub[r] \in Working
  /\ pub' = [pub EXCEPT ![r] = "dead"]
  /\ UNCHANGED <<now, left, moved, stage, lease, bundleVars, items, coreVars, cleaner, evidence>>
---------------------------------------------------------------------------
(* The worker after its child, and the readers of the Core.                *)

\* The worker records the bundle of a verified run in the database.
Record(r) ==
  /\ pub[r] = "verified" /\ Of("operation", r) = {}
  /\ r \notin recorded
  /\ recorded' = recorded \union {r}
  /\ UNCHANGED <<now, pubVars, bundleVars, items, reader, registry, attested, cleaner, evidence>>

\* The operation is withdrawn: its material goes to quarantine under a manifest that
\* names the run, and the run directory stays.
WithdrawOperation(r) ==
  /\ pub[r] \in {"dead", "verified"} /\ r \notin recorded
  /\ Of("operation", r) = {}
  /\ items' = items \union {NewItem("operation", r, TRUE)}
  /\ UNCHANGED <<now, pubVars, bundleVars, coreVars, cleaner, evidence>>

\* A reader that verifies a run directory and finds it incomplete.
ReadFails(r) ==
  /\ r \in (recorded \union {registry}) \ {NoRun}
  /\ reader[r] = "idle" /\ ~Marked(r)
  /\ rundir[r] # "none" /\ ~Whole(r)
  /\ reader' = [reader EXCEPT ![r] = "failed"]
  /\ UNCHANGED <<now, pubVars, bundleVars, items, recorded, registry, attested, cleaner, evidence>>

\* It moves the run directory, unless another already has.
QuarantineRun(r) ==
  /\ reader[r] = "failed"
  /\ IF Marked(r) \/ rundir[r] = "none"
     THEN /\ reader' = [reader EXCEPT ![r] = "idle"]
          /\ UNCHANGED <<rundir, items>>
     ELSE /\ reader' = [reader EXCEPT ![r] = "moved"]
          /\ rundir' = [rundir EXCEPT ![r] = "none"]
          /\ items' = items \union {NewItem("run", r, FALSE)}
  /\ UNCHANGED <<now, pubVars, done, store, born, recorded, registry, attested, cleaner, evidence>>

QuarantineRunManifest(r) ==
  /\ reader[r] = "moved"
  /\ reader' = [reader EXCEPT ![r] = "idle"]
  /\ items' = {IF i \in Of("run", r) THEN [i EXCEPT !.manifest = TRUE] ELSE i : i \in items}
  /\ UNCHANGED <<now, pubVars, bundleVars, recorded, registry, attested, cleaner, evidence>>

\* Promotion: a verified run, attested and then registered once for the release.
Attest(r) ==
  /\ attested = NoRun /\ registry = NoRun
  /\ Serves(r)
  /\ attested' = r
  /\ UNCHANGED <<now, pubVars, bundleVars, items, reader, recorded, registry, cleaner, evidence>>

Register ==
  /\ attested # NoRun /\ registry = NoRun
  /\ IF Serves(attested)
     THEN registry' = attested /\ UNCHANGED <<attested, reader>>
     ELSE /\ attested' = NoRun
          /\ reader' = [reader EXCEPT ![attested] =
                          IF @ = "idle" /\ rundir[attested] # "none" THEN "failed" ELSE @]
          /\ UNCHANGED registry
  /\ UNCHANGED <<now, pubVars, bundleVars, items, recorded, cleaner, evidence>>
---------------------------------------------------------------------------
(* Retention.                                                              *)

\* Mutant: the rows of the database are not read.
TokensOfFiles == ({registry} \union lease) \ {NoRun}

\* Runs that the rows of the database, the registry and the leases name.  The row
\* of an admitted reproduction keeps its request, which names the target.
Tokens ==
  (recorded \union {registry} \union lease
     \union {Reproduces[r] : r \in {x \in Runs : pub[x] # "idle"}}) \ {NoRun}

\* The pins close the tokens under what the sealed manifests name.
Names(r) == IF rundir[r] = "sealed" THEN {Reproduces[r]} \ {NoRun} ELSE {}
PinnedRuns(tokens) ==
  {t \in Runs : \A S \in SUBSET Runs :
     tokens \subseteq S /\ (\A r \in S : Names(r) \subseteq S) => t \in S}
PinnedObjects(pinned) == UNION {Content[r] : r \in {x \in pinned : rundir[x] = "sealed"}}

\* Objects that a publication put into the store and may still take back.
Provisional == UNION {moved[r] : r \in {x \in Runs : pub[x] \in {"moving", "failing", "shelving"}}}

\* The receipt is written and the lock released.
Done(c) == [NoCleanup EXCEPT !.count = c.count + 1]

BeginCleanup ==
  /\ cleaner.pc = "idle" /\ cleaner.count < MaxCleanups
  /\ \E cutoff \in 1 .. now - 1 :
       cleaner' = [cleaner EXCEPT !.pc = "reading", !.cutoff = cutoff, !.runs = Tokens]
  /\ evidence' = evidence \union
       {r \in Runs : /\ \E s \in (recorded \union {registry}) \ {NoRun} : r \in {s, Reproduces[s]}
                     /\ rundir[r] = "sealed"
                     /\ \A o \in Content[r] : store[o] # "absent" /\ o \notin Provisional}
  /\ UNCHANGED <<now, pubVars, bundleVars, items, coreVars>>

ReadManifests ==
  /\ cleaner.pc = "reading"
  /\ LET pinned == PinnedRuns(cleaner.runs)
     IN cleaner' = [cleaner EXCEPT !.pc = "runs", !.runs = pinned,
                      !.objects = PinnedObjects(pinned),
                      !.todoRuns = {r \in Runs : rundir[r] # "none"}]
  /\ UNCHANGED <<now, pubVars, bundleVars, items, coreVars, evidence>>

\* Mutant: a run completed at the cutoff is kept.
RunEligibleBefore(r) == rundir[r] = "sealed" /\ done[r] < cleaner.cutoff

\* Completed no later than the cutoff; a directory without a manifest has no date.
RunEligible(r) == rundir[r] = "sealed" /\ done[r] <= cleaner.cutoff
ObjectEligible(o) == store[o] # "absent" /\ born[o] <= cleaner.cutoff
ItemEligible(i) == i.manifest /\ i.at <= cleaner.cutoff

SweepRun(r) ==
  /\ cleaner.pc = "runs" /\ r \in cleaner.todoRuns
  /\ cleaner' = [cleaner EXCEPT !.todoRuns = @ \ {r}]
  /\ rundir' = IF r \notin cleaner.runs /\ RunEligible(r)
               THEN [rundir EXCEPT ![r] = "none"] ELSE rundir
  /\ UNCHANGED <<now, pubVars, done, store, born, items, coreVars, evidence>>

ListObjects ==
  /\ cleaner.pc = "runs" /\ cleaner.todoRuns = {}
  /\ cleaner' = [cleaner EXCEPT !.pc = "objects",
                   !.todoObjects = {o \in Objects : store[o] # "absent"}]
  /\ UNCHANGED <<now, pubVars, bundleVars, items, coreVars, evidence>>

SweepObject(o) ==
  /\ cleaner.pc = "objects" /\ o \in cleaner.todoObjects
  /\ cleaner' = [cleaner EXCEPT !.todoObjects = @ \ {o}]
  /\ store' = IF o \notin cleaner.objects /\ ObjectEligible(o)
              THEN [store EXCEPT ![o] = "absent"] ELSE store
  /\ UNCHANGED <<now, pubVars, rundir, done, born, items, coreVars, evidence>>

ListItems ==
  /\ cleaner.pc = "objects" /\ cleaner.todoObjects = {}
  /\ cleaner' = [cleaner EXCEPT !.pc = "items",
                   !.todoItems = {<<i.kind, i.run>> : i \in items}]
  /\ UNCHANGED <<now, pubVars, bundleVars, items, coreVars, evidence>>

SweepItem(k, r) ==
  /\ cleaner.pc = "items" /\ <<k, r>> \in cleaner.todoItems
  /\ cleaner' = [cleaner EXCEPT !.todoItems = @ \ {<<k, r>>}]
  /\ items' = IF r \in cleaner.runs THEN items
              ELSE items \ {i \in Of(k, r) : ItemEligible(i)}
  /\ UNCHANGED <<now, pubVars, bundleVars, coreVars, evidence>>

CleanupSucceeds ==
  /\ cleaner.pc = "items" /\ cleaner.todoItems = {}
  /\ cleaner' = Done(cleaner)
  /\ UNCHANGED <<now, pubVars, bundleVars, items, coreVars, evidence>>

\* The pins cannot be read, a deletion fails, or the process dies: it stops there.
CleanupStops ==
  /\ cleaner.pc # "idle"
  /\ cleaner' = Done(cleaner)
  /\ UNCHANGED <<now, pubVars, bundleVars, items, coreVars, evidence>>
---------------------------------------------------------------------------
(* The environment.                                                        *)

Damage(o) ==
  /\ store[o] = "sound"
  /\ Cardinality({x \in Objects : store[x] = "damaged"}) < MaxDamage
  /\ store' = [store EXCEPT ![o] = "damaged"]
  /\ UNCHANGED <<now, pubVars, rundir, done, born, items, coreVars, cleaner, evidence>>

\* A retention period passes; it outlasts every execution, command and read.
Tick ==
  /\ now < MaxNow
  /\ ~Busy /\ cleaner.pc = "idle" /\ \A r \in Runs : reader[r] = "idle"
  /\ now' = now + 1
  /\ UNCHANGED <<pubVars, bundleVars, items, coreVars, cleaner, evidence>>

Publish ==
  \E r \in Runs :
    \/ Start(r) \/ StartRefused(r) \/ Stage(r) \/ CheckObjects(r) \/ MakeRunDirectory(r)
    \/ Seal(r) \/ Release(r) \/ VerifyPublished(r) \/ VerifyPublishedFails(r)
    \/ PublicationFails(r) \/ ShelveStage(r) \/ ShelveManifest(r) \/ ShelvingFails(r)
    \/ ClosePublication(r) \/ Kill(r)
    \/ \E o \in Objects : MoveObject(r, o) \/ ShelveObject(r, o)

Read ==
  \/ \E r \in Runs : \/ Record(r) \/ WithdrawOperation(r) \/ ReadFails(r)
                      \/ QuarantineRun(r) \/ QuarantineRunManifest(r) \/ Attest(r)
  \/ Register

Cleanup ==
  \/ BeginCleanup \/ ReadManifests \/ ListObjects \/ ListItems \/ CleanupSucceeds
  \/ CleanupStops
  \/ \E r \in Runs : SweepRun(r)
  \/ \E o \in Objects : SweepObject(o)
  \/ \E k \in Kinds, r \in Runs : SweepItem(k, r)

Next == Publish \/ Read \/ Cleanup \/ (\E o \in Objects : Damage(o)) \/ Tick

Spec == Init /\ [][Next]_vars
---------------------------------------------------------------------------
\* Types of the artifact root, its publishers, readers and retention command.
TypeOK ==
  /\ now \in 1 .. MaxNow
  /\ pub \in [Runs -> PubStates]
  /\ left \in [Runs -> SUBSET Objects] /\ moved \in [Runs -> SUBSET Objects]
  /\ stage \subseteq Runs /\ lease \subseteq Runs
  /\ rundir \in [Runs -> {"none", "empty", "sealed"}]
  /\ done \in [Runs -> 0 .. MaxNow]
  /\ store \in [Objects -> {"absent", "sound", "damaged"}]
  /\ born \in [Objects -> 0 .. MaxNow]
  /\ items \subseteq Item
  /\ reader \in [Runs -> {"idle", "failed", "moved"}]
  /\ recorded \subseteq Runs
  /\ registry \in Runs \union {NoRun} /\ attested \in Runs \union {NoRun}
  /\ cleaner \in [pc : {"idle", "reading", "runs", "objects", "items"},
                   cutoff : 0 .. MaxNow, runs : SUBSET Runs, objects : SUBSET Objects,
                   todoRuns : SUBSET Runs, todoObjects : SUBSET Objects,
                   todoItems : SUBSET (Kinds \X Runs), count : Nat]
  /\ evidence \subseteq Runs

\* A run that a row or the registry named when a retention command read its pins, and
\* the run it reproduces, if whole apart from what a publisher may still take back,
\* keep their manifest and their objects, or stand in quarantine where a reader put
\* them (cleanup_artifacts, build_artifact_pin_set).
PinnedEvidenceStays ==
  \A r \in evidence :
    \/ rundir[r] = "sealed" /\ \A o \in Content[r] : store[o] # "absent"
    \/ Of("run", r) # {}

\* A run that any quarantine marks is not served in the next state either: no sweep of
\* the quarantine gives back what a withdrawn operation or a failed read suppressed.
WithdrawnNeverServed == [][\A r \in Runs : Marked(r) => ~Serves(r)']_vars

\* The quarantine item of a failed publication, once its manifest is written, holds
\* every object this publisher had moved, whatever ran in between.
FailureKeepsMaterial ==
  \A i \in items : i.kind = "staging" /\ i.manifest => moved[i.run] \subseteq i.holds
============================================================================
