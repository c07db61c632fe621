--------------------------- MODULE StateRecovery ---------------------------
(***************************************************************************)
(* The sealed state root of a prepared local Core, its archives, baseline  *)
(* and quarantine: recovery.py, state.py, the setup commands of            *)
(* local_fallback.py and the start of the Core in main.py.                 *)
(*                                                                         *)
(* One action is one effect on the disk (a rename, a marker, a manifest),  *)
(* so a command may die between any two of them and the launcher may take  *)
(* steps in between.  One operator runs either the setup or one recovery   *)
(* command at a time.                                                      *)
(***************************************************************************)
EXTENDS Integers, FiniteSets

CONSTANTS
    MaxData,         \* bound: versions of the state the Core writes
    MaxCrashes,      \* bound: processes that die
    MaxCorruptions,  \* bound: trees damaged on the disk
    MaxUpgrades,     \* bound: changes of the configured release
    TornRemoval      \* a removal of the baseline may be cut short

ASSUME ConstantsAssumption ==
    /\ MaxData \in Nat /\ MaxCrashes \in Nat
    /\ MaxCorruptions \in Nat /\ MaxUpgrades \in Nat
    /\ TornRemoval \in BOOLEAN

VARIABLES
    root,       \* the state root
    marker,     \* runtime/local-fallback-process.json exists
    busy,       \* durable_operations hold an unfinished row or cannot be read
    archives,   \* .state-recovery/archives
    baseline,   \* .state-recovery/baseline
    quarantine, \* versions preserved under .state-recovery/quarantine
    pending,    \* recovery-pending.json exists
    op,         \* the running recovery command
    setup,      \* the place of the running setup command
    launcher,   \* the place of start.ps1 and of the Core it started
    gap,        \* history: a root was archived away and not yet replaced
    departed,   \* history: versions that were moved out of the state root
    spent       \* versions written, crashes, corruptions, upgrades so far

disk == <<root, marker, busy, archives, baseline, quarantine, pending>>
vars == <<root, marker, busy, archives, baseline, quarantine, pending,
          op, setup, launcher, gap, departed, spent>>

Data == 0..MaxData

\* What _verify_root says of a tree: sealed, damaged, or sealed for another
\* release configuration.
Healths == {"SOUND", "CORRUPT", "FOREIGN"}
Contents == [data : Data, setup : BOOLEAN, health : Healths]

\* No tree at all; a root that is not a directory verifies as corrupt.
NoState == [data |-> -1, setup |-> FALSE, health |-> "CORRUPT"]
\* A baseline directory that lost its manifest or its state.
Torn == [data |-> -2, setup |-> FALSE, health |-> "CORRUPT"]
Pristine == [data |-> 0, setup |-> FALSE, health |-> "SOUND"]

Archives == [content : Contents, sealed : BOOLEAN]

Replacing == {"reset", "restore", "restore_baseline"}
Kinds == Replacing \cup {"archive", "verify"}
Places == {"baseline", "displace", "verify", "mark", "current", "move", "manifest", "pend",
           "copy", "swap", "receipt", "archive_copy", "archive_seal"}
Idle == [kind |-> "none", pc |-> "idle", source |-> NoState, moved |-> NoState]

Refuse == op' = Idle
At(place) == op.pc = place
Goto(place) == op' = [op EXCEPT !.pc = place]
Locked == launcher # "off" \/ setup = "smoke"
HasRoot == root # NoState

----------------------------------------------------------------------------
Init ==
    /\ root = NoState /\ marker = FALSE /\ busy = FALSE
    /\ archives = {} /\ baseline = NoState /\ quarantine = {} /\ pending = FALSE
    /\ op = Idle /\ setup = "off" /\ launcher = "off"
    /\ gap = FALSE /\ departed = {}
    /\ spent = [written |-> 0, crashes |-> 0, corruptions |-> 0, upgrades |-> 0]

(***************************************************************************)
(* Moving trees.  The launcher keeps a lock file open below the state      *)
(* root, so a rename of the root fails while the launcher lives.           *)
(***************************************************************************)
RootLeaves ==
    /\ HasRoot /\ ~Locked
    /\ root' = NoState /\ busy' = FALSE /\ marker' = FALSE
    /\ departed' = departed \cup {root.data}

QuarantineRoot ==
    /\ RootLeaves
    /\ quarantine' = quarantine \cup {root.data}
    /\ UNCHANGED <<archives, baseline, pending, setup, launcher, gap, spent>>

QuarantineBaseline ==
    /\ baseline' = NoState
    /\ quarantine' = quarantine \cup {baseline.data}
    /\ UNCHANGED <<root, marker, busy, archives, pending, gap, departed>>

\* _baseline_exists: directory, state and manifest are there.
BaselineExists == baseline \notin {NoState, Torn}

CreateBaseline ==
    /\ baseline' = root
    /\ UNCHANGED <<root, marker, busy, archives, quarantine, pending, gap, departed>>

\* _ensure_baseline_snapshot as the cases its callers distinguish.
BaselineValid == BaselineExists /\ baseline.health = "SOUND"
BaselineInvalidUnchecked == baseline.health # "SOUND"
BaselineInvalid == BaselineExists /\ baseline.health # "SOUND"
BaselineMissing == baseline = NoState /\ root.health = "SOUND"
BaselineBlocked == baseline = Torn \/ (baseline = NoState /\ root.health # "SOUND")

----------------------------------------------------------------------------
(***************************************************************************)
(* The recovery command line.  _assert_operator_idle looks at the pending  *)
(* marker, the process marker and the rows of the queue.                   *)
(***************************************************************************)
OperatorIdleStrict(allowPending) == ~pending /\ ~marker /\ ~busy
OperatorIdle(allowPending) ==
    /\ allowPending \/ ~pending
    /\ ~marker /\ ~busy

Begin(kind, place, source) ==
    /\ op = Idle /\ setup = "off"
    /\ op' = [kind |-> kind, pc |-> place, source |-> source, moved |-> NoState]
    /\ UNCHANGED <<disk, setup, launcher, gap, departed, spent>>

BeginArchive ==
    /\ OperatorIdle(FALSE) /\ root.health = "SOUND"
    /\ Begin("archive", "archive_copy", NoState)

BeginReset == OperatorIdle(FALSE) /\ Begin("reset", "baseline", NoState)

BeginVerify == ~pending /\ Begin("verify", "verify", NoState)

BeginRestore ==
    /\ OperatorIdle(TRUE)
    /\ \E a \in archives :
          /\ a.sealed /\ a.content.health = "SOUND"
          /\ Begin("restore", "mark", a.content)

RestoreDropsArchive ==
    /\ op = Idle /\ setup = "off" /\ OperatorIdle(TRUE)
    /\ \E a \in archives :
          (~a.sealed \/ a.content.health # "SOUND") /\ archives' = archives \ {a}
    /\ UNCHANGED <<root, marker, busy, baseline, quarantine, pending, op, setup,
                   launcher, gap, departed, spent>>

\* A bad archive is moved aside before the state root is touched.
RestoreRefusesArchive ==
    /\ op = Idle /\ setup = "off" /\ OperatorIdle(TRUE)
    /\ \E a \in archives :
          /\ ~a.sealed \/ a.content.health # "SOUND"
          /\ archives' = archives \ {a}
          /\ quarantine' = quarantine \cup {a.content.data}
    /\ UNCHANGED <<root, marker, busy, baseline, pending, op, setup, launcher,
                   gap, departed, spent>>

BeginRestoreBaseline ==
    /\ OperatorIdle(TRUE) /\ BaselineValid
    /\ Begin("restore_baseline", "mark", baseline)

RestoreRefusesBaseline ==
    /\ op = Idle /\ setup = "off" /\ OperatorIdle(TRUE) /\ BaselineInvalid
    /\ QuarantineBaseline
    /\ UNCHANGED <<op, setup, launcher, spent>>

\* reset: the baseline it will return to.
ResetFindsBaseline ==
    /\ At("baseline") /\ BaselineValid
    /\ op' = [op EXCEPT !.pc = "verify", !.source = baseline]
    /\ UNCHANGED <<disk, setup, launcher, gap, departed, spent>>

ResetCreatesBaseline ==
    /\ At("baseline") /\ BaselineMissing
    /\ CreateBaseline
    /\ op' = [op EXCEPT !.pc = "verify", !.source = root]
    /\ UNCHANGED <<setup, launcher, spent>>

\* A damaged baseline fails its manifest or, when it matches that, fails as a
\* state root.  The second error carries the code of a corrupt state root, so
\* the reset then moves the current root aside too, whatever its health.
ResetRefusesBaseline ==
    /\ At("baseline") /\ BaselineInvalid
    /\ QuarantineBaseline
    /\ \/ Refuse
       \/ baseline.health = "CORRUPT" /\ Goto("displace")
    /\ UNCHANGED <<setup, launcher, spent>>

ResetDisplacesRoot ==
    /\ At("displace") /\ Refuse
    /\ IF HasRoot /\ ~Locked
       THEN QuarantineRoot
       ELSE UNCHANGED <<disk, setup, launcher, gap, departed, spent>>

\* Without a whole baseline a damaged root is moved aside; other errors only
\* end the reset.
ResetHasNoBaseline ==
    /\ At("baseline") /\ BaselineBlocked /\ Refuse
    /\ IF root.health = "CORRUPT" /\ HasRoot /\ ~Locked
       THEN QuarantineRoot
       ELSE UNCHANGED <<disk, setup, launcher, gap, departed, spent>>

\* verify and reset: quarantine a damaged root, accept a sound one.
VerifySound ==
    /\ At("verify") /\ root.health = "SOUND"
    /\ IF op.kind = "verify" THEN Refuse ELSE Goto("mark")
    /\ UNCHANGED <<disk, setup, launcher, gap, departed, spent>>

VerifyQuarantines ==
    /\ At("verify") /\ root.health = "CORRUPT"
    /\ QuarantineRoot
    /\ IF op.kind = "verify" THEN Refuse ELSE Goto("pend")

VerifyRefuses ==
    /\ At("verify")
    /\ root.health = "FOREIGN" \/ (root.health = "CORRUPT" /\ (~HasRoot \/ Locked))
    /\ Refuse
    /\ UNCHANGED <<disk, setup, launcher, gap, departed, spent>>

WritePendingLater ==
    /\ At("mark")
    /\ IF op.kind = "reset" THEN Goto("move") ELSE Goto("current")
    /\ UNCHANGED <<disk, setup, launcher, gap, departed, spent>>

\* The pending marker is written before the root is touched.
WritePending ==
    /\ At("mark")
    /\ pending' = TRUE
    /\ IF op.kind = "reset" THEN Goto("move") ELSE Goto("current")
    /\ UNCHANGED <<root, marker, busy, archives, baseline, quarantine, setup,
                   launcher, gap, departed, spent>>

\* restore and restore_baseline look at the root after the marker.
CurrentAbsentOrSound ==
    /\ At("current") /\ (HasRoot => root.health = "SOUND")
    /\ IF HasRoot THEN Goto("move") ELSE Goto("pend")
    /\ UNCHANGED <<disk, setup, launcher, gap, departed, spent>>

CurrentCorrupt ==
    /\ At("current") /\ root.health = "CORRUPT"
    /\ QuarantineRoot /\ Goto("pend")

CurrentRefuses ==
    /\ At("current") /\ HasRoot
    /\ root.health = "FOREIGN" \/ (root.health = "CORRUPT" /\ Locked)
    /\ Refuse
    /\ UNCHANGED <<disk, setup, launcher, gap, departed, spent>>

\* _move_current_to_archive: the rename, then the manifest.
MoveToArchive ==
    /\ At("move")
    /\ RootLeaves /\ gap' = TRUE
    /\ archives' = archives \cup {[content |-> root, sealed |-> FALSE]}
    /\ op' = [op EXCEPT !.pc = "manifest", !.moved = root]
    /\ UNCHANGED <<baseline, quarantine, pending, setup, launcher, spent>>

MoveFails ==
    /\ At("move") /\ (Locked \/ ~HasRoot)
    /\ Refuse
    /\ UNCHANGED <<disk, setup, launcher, gap, departed, spent>>

Sealing(a) == (archives \ {a}) \cup {[a EXCEPT !.sealed = TRUE]}

SealArchive(place, next) ==
    /\ At(place)
    /\ \E a \in archives :
          /\ ~a.sealed /\ a.content.data = op.moved.data
          /\ archives' = Sealing(a)
    /\ IF next = "done" THEN Refuse ELSE Goto(next)
    /\ UNCHANGED <<root, marker, busy, baseline, quarantine, pending, setup,
                   launcher, gap, departed, spent>>

MovedWithoutManifest ==
    /\ At("manifest") /\ Goto("pend")
    /\ UNCHANGED <<disk, setup, launcher, gap, departed, spent>>
WriteMovedManifest == SealArchive("manifest", "pend")

\* The marker again, now with the archive; a reset of a damaged root writes it
\* here for the first time.
RewritePending ==
    /\ At("pend")
    /\ pending' = TRUE /\ Goto("copy")
    /\ UNCHANGED <<root, marker, busy, archives, baseline, quarantine, setup,
                   launcher, gap, departed, spent>>

\* _replace_with_snapshot: copy the source aside and verify the copy.
SourceStands ==
    \/ op.source = baseline
    \/ \E a \in archives : a.content = op.source

CopySource ==
    /\ At("copy")
    /\ IF SourceStands /\ op.source.health = "SOUND" THEN Goto("swap") ELSE Refuse
    /\ UNCHANGED <<disk, setup, launcher, gap, departed, spent>>

Swap ==
    /\ At("swap")
    /\ IF HasRoot
       THEN Refuse /\ UNCHANGED <<root, gap>>
       ELSE Goto("receipt") /\ root' = op.source /\ gap' = FALSE
    /\ UNCHANGED <<marker, busy, archives, baseline, quarantine, pending, setup,
                   launcher, departed, spent>>

\* Preflight and receipt change no state; then the marker goes.
RemovePending ==
    /\ At("receipt")
    /\ pending' = FALSE /\ Refuse
    /\ UNCHANGED <<root, marker, busy, archives, baseline, quarantine, setup,
                   launcher, gap, departed, spent>>

\* archive: a complete copy, then its manifest.
CopyToArchive ==
    /\ At("archive_copy")
    /\ IF HasRoot
       THEN /\ archives' = archives \cup {[content |-> root, sealed |-> FALSE]}
            /\ op' = [op EXCEPT !.pc = "archive_seal", !.moved = root]
       ELSE archives' = archives /\ Refuse
    /\ UNCHANGED <<root, marker, busy, baseline, quarantine, pending, setup,
                   launcher, gap, departed, spent>>

WriteCopiedManifest == SealArchive("archive_seal", "done")

CommandStep ==
    \/ BeginArchive \/ BeginReset \/ BeginVerify \/ BeginRestore
    \/ RestoreRefusesArchive \/ BeginRestoreBaseline \/ RestoreRefusesBaseline
    \/ ResetFindsBaseline \/ ResetCreatesBaseline \/ ResetRefusesBaseline
    \/ ResetDisplacesRoot \/ ResetHasNoBaseline
    \/ VerifySound \/ VerifyQuarantines \/ VerifyRefuses
    \/ WritePending \/ CurrentAbsentOrSound \/ CurrentCorrupt \/ CurrentRefuses
    \/ MoveToArchive \/ MoveFails \/ WriteMovedManifest \/ RewritePending
    \/ CopySource \/ Swap \/ RemovePending \/ CopyToArchive \/ WriteCopiedManifest

----------------------------------------------------------------------------
(***************************************************************************)
(* setup.ps1: initialize, a smoke start of the Core, record-setup-success. *)
(***************************************************************************)
Setup(place) == setup = place
SetupGoes(place) == setup' = place
SetupOnly == UNCHANGED <<disk, op, launcher, gap, departed, spent>>

\* StateRoot.initialize creates what is absent and repairs nothing.
SetupInitializes ==
    /\ Setup("off") /\ op = Idle
    /\ root = NoState \/ root.health = "SOUND"
    /\ root' = IF HasRoot THEN root ELSE Pristine
    /\ SetupGoes("baseline")
    /\ UNCHANGED <<marker, busy, archives, baseline, quarantine, pending, op,
                   launcher, gap, departed, spent>>

\* ensure_baseline
SetupEnsuresBaseline ==
    /\ Setup("baseline") /\ ~pending /\ root.health = "SOUND"
    /\ \/ BaselineValid /\ SetupGoes("start") /\ UNCHANGED <<disk, gap, departed>>
       \/ BaselineMissing /\ CreateBaseline /\ SetupGoes("start")
       \/ BaselineInvalid /\ QuarantineBaseline /\ SetupGoes("off")
       \/ BaselineBlocked /\ SetupGoes("off") /\ UNCHANGED <<disk, gap, departed>>
    /\ UNCHANGED <<op, launcher, spent>>

\* Any check of the setup that fails ends it.
SetupStops ==
    /\ setup \in {"baseline", "start", "record", "finalize"}
    /\ \/ pending \/ root.health # "SOUND"
       \/ setup \in {"start", "record"} /\ launcher # "off"
    /\ SetupGoes("off") /\ SetupOnly

\* The smoke start holds the lock and the marker as start.ps1 does.
SetupStartsCore ==
    /\ Setup("start") /\ ~Locked /\ ~pending /\ root.health = "SOUND"
    /\ marker' = TRUE /\ busy' = FALSE /\ SetupGoes("smoke")
    /\ UNCHANGED <<root, archives, baseline, quarantine, pending, op, launcher,
                   gap, departed, spent>>

SetupStopsCore ==
    /\ Setup("smoke")
    /\ marker' = FALSE /\ SetupGoes("record")
    /\ UNCHANGED <<root, busy, archives, baseline, quarantine, pending, op,
                   launcher, gap, departed, spent>>

\* record_setup_success writes the record into the root first.
SetupRecords ==
    /\ Setup("record") /\ launcher = "off" /\ root.health = "SOUND"
    /\ root' = [root EXCEPT !.setup = TRUE]
    /\ SetupGoes("finalize")
    /\ UNCHANGED <<marker, busy, archives, baseline, quarantine, pending, op,
                   launcher, gap, departed, spent>>

\* finalize_baseline_after_setup
SetupFinalizes ==
    /\ Setup("finalize") /\ ~pending /\ root.health = "SOUND"
    /\ \/ /\ BaselineValid /\ baseline.setup
          /\ SetupGoes("off") /\ UNCHANGED <<disk, gap, departed>>
       \/ /\ BaselineValid /\ ~baseline.setup
          /\ SetupGoes("remove") /\ UNCHANGED <<disk, gap, departed>>
       \/ BaselineInvalid /\ QuarantineBaseline /\ SetupGoes("off")
       \/ ~BaselineExists /\ SetupGoes("create") /\ UNCHANGED <<disk, gap, departed>>
    /\ UNCHANGED <<op, launcher, spent>>

\* _remove_exact is an rmtree, which a crash may cut short.
SetupRemovesBaseline ==
    /\ Setup("remove")
    /\ baseline' = NoState /\ SetupGoes("create")
    /\ UNCHANGED <<root, marker, busy, archives, quarantine, pending, op,
                   launcher, gap, departed, spent>>

SetupCreatesOver ==
    /\ Setup("create") /\ HasRoot /\ CreateBaseline /\ SetupGoes("off")
    /\ UNCHANGED <<op, launcher, spent>>

\* _create_baseline refuses a directory that is there and copies what is not.
SetupCreatesBaseline ==
    /\ Setup("create")
    /\ IF baseline = NoState /\ HasRoot
       THEN CreateBaseline
       ELSE UNCHANGED <<disk, gap, departed>>
    /\ SetupGoes("off")
    /\ UNCHANGED <<op, launcher, spent>>

SetupStep ==
    \/ SetupInitializes \/ SetupEnsuresBaseline \/ SetupStops \/ SetupStartsCore
    \/ SetupStopsCore \/ SetupRecords \/ SetupFinalizes \/ SetupRemovesBaseline
    \/ SetupCreatesBaseline

----------------------------------------------------------------------------
(***************************************************************************)
(* start.ps1 and the Core it starts.                                       *)
(***************************************************************************)
Launch(place) == launcher = place
LaunchGoes(place) == launcher' = place

\* The marker of a dead process is removed, the lock is taken.
LaunchLocks ==
    /\ Launch("off") /\ ~Locked /\ HasRoot
    /\ marker' = FALSE /\ LaunchGoes("preflight")
    /\ UNCHANGED <<root, busy, archives, baseline, quarantine, pending, op, setup,
                   gap, departed, spent>>

Prepared == root.health = "SOUND" /\ root.setup

LaunchChecks ==
    /\ Launch("preflight")
    /\ IF Prepared
       THEN marker' = TRUE /\ LaunchGoes("starting")
       ELSE marker' = marker /\ LaunchGoes("off")
    /\ UNCHANGED <<root, busy, archives, baseline, quarantine, pending, op, setup,
                   gap, departed, spent>>

\* lifespan: verify, ensure the baseline, recover the operations, serve.
MayServe == ~pending /\ root.health = "SOUND"

CoreServes ==
    /\ Launch("starting") /\ MayServe
    /\ \/ BaselineValid /\ UNCHANGED <<root, archives, baseline, quarantine, pending>>
       \/ /\ BaselineMissing /\ baseline' = root
          /\ UNCHANGED <<root, archives, quarantine, pending>>
    /\ busy' = FALSE /\ LaunchGoes("serving")
    /\ UNCHANGED <<marker, op, setup, gap, departed, spent>>

\* A start that refuses; a baseline that does not verify is moved aside.  A new
\* one may fail to be copied: the launcher holds a file of the root open.
CoreRefuses ==
    /\ Launch("starting")
    /\ \/ /\ ~MayServe \/ BaselineBlocked \/ BaselineMissing
          /\ UNCHANGED <<baseline, quarantine>>
       \/ /\ MayServe /\ BaselineInvalid
          /\ baseline' = NoState /\ quarantine' = quarantine \cup {baseline.data}
    /\ marker' = FALSE /\ LaunchGoes("off")
    /\ UNCHANGED <<root, busy, archives, pending, op, setup, gap, departed, spent>>

CoreWrites ==
    /\ Launch("serving") /\ HasRoot /\ spent.written < MaxData
    /\ root' = [root EXCEPT !.data = spent.written + 1]
    /\ spent' = [spent EXCEPT !.written = @ + 1]
    /\ busy' \in BOOLEAN
    /\ UNCHANGED <<marker, archives, baseline, quarantine, pending, op, setup,
                   launcher, gap, departed>>

\* A stop ends the operations and removes the marker before the lock goes.
CoreStops ==
    /\ Launch("serving")
    /\ busy' = FALSE /\ marker' = FALSE /\ LaunchGoes("off")
    /\ UNCHANGED <<root, archives, baseline, quarantine, pending, op, setup, gap,
                   departed, spent>>

LauncherStep ==
    \/ LaunchLocks \/ LaunchChecks \/ CoreServes \/ CoreRefuses \/ CoreWrites
    \/ CoreStops

----------------------------------------------------------------------------
(* Faults: a process dies, a tree is damaged, the release configuration of  *)
(* the machine changes to another one and perhaps back.                     *)
Crashing ==
    /\ spent.crashes < MaxCrashes
    /\ spent' = [spent EXCEPT !.crashes = @ + 1]

CommandDies ==
    /\ op # Idle /\ Crashing /\ Refuse
    /\ UNCHANGED <<disk, setup, launcher, gap, departed>>

\* The rename that Windows granted is done; the manifest is what is missing.
SetupDies ==
    /\ ~Setup("off") /\ Crashing /\ SetupGoes("off")
    /\ \/ UNCHANGED <<root, baseline>>
       \/ /\ Setup("baseline") /\ root = Pristine
          /\ root' = [root EXCEPT !.health = "CORRUPT"] /\ UNCHANGED baseline
       \/ /\ Setup("remove") /\ TornRemoval
          /\ baseline' = Torn /\ UNCHANGED root
    /\ UNCHANGED <<marker, busy, archives, quarantine, pending, op, launcher, gap,
                   departed>>

CoreDies ==
    /\ ~Launch("off") /\ Crashing /\ LaunchGoes("off")
    /\ marker' \in {marker, FALSE}
    /\ UNCHANGED <<root, busy, archives, baseline, quarantine, pending, op, setup,
                   gap, departed>>

Corrupted(tree) == [tree EXCEPT !.health = "CORRUPT"]

Corruption ==
    /\ spent.corruptions < MaxCorruptions
    /\ spent' = [spent EXCEPT !.corruptions = @ + 1]
    /\ \/ /\ HasRoot /\ root' = Corrupted(root)
          /\ busy' \in {busy, TRUE} /\ UNCHANGED <<archives, baseline>>
       \/ /\ BaselineExists /\ baseline' = Corrupted(baseline)
          /\ UNCHANGED <<root, busy, archives>>
       \/ /\ \E a \in archives : archives' =
                (archives \ {a}) \cup {[a EXCEPT !.content = Corrupted(a.content)]}
          /\ UNCHANGED <<root, busy, baseline>>
    /\ UNCHANGED <<marker, quarantine, pending, op, setup, launcher, gap, departed>>

Released(tree) ==
    [tree EXCEPT !.health = IF @ = "SOUND" THEN "FOREIGN"
                            ELSE IF @ = "FOREIGN" THEN "SOUND" ELSE @]

\* The release is changed while nothing runs.
Upgrade ==
    /\ spent.upgrades < MaxUpgrades
    /\ spent' = [spent EXCEPT !.upgrades = @ + 1]
    /\ op = Idle /\ Setup("off") /\ Launch("off")
    /\ root' = Released(root) /\ baseline' = Released(baseline)
    /\ archives' = {[a EXCEPT !.content = Released(a.content)] : a \in archives}
    /\ UNCHANGED <<marker, busy, quarantine, pending, op, setup, launcher, gap,
                   departed>>

Fault == CommandDies \/ SetupDies \/ CoreDies \/ Corruption \/ Upgrade

Next == CommandStep \/ SetupStep \/ LauncherStep \/ Fault

Spec == Init /\ [][Next]_vars

----------------------------------------------------------------------------
SetupPlaces == {"off", "baseline", "start", "smoke", "record", "finalize",
                "remove", "create"}
Trees == Contents \cup {NoState}
Commands == [kind : Kinds \cup {"none"}, pc : Places \cup {"idle"},
             source : Trees, moved : Trees]

\* Every variable keeps its type.
TypeOK ==
    /\ root \in Trees /\ baseline \in Trees \cup {Torn}
    /\ marker \in BOOLEAN /\ busy \in BOOLEAN /\ pending \in BOOLEAN
    /\ archives \in SUBSET Archives
    /\ quarantine \in SUBSET Data /\ departed \in SUBSET Data
    /\ op \in Commands
    /\ setup \in SetupPlaces
    /\ launcher \in {"off", "preflight", "starting", "serving"}
    /\ gap \in BOOLEAN
    /\ spent \in [written : Data, crashes : Nat, corruptions : Nat, upgrades : Nat]

Kept == {a.content.data : a \in archives} \cup quarantine

\* "Preserves the affected bytes": no version that a command moved out of the
\* state root is ever gone, whatever dies, is damaged or is refused afterwards
\* (_quarantine_current_state, _move_current_to_archive,
\* _quarantine_recovery_snapshot).
BytesArePreserved == departed \subseteq Kept

\* After reset or restore has archived the state root away, no Core serves an
\* empty or older root until a command has put the chosen one in its place.
NeverServesOverGap == gap => pending /\ launcher # "serving"

\* When reset, restore or restore_baseline writes its receipt, the state root
\* is the chosen source, no Core has written to it, and what was archived away
\* has its manifest.
ReceiptIsFaithful ==
    At("receipt") =>
       /\ root.data = op.source.data
       /\ launcher # "serving"
       /\ op.moved # NoState =>
             \E a \in archives : a.content.data = op.moved.data /\ a.sealed

\* The one baseline, once it records a completed setup and verifies, is never
\* replaced or removed, only damaged, moved aside as damaged, or outdated.  (A
\* setup that found an earlier baseline and has still to remove it is the one
\* exception: a Core started in between may have made the new one.)
SetupBaselineStays ==
    [][BaselineValid /\ baseline.setup /\ ~Setup("remove") =>
          baseline' \in {baseline, Corrupted(baseline), Released(baseline)}]_vars

Quiescent == op = Idle /\ Setup("off") /\ Launch("off")

CanStart == MayServe /\ Prepared /\ BaselineValid
CanSetUp == ~pending /\ (root = NoState \/ root.health = "SOUND") /\ baseline # Torn
CopyStands ==
    BaselineValid \/ \E a \in archives : a.sealed /\ a.content.health = "SOUND"
CanRestore == OperatorIdle(TRUE) /\ root.health # "FOREIGN" /\ CopyStands
CanVerify == ~pending /\ HasRoot /\ root.health = "CORRUPT"
CanClearMarker == marker /\ HasRoot

\* The dead ends: an interrupted recovery over a root whose operations are
\* unfinished or unreadable, or without a copy left, and a foreign root.
DeadEnd == (pending /\ (busy \/ ~CopyStands)) \/ root.health = "FOREIGN"

\* Whatever crashed or was damaged, when nothing runs some command leads on:
\* start, setup, restore or verify; the only exceptions are the dead ends.
SomethingLeadsOn ==
    Quiescent =>
       CanStart \/ CanSetUp \/ CanRestore \/ CanVerify \/ CanClearMarker \/ DeadEnd

\* restore_baseline without a baseline tells the operator to run the setup:
\* then the setup must be able to make one.
SetupMakesBaseline ==
    Quiescent /\ ~BaselineExists /\ ~pending /\ root.health = "SOUND"
        => BaselineMissing

=============================================================================
