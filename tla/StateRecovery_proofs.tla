------------------------ MODULE StateRecovery_proofs ------------------------
(***************************************************************************)
(* Proofs about StateRecovery: types, the versions that are kept, the gap  *)
(* that no Core may serve over, and the receipt.  One lemma per group of   *)
(* actions and invariant, one step per action.                             *)
(***************************************************************************)
EXTENDS StateRecovery, TLAPS

\* What the type proofs use of trees: the members of Contents carry a version
\* and stay contents when a field is set; the two that are none are damaged.
LEMMA ContentFacts ==
    ASSUME ConstantsAssumption, NEW t \in Contents
    PROVE  /\ t.data \in Data
           /\ Corrupted(t) \in Contents /\ Released(t) \in Contents
           /\ [t EXCEPT !.setup = TRUE] \in Contents
           /\ \A n \in Data : [t EXCEPT !.data = n] \in Contents
<1>1. t.data \in Data
  BY DEF Contents
<1>2. Corrupted(t) \in Contents
  BY DEF Corrupted, Contents, Healths
<1>3. Released(t) \in Contents
  BY DEF Released, Contents, Healths
<1>4. [t EXCEPT !.setup = TRUE] \in Contents
  BY DEF Contents
<1>5. ASSUME NEW n \in Data PROVE [t EXCEPT !.data = n] \in Contents
  <2>1. [t EXCEPT !.data = n] = [data |-> n, setup |-> t.setup, health |-> t.health]
    BY DEF Contents
  <2>2. t.setup \in BOOLEAN /\ t.health \in Healths
    BY DEF Contents
  <2>3. [data |-> n, setup |-> t.setup, health |-> t.health] \in Contents
    BY <2>2 DEF Contents
  <2> QED BY <2>1, <2>3
<1> QED BY <1>1, <1>2, <1>3, <1>4, <1>5

LEMMA NamedTrees ==
    /\ ConstantsAssumption => Pristine \in Contents
    /\ NoState.health = "CORRUPT" /\ Torn.health = "CORRUPT"
    /\ Released(NoState) = NoState /\ Released(Torn) = Torn
    /\ Idle \in Commands /\ NoState \in Trees /\ Contents \subseteq Trees
    /\ \A t \in Trees : t # NoState => t \in Contents
<1>1. ConstantsAssumption => Pristine \in Contents
  BY DEF ConstantsAssumption, Pristine, Contents, Data, Healths
<1>2. NoState.health = "CORRUPT" /\ Torn.health = "CORRUPT"
  BY DEF NoState, Torn
<1>3. Released(NoState) = NoState /\ Released(Torn) = Torn
  BY DEF Released, NoState, Torn
<1>4. NoState \in Trees /\ Contents \subseteq Trees
  BY DEF Trees
<1>5. Idle \in Commands
  BY <1>4 DEF Idle, Commands
<1>6. \A t \in Trees : t # NoState => t \in Contents
  BY DEF Trees
<1> QED BY <1>1, <1>2, <1>3, <1>4, <1>5, <1>6

\* A root or a baseline that is there is a content.
LEMMA Standing ==
    ConstantsAssumption /\ TypeOK =>
       /\ HasRoot => root \in Contents /\ root.data \in Data
       /\ BaselineExists => baseline \in Contents /\ baseline.data \in Data
       /\ root.health # "CORRUPT" => root \in Contents /\ HasRoot
<1> SUFFICES ASSUME ConstantsAssumption, TypeOK
             PROVE  /\ HasRoot => root \in Contents /\ root.data \in Data
                    /\ BaselineExists => baseline \in Contents /\ baseline.data \in Data
                    /\ root.health # "CORRUPT" => root \in Contents /\ HasRoot
  OBVIOUS
<1>1. HasRoot => root \in Contents
  BY NamedTrees DEF HasRoot, TypeOK
<1>2. BaselineExists => baseline \in Contents
  BY NamedTrees DEF BaselineExists, TypeOK
<1>3. root.health # "CORRUPT" => HasRoot
  BY NamedTrees DEF HasRoot
<1> QED BY <1>1, <1>2, <1>3, ContentFacts

\* The steps of CommandStep keep the types.
LEMMA TypeCommandStep == ConstantsAssumption /\ TypeOK /\ CommandStep => TypeOK'
<1> SUFFICES ASSUME ConstantsAssumption, TypeOK, CommandStep PROVE TypeOK'
  OBVIOUS
<1> USE DEF TypeOK
<1>1. CASE BeginArchive
  <2>1. op' \in Commands
    BY <1>1, NamedTrees DEF BeginArchive, OperatorIdle, Begin, Commands,
      Kinds, Replacing, Places, Archives, BaselineExists
  <2> QED BY <1>1, <2>1 DEF BeginArchive, OperatorIdle, Begin, disk,
      SetupPlaces
<1>2. CASE BeginReset
  <2>1. op' \in Commands
    BY <1>2, NamedTrees DEF BeginReset, OperatorIdle, Begin, Commands, Kinds,
      Replacing, Places, Archives, BaselineExists
  <2> QED BY <1>2, <2>1 DEF BeginReset, OperatorIdle, Begin, disk, SetupPlaces
<1>3. CASE BeginVerify
  <2>1. op' \in Commands
    BY <1>3, NamedTrees DEF BeginVerify, Begin, Commands, Kinds, Replacing,
      Places, Archives, BaselineExists
  <2> QED BY <1>3, <2>1 DEF BeginVerify, Begin, disk, SetupPlaces
<1>4. CASE BeginRestore
  <2>1. op' \in Commands
    BY <1>4, NamedTrees DEF BeginRestore, OperatorIdle, Begin, Commands,
      Kinds, Replacing, Places, Archives, BaselineExists
  <2> QED BY <1>4, <2>1 DEF BeginRestore, OperatorIdle, Begin, disk,
      SetupPlaces
<1>5. CASE RestoreRefusesArchive
  <2>1. archives' \in SUBSET Archives
    BY <1>5, Standing, ContentFacts DEF RestoreRefusesArchive, OperatorIdle,
      Archives
  <2>2. quarantine' \in SUBSET Data
    <3>1. PICK a \in archives : quarantine' = quarantine \cup {a.content.data}
      BY <1>5 DEF RestoreRefusesArchive
    <3>2. a.content.data \in Data
      BY ContentFacts DEF Archives
    <3> QED BY <3>1, <3>2
  <2> QED BY <1>5, <2>1, <2>2 DEF RestoreRefusesArchive, OperatorIdle,
      SetupPlaces
<1>6. CASE BeginRestoreBaseline
  <2>1. op' \in Commands
    BY <1>6, NamedTrees DEF BeginRestoreBaseline, OperatorIdle, BaselineValid,
      Begin, Commands, Kinds, Replacing, Places, Archives, BaselineExists
  <2> QED BY <1>6, <2>1 DEF BeginRestoreBaseline, OperatorIdle, BaselineValid,
      Begin, disk, SetupPlaces
<1>7. CASE RestoreRefusesBaseline
  <2>1. baseline' \in Trees \cup {Torn}
    BY <1>7, NamedTrees, ContentFacts, Standing DEF RestoreRefusesBaseline,
      OperatorIdle, BaselineInvalid, QuarantineBaseline, BaselineExists
  <2>2. quarantine' \in SUBSET Data
    BY <1>7, Standing DEF RestoreRefusesBaseline, OperatorIdle,
      BaselineInvalid, QuarantineBaseline, Archives
  <2> QED BY <1>7, <2>1, <2>2 DEF RestoreRefusesBaseline, OperatorIdle,
      BaselineInvalid, QuarantineBaseline, SetupPlaces
<1>8. CASE ResetFindsBaseline
  <2>1. op' \in Commands
    BY <1>8, NamedTrees DEF ResetFindsBaseline, At, BaselineValid, Commands,
      Kinds, Replacing, Places, Archives, BaselineExists
  <2> QED BY <1>8, <2>1 DEF ResetFindsBaseline, At, BaselineValid, disk,
      SetupPlaces
<1>9. CASE ResetCreatesBaseline
  <2>1. op' \in Commands
    BY <1>9, NamedTrees DEF ResetCreatesBaseline, At, BaselineMissing,
      CreateBaseline, Commands, Kinds, Replacing, Places, Archives,
      BaselineExists
  <2>2. baseline' \in Trees \cup {Torn}
    BY <1>9, NamedTrees, ContentFacts, Standing DEF ResetCreatesBaseline, At,
      BaselineMissing, CreateBaseline, BaselineExists
  <2> QED BY <1>9, <2>1, <2>2 DEF ResetCreatesBaseline, At, BaselineMissing,
      CreateBaseline, SetupPlaces
<1>10. CASE ResetRefusesBaseline
  <2>1. op' \in Commands
    BY <1>10, NamedTrees DEF ResetRefusesBaseline, At, BaselineInvalid,
      QuarantineBaseline, Refuse, Goto, Commands, Kinds, Replacing, Places,
      Archives, BaselineExists
  <2>2. baseline' \in Trees \cup {Torn}
    BY <1>10, NamedTrees, ContentFacts, Standing DEF ResetRefusesBaseline, At,
      BaselineInvalid, QuarantineBaseline, Refuse, Goto, BaselineExists
  <2>3. quarantine' \in SUBSET Data
    BY <1>10, Standing DEF ResetRefusesBaseline, At, BaselineInvalid,
      QuarantineBaseline, Refuse, Goto, Archives
  <2> QED BY <1>10, <2>1, <2>2, <2>3 DEF ResetRefusesBaseline, At,
      BaselineInvalid, QuarantineBaseline, Refuse, Goto, SetupPlaces
<1>11. CASE ResetHasNoBaseline
  <2>1. op' \in Commands
    BY <1>11, NamedTrees DEF ResetHasNoBaseline, At, BaselineBlocked, Refuse,
      Locked, QuarantineRoot, RootLeaves, Commands, Kinds, Replacing, Places,
      Archives, BaselineExists
  <2>2. root' \in Trees
    BY <1>11, NamedTrees DEF ResetHasNoBaseline, QuarantineRoot, RootLeaves, disk
  <2>3. quarantine' \in SUBSET Data
    <3>1. CASE QuarantineRoot
      BY <3>1, Standing DEF QuarantineRoot, RootLeaves
    <3>2. CASE UNCHANGED quarantine
      BY <3>2
    <3> QED BY <1>11, <3>1, <3>2 DEF ResetHasNoBaseline, disk
  <2>4. departed' \in SUBSET Data
    BY <1>11, Standing DEF ResetHasNoBaseline, At, BaselineBlocked, Refuse,
      Locked, QuarantineRoot, RootLeaves
  <2> QED BY <1>11, <2>1, <2>2, <2>3, <2>4 DEF ResetHasNoBaseline, At,
      BaselineBlocked, Refuse, Locked, QuarantineRoot, RootLeaves, disk,
      SetupPlaces
<1>28. CASE ResetDisplacesRoot
  <2>1. op' \in Commands
    BY <1>28, NamedTrees DEF ResetDisplacesRoot, At, Refuse,
      Locked, QuarantineRoot, RootLeaves, Commands, Kinds, Replacing, Places,
      Archives, BaselineExists
  <2>2. root' \in Trees
    BY <1>28, NamedTrees DEF ResetDisplacesRoot, QuarantineRoot, RootLeaves, disk
  <2>3. quarantine' \in SUBSET Data
    <3>1. CASE QuarantineRoot
      BY <3>1, Standing DEF QuarantineRoot, RootLeaves
    <3>2. CASE UNCHANGED quarantine
      BY <3>2
    <3> QED BY <1>28, <3>1, <3>2 DEF ResetDisplacesRoot, disk
  <2>4. departed' \in SUBSET Data
    BY <1>28, Standing DEF ResetDisplacesRoot, At, Refuse,
      Locked, QuarantineRoot, RootLeaves
  <2> QED BY <1>28, <2>1, <2>2, <2>3, <2>4 DEF ResetDisplacesRoot, At,
      Refuse, Locked, QuarantineRoot, RootLeaves, disk,
      SetupPlaces
<1>12. CASE VerifySound
  <2>1. op' \in Commands
    BY <1>12, NamedTrees DEF VerifySound, At, Refuse, Goto, Commands, Kinds,
      Replacing, Places, Archives, BaselineExists
  <2> QED BY <1>12, <2>1 DEF VerifySound, At, Refuse, Goto, disk, SetupPlaces
<1>13. CASE VerifyQuarantines
  <2>1. op' \in Commands
    BY <1>13, NamedTrees DEF VerifyQuarantines, At, QuarantineRoot,
      RootLeaves, Locked, Refuse, Goto, Commands, Kinds, Replacing, Places,
      Archives, BaselineExists
  <2>2. root' \in Trees
    BY <1>13, NamedTrees, ContentFacts, Standing DEF VerifyQuarantines, At,
      QuarantineRoot, RootLeaves, Locked, Refuse, Goto, HasRoot, Commands
  <2>3. quarantine' \in SUBSET Data
    BY <1>13, Standing DEF VerifyQuarantines, At, QuarantineRoot, RootLeaves,
      Locked, Refuse, Goto, Archives
  <2>4. departed' \in SUBSET Data
    BY <1>13, Standing DEF VerifyQuarantines, At, QuarantineRoot, RootLeaves,
      Locked, Refuse, Goto
  <2> QED BY <1>13, <2>1, <2>2, <2>3, <2>4 DEF VerifyQuarantines, At,
      QuarantineRoot, RootLeaves, Locked, Refuse, Goto, SetupPlaces
<1>14. CASE VerifyRefuses
  <2>1. op' \in Commands
    BY <1>14, NamedTrees DEF VerifyRefuses, At, Locked, Refuse, Commands,
      Kinds, Replacing, Places, Archives, BaselineExists
  <2> QED BY <1>14, <2>1 DEF VerifyRefuses, At, Locked, Refuse, disk,
      SetupPlaces
<1>15. CASE WritePending
  <2>1. op' \in Commands
    BY <1>15, NamedTrees DEF WritePending, At, Goto, Commands, Kinds,
      Replacing, Places, Archives, BaselineExists
  <2> QED BY <1>15, <2>1 DEF WritePending, At, Goto, SetupPlaces
<1>16. CASE CurrentAbsentOrSound
  <2>1. op' \in Commands
    BY <1>16, NamedTrees DEF CurrentAbsentOrSound, At, Goto, Commands, Kinds,
      Replacing, Places, Archives, BaselineExists
  <2> QED BY <1>16, <2>1 DEF CurrentAbsentOrSound, At, Goto, disk, SetupPlaces
<1>17. CASE CurrentCorrupt
  <2>1. op' \in Commands
    BY <1>17, NamedTrees DEF CurrentCorrupt, At, QuarantineRoot, RootLeaves,
      Locked, Goto, Commands, Kinds, Replacing, Places, Archives,
      BaselineExists
  <2>2. root' \in Trees
    BY <1>17, NamedTrees, ContentFacts, Standing DEF CurrentCorrupt, At,
      QuarantineRoot, RootLeaves, Locked, Goto, HasRoot, Commands
  <2>3. quarantine' \in SUBSET Data
    BY <1>17, Standing DEF CurrentCorrupt, At, QuarantineRoot, RootLeaves,
      Locked, Goto, Archives
  <2>4. departed' \in SUBSET Data
    BY <1>17, Standing DEF CurrentCorrupt, At, QuarantineRoot, RootLeaves,
      Locked, Goto
  <2> QED BY <1>17, <2>1, <2>2, <2>3, <2>4 DEF CurrentCorrupt, At,
      QuarantineRoot, RootLeaves, Locked, Goto, SetupPlaces
<1>18. CASE CurrentRefuses
  <2>1. op' \in Commands
    BY <1>18, NamedTrees DEF CurrentRefuses, At, Locked, Refuse, Commands,
      Kinds, Replacing, Places, Archives, BaselineExists
  <2> QED BY <1>18, <2>1 DEF CurrentRefuses, At, Locked, Refuse, disk,
      SetupPlaces
<1>19. CASE MoveToArchive
  <2>1. op' \in Commands
    BY <1>19, NamedTrees DEF MoveToArchive, At, RootLeaves, Locked, Commands,
      Kinds, Replacing, Places, Archives, BaselineExists
  <2>2. root' \in Trees
    BY <1>19, NamedTrees, ContentFacts, Standing DEF MoveToArchive, At,
      RootLeaves, Locked, HasRoot, Commands
  <2>3. archives' \in SUBSET Archives
    <3>1. [content |-> root, sealed |-> FALSE] \in Archives
      BY <1>19, Standing DEF MoveToArchive, RootLeaves, Archives
    <3> QED BY <1>19, <3>1 DEF MoveToArchive
  <2>4. departed' \in SUBSET Data
    BY <1>19, Standing DEF MoveToArchive, At, RootLeaves, Locked
  <2> QED BY <1>19, <2>1, <2>2, <2>3, <2>4 DEF MoveToArchive, At, RootLeaves,
      Locked, SetupPlaces
<1>20. CASE MoveFails
  <2>1. op' \in Commands
    BY <1>20, NamedTrees DEF MoveFails, At, Locked, Refuse, Commands, Kinds,
      Replacing, Places, Archives, BaselineExists
  <2> QED BY <1>20, <2>1 DEF MoveFails, At, Locked, Refuse, disk, SetupPlaces
<1>21. CASE WriteMovedManifest
  <2>1. op' \in Commands
    BY <1>21, NamedTrees DEF WriteMovedManifest, SealArchive, At, Sealing,
      Refuse, Goto, Commands, Kinds, Replacing, Places, Archives,
      BaselineExists
  <2>2. archives' \in SUBSET Archives
    BY <1>21, Standing, ContentFacts DEF WriteMovedManifest, SealArchive, At,
      Sealing, Refuse, Goto, Archives
  <2> QED BY <1>21, <2>1, <2>2 DEF WriteMovedManifest, SealArchive, At,
      Sealing, Refuse, Goto, SetupPlaces
<1>22. CASE RewritePending
  <2>1. op' \in Commands
    BY <1>22, NamedTrees DEF RewritePending, At, Goto, Commands, Kinds,
      Replacing, Places, Archives, BaselineExists
  <2> QED BY <1>22, <2>1 DEF RewritePending, At, Goto, SetupPlaces
<1>23. CASE CopySource
  <2>1. op' \in Commands
    BY <1>23, NamedTrees DEF CopySource, At, SourceStands, Goto, Refuse,
      Commands, Kinds, Replacing, Places, Archives, BaselineExists
  <2> QED BY <1>23, <2>1 DEF CopySource, At, SourceStands, Goto, Refuse, disk,
      SetupPlaces
<1>24. CASE Swap
  <2>1. op' \in Commands
    BY <1>24, NamedTrees DEF Swap, At, Refuse, Goto, Commands, Kinds,
      Replacing, Places, Archives, BaselineExists
  <2>2. root' \in Trees
    BY <1>24, NamedTrees, ContentFacts, Standing DEF Swap, At, Refuse, Goto,
      HasRoot, Commands
  <2> QED BY <1>24, <2>1, <2>2 DEF Swap, At, Refuse, Goto, SetupPlaces
<1>25. CASE RemovePending
  <2>1. op' \in Commands
    BY <1>25, NamedTrees DEF RemovePending, At, Refuse, Commands, Kinds,
      Replacing, Places, Archives, BaselineExists
  <2> QED BY <1>25, <2>1 DEF RemovePending, At, Refuse, SetupPlaces
<1>26. CASE CopyToArchive
  <2>1. op' \in Commands
    BY <1>26, NamedTrees DEF CopyToArchive, At, Refuse, Commands, Kinds,
      Replacing, Places, Archives, BaselineExists
  <2>2. archives' \in SUBSET Archives
    <3>1. HasRoot => [content |-> root, sealed |-> FALSE] \in Archives
      BY Standing DEF Archives
    <3> QED BY <1>26, <3>1 DEF CopyToArchive
  <2> QED BY <1>26, <2>1, <2>2 DEF CopyToArchive, At, Refuse, SetupPlaces
<1>27. CASE WriteCopiedManifest
  <2>1. op' \in Commands
    BY <1>27, NamedTrees DEF WriteCopiedManifest, SealArchive, At, Sealing,
      Refuse, Goto, Commands, Kinds, Replacing, Places, Archives,
      BaselineExists
  <2>2. archives' \in SUBSET Archives
    BY <1>27, Standing, ContentFacts DEF WriteCopiedManifest, SealArchive, At,
      Sealing, Refuse, Goto, Archives
  <2> QED BY <1>27, <2>1, <2>2 DEF WriteCopiedManifest, SealArchive, At,
      Sealing, Refuse, Goto, SetupPlaces
<1> QED
  BY <1>1, <1>2, <1>3, <1>4, <1>5, <1>6, <1>7, <1>8, <1>9, <1>10, <1>11,
     <1>12, <1>13, <1>14, <1>15, <1>16, <1>17, <1>18, <1>19, <1>20, <1>21,
     <1>22, <1>23, <1>24, <1>25, <1>26, <1>27, <1>28 DEF CommandStep

\* The steps of SetupStep keep the types.
LEMMA TypeSetupStep == ConstantsAssumption /\ TypeOK /\ SetupStep => TypeOK'
<1> SUFFICES ASSUME ConstantsAssumption, TypeOK, SetupStep PROVE TypeOK'
  OBVIOUS
<1> USE DEF TypeOK
<1>1. CASE SetupInitializes
  <2>1. root' \in Trees
    BY <1>1, NamedTrees, ContentFacts, Standing DEF SetupInitializes, Setup,
      SetupGoes, HasRoot, Commands
  <2> QED BY <1>1, <2>1 DEF SetupInitializes, Setup, SetupGoes, SetupPlaces
<1>2. CASE SetupEnsuresBaseline
  <2>1. baseline' \in Trees \cup {Torn}
    BY <1>2, NamedTrees DEF SetupEnsuresBaseline, CreateBaseline,
      QuarantineBaseline, disk
  <2>2. quarantine' \in SUBSET Data
    <3>1. BaselineInvalid => baseline.data \in Data
      BY Standing DEF BaselineInvalid
    <3> QED BY <1>2, <3>1 DEF SetupEnsuresBaseline, CreateBaseline,
      QuarantineBaseline, disk
  <2> QED BY <1>2, <2>1, <2>2 DEF SetupEnsuresBaseline, Setup, BaselineValid,
      SetupGoes, BaselineMissing, CreateBaseline, BaselineInvalid,
      QuarantineBaseline, BaselineBlocked, disk, SetupPlaces
<1>3. CASE SetupStops
  <2> QED BY <1>3 DEF SetupStops, SetupGoes, SetupOnly, disk, SetupPlaces
<1>4. CASE SetupStartsCore
  <2> QED BY <1>4 DEF SetupStartsCore, Setup, Locked, SetupGoes, SetupPlaces
<1>5. CASE SetupStopsCore
  <2> QED BY <1>5 DEF SetupStopsCore, Setup, SetupGoes, SetupPlaces
<1>6. CASE SetupRecords
  <2>1. root' \in Trees
    <3>1. root \in Contents /\ root' = [root EXCEPT !.setup = TRUE]
      BY <1>6, Standing DEF SetupRecords
    <3> QED BY <3>1, ContentFacts, NamedTrees
  <2> QED BY <1>6, <2>1 DEF SetupRecords, Setup, SetupGoes, SetupPlaces
<1>7. CASE SetupFinalizes
  <2>1. baseline' \in Trees \cup {Torn}
    BY <1>7, NamedTrees DEF SetupFinalizes, QuarantineBaseline, disk
  <2>2. quarantine' \in SUBSET Data
    <3>1. BaselineInvalid => baseline.data \in Data
      BY Standing DEF BaselineInvalid
    <3> QED BY <1>7, <3>1 DEF SetupFinalizes, QuarantineBaseline, disk
  <2> QED BY <1>7, <2>1, <2>2 DEF SetupFinalizes, Setup, BaselineValid,
      SetupGoes, BaselineInvalid, QuarantineBaseline, disk, SetupPlaces
<1>8. CASE SetupRemovesBaseline
  <2>1. baseline' \in Trees \cup {Torn}
    BY <1>8, NamedTrees DEF SetupRemovesBaseline
  <2> QED BY <1>8, <2>1 DEF SetupRemovesBaseline, Setup, SetupGoes,
      SetupPlaces
<1>9. CASE SetupCreatesBaseline
  <2>1. baseline' \in Trees \cup {Torn}
    BY <1>9, NamedTrees DEF SetupCreatesBaseline, CreateBaseline, disk
  <2> QED BY <1>9, <2>1 DEF SetupCreatesBaseline, Setup, CreateBaseline,
      SetupGoes, disk, SetupPlaces
<1> QED
  BY <1>1, <1>2, <1>3, <1>4, <1>5, <1>6, <1>7, <1>8, <1>9 DEF SetupStep

\* The steps of LauncherStep keep the types.
LEMMA TypeLauncherStep == ConstantsAssumption /\ TypeOK /\ LauncherStep => TypeOK'
<1> SUFFICES ASSUME ConstantsAssumption, TypeOK, LauncherStep PROVE TypeOK'
  OBVIOUS
<1> USE DEF TypeOK
<1>1. CASE LaunchLocks
  <2> QED BY <1>1 DEF LaunchLocks, Launch, Locked, LaunchGoes, SetupPlaces
<1>2. CASE LaunchChecks
  <2> QED BY <1>2 DEF LaunchChecks, Launch, Prepared, LaunchGoes, SetupPlaces
<1>3. CASE CoreServes
  <2>1. baseline' \in Trees \cup {Torn}
    BY <1>3, NamedTrees, ContentFacts, Standing DEF CoreServes, Launch,
      MayServe, BaselineValid, BaselineMissing, LaunchGoes, BaselineExists
  <2> QED BY <1>3, <2>1 DEF CoreServes, Launch, MayServe, BaselineValid,
      BaselineMissing, LaunchGoes, SetupPlaces
<1>4. CASE CoreRefuses
  <2>1. baseline' \in Trees \cup {Torn}
    BY <1>4, NamedTrees, ContentFacts, Standing DEF CoreRefuses, Launch,
      MayServe, BaselineBlocked, BaselineInvalid, LaunchGoes, BaselineExists
  <2>2. quarantine' \in SUBSET Data
    BY <1>4, Standing DEF CoreRefuses, Launch, MayServe, BaselineBlocked,
      BaselineInvalid, LaunchGoes, Archives
  <2> QED BY <1>4, <2>1, <2>2 DEF CoreRefuses, Launch, MayServe,
      BaselineBlocked, BaselineInvalid, LaunchGoes, SetupPlaces
<1>5. CASE CoreWrites
  <2>1. root' \in Trees
    <3>1. root \in Contents
      BY <1>5, Standing DEF CoreWrites, Launch
    <3>2. spent.written + 1 \in Data
      BY <1>5 DEF CoreWrites, ConstantsAssumption, Data
    <3> QED BY <1>5, <3>1, <3>2, ContentFacts, NamedTrees DEF CoreWrites
  <2>2. spent' \in [written : Data, crashes : Nat, corruptions : Nat, upgrades : Nat]
    BY <1>5 DEF CoreWrites, Launch, Data, ConstantsAssumption
  <2> QED BY <1>5, <2>1, <2>2 DEF CoreWrites, Launch, SetupPlaces
<1>6. CASE CoreStops
  <2> QED BY <1>6 DEF CoreStops, Launch, LaunchGoes, SetupPlaces
<1> QED
  BY <1>1, <1>2, <1>3, <1>4, <1>5, <1>6 DEF LauncherStep

\* The steps of Fault keep the types.
LEMMA TypeFault == ConstantsAssumption /\ TypeOK /\ Fault => TypeOK'
<1> SUFFICES ASSUME ConstantsAssumption, TypeOK, Fault PROVE TypeOK'
  OBVIOUS
<1> USE DEF TypeOK
<1>1. CASE CommandDies
  <2>1. op' \in Commands
    BY <1>1, NamedTrees DEF CommandDies, Crashing, Refuse, Commands, Kinds,
      Replacing, Places, Archives, BaselineExists
  <2>2. spent' \in [written : Data, crashes : Nat, corruptions : Nat, upgrades : Nat]
    BY <1>1 DEF CommandDies, Crashing, Refuse, Data
  <2> QED BY <1>1, <2>1, <2>2 DEF CommandDies, Crashing, Refuse, disk,
      SetupPlaces
<1>2. CASE SetupDies
  <2>1. root' \in Trees
    <3>1. [Pristine EXCEPT !.health = "CORRUPT"] \in Contents
      BY NamedTrees, ContentFacts DEF Corrupted
    <3> QED BY <1>2, <3>1, NamedTrees DEF SetupDies
  <2>2. baseline' \in Trees \cup {Torn}
    BY <1>2, NamedTrees, ContentFacts, Standing DEF SetupDies, Setup,
      Crashing, SetupGoes, BaselineExists
  <2>3. spent' \in [written : Data, crashes : Nat, corruptions : Nat, upgrades : Nat]
    BY <1>2 DEF SetupDies, Setup, Crashing, SetupGoes, Data
  <2> QED BY <1>2, <2>1, <2>2, <2>3 DEF SetupDies, Setup, Crashing, SetupGoes,
      SetupPlaces
<1>3. CASE CoreDies
  <2>1. spent' \in [written : Data, crashes : Nat, corruptions : Nat, upgrades : Nat]
    BY <1>3 DEF CoreDies, Launch, Crashing, LaunchGoes, Data
  <2> QED BY <1>3, <2>1 DEF CoreDies, Launch, Crashing, LaunchGoes,
      SetupPlaces
<1>4. CASE Corruption
  <2>1. root' \in Trees
    BY <1>4, NamedTrees, ContentFacts, Standing DEF Corruption, HasRoot,
      Commands
  <2>2. baseline' \in Trees \cup {Torn}
    BY <1>4, NamedTrees, ContentFacts, Standing DEF Corruption, BaselineExists
  <2>3. archives' \in SUBSET Archives
    <3>1. \A a \in archives : [a EXCEPT !.content = Corrupted(a.content)] \in Archives
      BY ContentFacts DEF Archives
    <3> QED BY <1>4, <3>1 DEF Corruption
  <2>4. spent' \in [written : Data, crashes : Nat, corruptions : Nat, upgrades : Nat]
    BY <1>4 DEF Corruption, Data
  <2> QED BY <1>4, <2>1, <2>2, <2>3, <2>4 DEF Corruption, SetupPlaces
<1>5. CASE Upgrade
  <2>1. root' \in Trees
    BY <1>5, NamedTrees, ContentFacts, Standing DEF Upgrade, Setup, Launch,
      HasRoot, Commands
  <2>2. baseline' \in Trees \cup {Torn}
    BY <1>5, NamedTrees, ContentFacts, Standing DEF Upgrade, Setup, Launch,
      BaselineExists
  <2>3. archives' \in SUBSET Archives
    <3>1. \A a \in archives : [a EXCEPT !.content = Released(a.content)] \in Archives
      BY ContentFacts DEF Archives
    <3> QED BY <1>5, <3>1 DEF Upgrade
  <2>4. spent' \in [written : Data, crashes : Nat, corruptions : Nat, upgrades : Nat]
    BY <1>5 DEF Upgrade, Setup, Launch, Data
  <2> QED BY <1>5, <2>1, <2>2, <2>3, <2>4 DEF Upgrade, Setup, Launch,
      SetupPlaces
<1> QED
  BY <1>1, <1>2, <1>3, <1>4, <1>5 DEF Fault

\* CommandStep loses no version that left the root.
LEMMA KeptCommandStep == TypeOK /\ BytesArePreserved /\ CommandStep => BytesArePreserved'
<1> SUFFICES ASSUME TypeOK, BytesArePreserved, CommandStep PROVE BytesArePreserved'
  OBVIOUS
<1> USE DEF BytesArePreserved, Kept, TypeOK
<1>1. CASE BeginArchive
  BY <1>1 DEF BeginArchive, OperatorIdle, Begin, disk
<1>2. CASE BeginReset
  BY <1>2 DEF BeginReset, OperatorIdle, Begin, disk
<1>3. CASE BeginVerify
  BY <1>3 DEF BeginVerify, Begin, disk
<1>4. CASE BeginRestore
  BY <1>4 DEF BeginRestore, OperatorIdle, Begin, disk
<1>5. CASE RestoreRefusesArchive
  BY <1>5 DEF RestoreRefusesArchive, OperatorIdle
<1>6. CASE BeginRestoreBaseline
  BY <1>6 DEF BeginRestoreBaseline, OperatorIdle, BaselineValid, Begin, disk
<1>7. CASE RestoreRefusesBaseline
  BY <1>7 DEF RestoreRefusesBaseline, OperatorIdle, BaselineInvalid,
    QuarantineBaseline
<1>8. CASE ResetFindsBaseline
  BY <1>8 DEF ResetFindsBaseline, At, BaselineValid, disk
<1>9. CASE ResetCreatesBaseline
  BY <1>9 DEF ResetCreatesBaseline, At, BaselineMissing, CreateBaseline
<1>10. CASE ResetRefusesBaseline
  BY <1>10 DEF ResetRefusesBaseline, At, BaselineInvalid, QuarantineBaseline,
    Refuse, Goto
<1>11. CASE ResetHasNoBaseline
  BY <1>11 DEF ResetHasNoBaseline, At, BaselineBlocked, Refuse, HasRoot,
    Locked, QuarantineRoot, RootLeaves, disk
<1>28. CASE ResetDisplacesRoot
  BY <1>28 DEF ResetDisplacesRoot, At, Refuse, HasRoot,
    Locked, QuarantineRoot, RootLeaves, disk
<1>12. CASE VerifySound
  BY <1>12 DEF VerifySound, At, Refuse, Goto, disk
<1>13. CASE VerifyQuarantines
  BY <1>13 DEF VerifyQuarantines, At, QuarantineRoot, RootLeaves, HasRoot,
    Locked, Refuse, Goto
<1>14. CASE VerifyRefuses
  BY <1>14 DEF VerifyRefuses, At, HasRoot, Locked, Refuse, disk
<1>15. CASE WritePending
  BY <1>15 DEF WritePending, At, Goto
<1>16. CASE CurrentAbsentOrSound
  BY <1>16 DEF CurrentAbsentOrSound, At, HasRoot, Goto, disk
<1>17. CASE CurrentCorrupt
  BY <1>17 DEF CurrentCorrupt, At, QuarantineRoot, RootLeaves, HasRoot,
    Locked, Goto
<1>18. CASE CurrentRefuses
  BY <1>18 DEF CurrentRefuses, At, HasRoot, Locked, Refuse, disk
<1>19. CASE MoveToArchive
  <2>1. departed' = departed \cup {root.data} /\ quarantine' = quarantine
    BY <1>19 DEF MoveToArchive, RootLeaves
  <2>2. archives' = archives \cup {[content |-> root, sealed |-> FALSE]}
    BY <1>19 DEF MoveToArchive
  <2>3. [content |-> root, sealed |-> FALSE].content.data = root.data
    OBVIOUS
  <2> QED BY <2>1, <2>2, <2>3
<1>20. CASE MoveFails
  BY <1>20 DEF MoveFails, At, Locked, HasRoot, Refuse, disk
<1>21. CASE WriteMovedManifest
  <2>1. PICK a \in archives : archives' = Sealing(a)
    BY <1>21 DEF WriteMovedManifest, SealArchive
  <2>2. [a EXCEPT !.sealed = TRUE].content = a.content
    BY <2>1 DEF Archives
  <2>3. \A b \in archives : \E c \in archives' : c.content = b.content
    BY <2>1, <2>2 DEF Sealing
  <2> QED BY <1>21, <2>3 DEF WriteMovedManifest, SealArchive
<1>22. CASE RewritePending
  BY <1>22 DEF RewritePending, At, Goto
<1>23. CASE CopySource
  BY <1>23 DEF CopySource, At, SourceStands, Goto, Refuse, disk
<1>24. CASE Swap
  BY <1>24 DEF Swap, At, HasRoot, Refuse, Goto
<1>25. CASE RemovePending
  BY <1>25 DEF RemovePending, At, Refuse
<1>26. CASE CopyToArchive
  BY <1>26 DEF CopyToArchive, At, HasRoot, Refuse
<1>27. CASE WriteCopiedManifest
  <2>1. PICK a \in archives : archives' = Sealing(a)
    BY <1>27 DEF WriteCopiedManifest, SealArchive
  <2>2. [a EXCEPT !.sealed = TRUE].content = a.content
    BY <2>1 DEF Archives
  <2>3. \A b \in archives : \E c \in archives' : c.content = b.content
    BY <2>1, <2>2 DEF Sealing
  <2> QED BY <1>27, <2>3 DEF WriteCopiedManifest, SealArchive
<1> QED
  BY <1>1, <1>2, <1>3, <1>4, <1>5, <1>6, <1>7, <1>8, <1>9, <1>10, <1>11,
     <1>12, <1>13, <1>14, <1>15, <1>16, <1>17, <1>18, <1>19, <1>20, <1>21,
     <1>22, <1>23, <1>24, <1>25, <1>26, <1>27, <1>28 DEF CommandStep

\* SetupStep loses no version that left the root.
LEMMA KeptSetupStep == TypeOK /\ BytesArePreserved /\ SetupStep => BytesArePreserved'
<1> SUFFICES ASSUME TypeOK, BytesArePreserved, SetupStep PROVE BytesArePreserved'
  OBVIOUS
<1> USE DEF BytesArePreserved, Kept, TypeOK
<1>1. CASE SetupInitializes
  BY <1>1 DEF SetupInitializes, Setup, HasRoot, SetupGoes
<1>2. CASE SetupEnsuresBaseline
  BY <1>2 DEF SetupEnsuresBaseline, Setup, BaselineValid, SetupGoes,
    BaselineMissing, CreateBaseline, BaselineInvalid, QuarantineBaseline,
    BaselineBlocked, disk
<1>3. CASE SetupStops
  BY <1>3 DEF SetupStops, SetupGoes, SetupOnly, disk
<1>4. CASE SetupStartsCore
  BY <1>4 DEF SetupStartsCore, Setup, Locked, SetupGoes
<1>5. CASE SetupStopsCore
  BY <1>5 DEF SetupStopsCore, Setup, SetupGoes
<1>6. CASE SetupRecords
  BY <1>6 DEF SetupRecords, Setup, SetupGoes
<1>7. CASE SetupFinalizes
  BY <1>7 DEF SetupFinalizes, Setup, BaselineValid, SetupGoes,
    BaselineInvalid, QuarantineBaseline, disk
<1>8. CASE SetupRemovesBaseline
  BY <1>8 DEF SetupRemovesBaseline, Setup, SetupGoes
<1>9. CASE SetupCreatesBaseline
  BY <1>9 DEF SetupCreatesBaseline, Setup, HasRoot, CreateBaseline, SetupGoes,
    disk
<1> QED
  BY <1>1, <1>2, <1>3, <1>4, <1>5, <1>6, <1>7, <1>8, <1>9 DEF SetupStep

\* LauncherStep loses no version that left the root.
LEMMA KeptLauncherStep == TypeOK /\ BytesArePreserved /\ LauncherStep => BytesArePreserved'
<1> SUFFICES ASSUME TypeOK, BytesArePreserved, LauncherStep PROVE BytesArePreserved'
  OBVIOUS
<1> USE DEF BytesArePreserved, Kept, TypeOK
<1>1. CASE LaunchLocks
  BY <1>1 DEF LaunchLocks, Launch, Locked, HasRoot, LaunchGoes
<1>2. CASE LaunchChecks
  BY <1>2 DEF LaunchChecks, Launch, Prepared, LaunchGoes
<1>3. CASE CoreServes
  BY <1>3 DEF CoreServes, Launch, MayServe, BaselineValid, BaselineMissing,
    LaunchGoes
<1>4. CASE CoreRefuses
  BY <1>4 DEF CoreRefuses, Launch, MayServe, BaselineBlocked, BaselineInvalid,
    LaunchGoes
<1>5. CASE CoreWrites
  BY <1>5 DEF CoreWrites, Launch, HasRoot
<1>6. CASE CoreStops
  BY <1>6 DEF CoreStops, Launch, LaunchGoes
<1> QED
  BY <1>1, <1>2, <1>3, <1>4, <1>5, <1>6 DEF LauncherStep

\* Fault loses no version that left the root.
LEMMA KeptFault == TypeOK /\ BytesArePreserved /\ Fault => BytesArePreserved'
<1> SUFFICES ASSUME TypeOK, BytesArePreserved, Fault PROVE BytesArePreserved'
  OBVIOUS
<1> USE DEF BytesArePreserved, Kept, TypeOK
<1>1. CASE CommandDies
  BY <1>1 DEF CommandDies, Crashing, Refuse, disk
<1>2. CASE SetupDies
  BY <1>2 DEF SetupDies, Setup, Crashing, SetupGoes
<1>3. CASE CoreDies
  BY <1>3 DEF CoreDies, Launch, Crashing, LaunchGoes
<1>4. CASE Corruption
  <2>1. \A b \in archives : \E c \in archives' : c.content.data = b.content.data
    <3>1. \A b \in archives : /\ b.content.data = Corrupted(b.content).data
                              /\ [b EXCEPT !.content = Corrupted(b.content)].content = Corrupted(b.content)
      BY DEF Archives, Contents, Corrupted
    <3> QED BY <1>4, <3>1 DEF Corruption
  <2>2. UNCHANGED <<departed, quarantine>>
    BY <1>4 DEF Corruption
  <2> QED BY <2>1, <2>2
<1>5. CASE Upgrade
  <2>1. \A b \in archives : \E c \in archives' : c.content.data = b.content.data
    <3>1. \A b \in archives : /\ b.content.data = Released(b.content).data
                              /\ [b EXCEPT !.content = Released(b.content)].content = Released(b.content)
      BY DEF Archives, Contents, Released
    <3> QED BY <1>5, <3>1 DEF Upgrade
  <2>2. UNCHANGED <<departed, quarantine>>
    BY <1>5 DEF Upgrade
  <2> QED BY <2>1, <2>2
<1> QED
  BY <1>1, <1>2, <1>3, <1>4, <1>5 DEF Fault

\* Why no Core serves over the gap: the marker stands at every place between
\* the move and the receipt, and the receipt is reached only when it is closed.
GapInv ==
    /\ NeverServesOverGap
    /\ op.pc \in {"current", "move", "manifest", "copy", "swap", "receipt"} => pending
    /\ op.pc = "receipt" => ~gap

\* CommandStep keeps the marker over the gap.
LEMMA GapCommandStep == TypeOK /\ GapInv /\ CommandStep => GapInv'
<1> SUFFICES ASSUME TypeOK, GapInv, CommandStep PROVE GapInv'
  OBVIOUS
<1> USE DEF GapInv, NeverServesOverGap, TypeOK, Commands, Idle
<1>1. CASE BeginArchive
  BY <1>1 DEF BeginArchive, OperatorIdle, Begin, disk
<1>2. CASE BeginReset
  BY <1>2 DEF BeginReset, OperatorIdle, Begin, disk
<1>3. CASE BeginVerify
  BY <1>3 DEF BeginVerify, Begin, disk
<1>4. CASE BeginRestore
  BY <1>4 DEF BeginRestore, OperatorIdle, Begin, disk
<1>5. CASE RestoreRefusesArchive
  BY <1>5 DEF RestoreRefusesArchive, OperatorIdle
<1>6. CASE BeginRestoreBaseline
  BY <1>6 DEF BeginRestoreBaseline, OperatorIdle, BaselineValid, Begin, disk
<1>7. CASE RestoreRefusesBaseline
  BY <1>7 DEF RestoreRefusesBaseline, OperatorIdle, BaselineInvalid,
    QuarantineBaseline
<1>8. CASE ResetFindsBaseline
  BY <1>8 DEF ResetFindsBaseline, At, BaselineValid, disk
<1>9. CASE ResetCreatesBaseline
  BY <1>9 DEF ResetCreatesBaseline, At, BaselineMissing, CreateBaseline
<1>10. CASE ResetRefusesBaseline
  BY <1>10 DEF ResetRefusesBaseline, At, BaselineInvalid, QuarantineBaseline,
    Refuse, Goto
<1>11. CASE ResetHasNoBaseline
  BY <1>11 DEF ResetHasNoBaseline, At, BaselineBlocked, Refuse, HasRoot,
    Locked, QuarantineRoot, RootLeaves, disk
<1>28. CASE ResetDisplacesRoot
  BY <1>28 DEF ResetDisplacesRoot, At, Refuse, HasRoot,
    Locked, QuarantineRoot, RootLeaves, disk
<1>12. CASE VerifySound
  BY <1>12 DEF VerifySound, At, Refuse, Goto, disk
<1>13. CASE VerifyQuarantines
  BY <1>13 DEF VerifyQuarantines, At, QuarantineRoot, RootLeaves, HasRoot,
    Locked, Refuse, Goto
<1>14. CASE VerifyRefuses
  BY <1>14 DEF VerifyRefuses, At, HasRoot, Locked, Refuse, disk
<1>15. CASE WritePending
  BY <1>15 DEF WritePending, At, Goto
<1>16. CASE CurrentAbsentOrSound
  BY <1>16 DEF CurrentAbsentOrSound, At, HasRoot, Goto, disk
<1>17. CASE CurrentCorrupt
  BY <1>17 DEF CurrentCorrupt, At, QuarantineRoot, RootLeaves, HasRoot,
    Locked, Goto
<1>18. CASE CurrentRefuses
  BY <1>18 DEF CurrentRefuses, At, HasRoot, Locked, Refuse, disk
<1>19. CASE MoveToArchive
  BY <1>19 DEF MoveToArchive, At, RootLeaves, HasRoot, Locked
<1>20. CASE MoveFails
  BY <1>20 DEF MoveFails, At, Locked, HasRoot, Refuse, disk
<1>21. CASE WriteMovedManifest
  BY <1>21 DEF WriteMovedManifest, SealArchive, At, Sealing, Refuse, Goto
<1>22. CASE RewritePending
  BY <1>22 DEF RewritePending, At, Goto
<1>23. CASE CopySource
  BY <1>23 DEF CopySource, At, SourceStands, Goto, Refuse, disk
<1>24. CASE Swap
  BY <1>24 DEF Swap, At, HasRoot, Refuse, Goto
<1>25. CASE RemovePending
  BY <1>25 DEF RemovePending, At, Refuse
<1>26. CASE CopyToArchive
  <2>1. op'.pc \in {"archive_seal", "idle"}
    <3>1. CASE HasRoot
      <4>1. op' = [op EXCEPT !.pc = "archive_seal", !.moved = root]
        BY <1>26, <3>1 DEF CopyToArchive
      <4> QED BY <4>1 DEF TypeOK, Commands
    <3>2. CASE ~HasRoot
      <4>1. op' = Idle
        BY <1>26, <3>2 DEF CopyToArchive, Refuse
      <4> QED BY <4>1 DEF Idle
    <3> QED BY <3>1, <3>2
  <2> QED BY <1>26, <2>1 DEF CopyToArchive
<1>27. CASE WriteCopiedManifest
  BY <1>27 DEF WriteCopiedManifest, SealArchive, At, Sealing, Refuse, Goto
<1> QED
  BY <1>1, <1>2, <1>3, <1>4, <1>5, <1>6, <1>7, <1>8, <1>9, <1>10, <1>11,
     <1>12, <1>13, <1>14, <1>15, <1>16, <1>17, <1>18, <1>19, <1>20, <1>21,
     <1>22, <1>23, <1>24, <1>25, <1>26, <1>27, <1>28 DEF CommandStep

\* SetupStep keeps the marker over the gap.
LEMMA GapSetupStep == TypeOK /\ GapInv /\ SetupStep => GapInv'
<1> SUFFICES ASSUME TypeOK, GapInv, SetupStep PROVE GapInv'
  OBVIOUS
<1> USE DEF GapInv, NeverServesOverGap, TypeOK, Commands, Idle
<1>1. CASE SetupInitializes
  BY <1>1 DEF SetupInitializes, Setup, HasRoot, SetupGoes
<1>2. CASE SetupEnsuresBaseline
  BY <1>2 DEF SetupEnsuresBaseline, Setup, BaselineValid, SetupGoes,
    BaselineMissing, CreateBaseline, BaselineInvalid, QuarantineBaseline,
    BaselineBlocked, disk
<1>3. CASE SetupStops
  BY <1>3 DEF SetupStops, SetupGoes, SetupOnly, disk
<1>4. CASE SetupStartsCore
  BY <1>4 DEF SetupStartsCore, Setup, Locked, SetupGoes
<1>5. CASE SetupStopsCore
  BY <1>5 DEF SetupStopsCore, Setup, SetupGoes
<1>6. CASE SetupRecords
  BY <1>6 DEF SetupRecords, Setup, SetupGoes
<1>7. CASE SetupFinalizes
  BY <1>7 DEF SetupFinalizes, Setup, BaselineValid, SetupGoes,
    BaselineInvalid, QuarantineBaseline, disk
<1>8. CASE SetupRemovesBaseline
  BY <1>8 DEF SetupRemovesBaseline, Setup, SetupGoes
<1>9. CASE SetupCreatesBaseline
  BY <1>9 DEF SetupCreatesBaseline, Setup, HasRoot, CreateBaseline, SetupGoes,
    disk
<1> QED
  BY <1>1, <1>2, <1>3, <1>4, <1>5, <1>6, <1>7, <1>8, <1>9 DEF SetupStep

\* LauncherStep keeps the marker over the gap.
LEMMA GapLauncherStep == TypeOK /\ GapInv /\ LauncherStep => GapInv'
<1> SUFFICES ASSUME TypeOK, GapInv, LauncherStep PROVE GapInv'
  OBVIOUS
<1> USE DEF GapInv, NeverServesOverGap, TypeOK, Commands, Idle
<1>1. CASE LaunchLocks
  BY <1>1 DEF LaunchLocks, Launch, Locked, HasRoot, LaunchGoes
<1>2. CASE LaunchChecks
  BY <1>2 DEF LaunchChecks, Launch, Prepared, LaunchGoes
<1>3. CASE CoreServes
  BY <1>3 DEF CoreServes, Launch, MayServe, BaselineValid, BaselineMissing,
    LaunchGoes
<1>4. CASE CoreRefuses
  BY <1>4 DEF CoreRefuses, Launch, MayServe, BaselineBlocked, BaselineInvalid,
    LaunchGoes
<1>5. CASE CoreWrites
  BY <1>5 DEF CoreWrites, Launch, HasRoot
<1>6. CASE CoreStops
  BY <1>6 DEF CoreStops, Launch, LaunchGoes
<1> QED
  BY <1>1, <1>2, <1>3, <1>4, <1>5, <1>6 DEF LauncherStep

\* Fault keeps the marker over the gap.
LEMMA GapFault == TypeOK /\ GapInv /\ Fault => GapInv'
<1> SUFFICES ASSUME TypeOK, GapInv, Fault PROVE GapInv'
  OBVIOUS
<1> USE DEF GapInv, NeverServesOverGap, TypeOK, Commands, Idle
<1>1. CASE CommandDies
  BY <1>1 DEF CommandDies, Crashing, Refuse, disk
<1>2. CASE SetupDies
  BY <1>2 DEF SetupDies, Setup, Crashing, SetupGoes
<1>3. CASE CoreDies
  BY <1>3 DEF CoreDies, Launch, Crashing, LaunchGoes
<1>4. CASE Corruption
  BY <1>4 DEF Corruption, HasRoot
<1>5. CASE Upgrade
  BY <1>5 DEF Upgrade, Setup, Launch
<1> QED
  BY <1>1, <1>2, <1>3, <1>4, <1>5 DEF Fault

\* Why the receipt is true: what was moved away is sealed from the manifest
\* on, a Core that lives holds its root in place, and nobody writes to a root
\* that has just been put there.
RootHeld == launcher # "off" => HasRoot

MovedIsSealed ==
    op.moved # NoState => \E a \in archives : a.content.data = op.moved.data /\ a.sealed

MovedInv ==
    /\ op.pc \in {"baseline", "verify", "mark", "current", "move"} => op.moved = NoState
    /\ op.pc \in {"pend", "copy", "swap", "receipt"} => MovedIsSealed

Landed == op.pc = "receipt" => root.data = op.source.data /\ launcher # "serving"

\* CommandStep leaves the root of a living Core in place.
LEMMA HeldCommandStep == TypeOK /\ RootHeld /\ CommandStep => RootHeld'
<1> SUFFICES ASSUME TypeOK, RootHeld, CommandStep PROVE RootHeld'
  OBVIOUS
<1> USE DEF RootHeld, HasRoot
<1>1. CASE BeginArchive
  BY <1>1 DEF BeginArchive, OperatorIdle, Begin, NoState, disk
<1>2. CASE BeginReset
  BY <1>2 DEF BeginReset, OperatorIdle, Begin, NoState, disk
<1>3. CASE BeginVerify
  BY <1>3 DEF BeginVerify, Begin, NoState, disk
<1>4. CASE BeginRestore
  BY <1>4 DEF BeginRestore, OperatorIdle, Begin, NoState, disk
<1>5. CASE RestoreRefusesArchive
  BY <1>5 DEF RestoreRefusesArchive, NoState, OperatorIdle
<1>6. CASE BeginRestoreBaseline
  BY <1>6 DEF BeginRestoreBaseline, OperatorIdle, BaselineValid, NoState,
    Begin, disk
<1>7. CASE RestoreRefusesBaseline
  BY <1>7 DEF RestoreRefusesBaseline, NoState, OperatorIdle, BaselineInvalid,
    QuarantineBaseline
<1>8. CASE ResetFindsBaseline
  BY <1>8 DEF ResetFindsBaseline, At, BaselineValid, NoState, disk
<1>9. CASE ResetCreatesBaseline
  BY <1>9 DEF ResetCreatesBaseline, At, BaselineMissing, NoState,
    CreateBaseline
<1>10. CASE ResetRefusesBaseline
  BY <1>10 DEF ResetRefusesBaseline, At, BaselineInvalid, NoState,
    QuarantineBaseline, Refuse, Goto
<1>11. CASE ResetHasNoBaseline
  BY <1>11 DEF ResetHasNoBaseline, At, BaselineBlocked, NoState, Refuse,
    Locked, QuarantineRoot, RootLeaves, disk
<1>28. CASE ResetDisplacesRoot
  BY <1>28 DEF ResetDisplacesRoot, At, NoState, Refuse,
    Locked, QuarantineRoot, RootLeaves, disk
<1>12. CASE VerifySound
  BY <1>12 DEF VerifySound, At, Refuse, NoState, Goto, disk
<1>13. CASE VerifyQuarantines
  BY <1>13 DEF VerifyQuarantines, At, QuarantineRoot, RootLeaves, NoState,
    Locked, Refuse, Goto
<1>14. CASE VerifyRefuses
  BY <1>14 DEF VerifyRefuses, At, NoState, Locked, Refuse, disk
<1>15. CASE WritePending
  BY <1>15 DEF WritePending, At, Goto
<1>16. CASE CurrentAbsentOrSound
  BY <1>16 DEF CurrentAbsentOrSound, At, NoState, Goto, disk
<1>17. CASE CurrentCorrupt
  BY <1>17 DEF CurrentCorrupt, At, QuarantineRoot, RootLeaves, NoState,
    Locked, Goto
<1>18. CASE CurrentRefuses
  BY <1>18 DEF CurrentRefuses, At, NoState, Locked, Refuse, disk
<1>19. CASE MoveToArchive
  BY <1>19 DEF MoveToArchive, At, RootLeaves, NoState, Locked
<1>20. CASE MoveFails
  BY <1>20 DEF MoveFails, At, Locked, NoState, Refuse, disk
<1>21. CASE WriteMovedManifest
  BY <1>21 DEF WriteMovedManifest, SealArchive, At, Sealing, Refuse, NoState,
    Goto
<1>22. CASE RewritePending
  BY <1>22 DEF RewritePending, At, Goto
<1>23. CASE CopySource
  BY <1>23 DEF CopySource, At, SourceStands, Goto, Refuse, NoState, disk
<1>24. CASE Swap
  BY <1>24 DEF Swap, At, NoState, Refuse, Goto
<1>25. CASE RemovePending
  BY <1>25 DEF RemovePending, At, Refuse, NoState
<1>26. CASE CopyToArchive
  BY <1>26 DEF CopyToArchive, At, NoState, Refuse
<1>27. CASE WriteCopiedManifest
  BY <1>27 DEF WriteCopiedManifest, SealArchive, At, Sealing, Refuse, NoState,
    Goto
<1> QED
  BY <1>1, <1>2, <1>3, <1>4, <1>5, <1>6, <1>7, <1>8, <1>9, <1>10, <1>11,
     <1>12, <1>13, <1>14, <1>15, <1>16, <1>17, <1>18, <1>19, <1>20, <1>21,
     <1>22, <1>23, <1>24, <1>25, <1>26, <1>27, <1>28 DEF CommandStep

\* SetupStep leaves the root of a living Core in place.
LEMMA HeldSetupStep == TypeOK /\ RootHeld /\ SetupStep => RootHeld'
<1> SUFFICES ASSUME TypeOK, RootHeld, SetupStep PROVE RootHeld'
  OBVIOUS
<1> USE DEF RootHeld, HasRoot
<1>1. CASE SetupInitializes
  BY <1>1 DEF SetupInitializes, Setup, NoState, Pristine, SetupGoes
<1>2. CASE SetupEnsuresBaseline
  BY <1>2 DEF SetupEnsuresBaseline, Setup, BaselineValid, NoState, SetupGoes,
    BaselineMissing, CreateBaseline, BaselineInvalid, QuarantineBaseline,
    BaselineBlocked, disk
<1>3. CASE SetupStops
  BY <1>3 DEF SetupStops, SetupGoes, SetupOnly, disk
<1>4. CASE SetupStartsCore
  BY <1>4 DEF SetupStartsCore, Setup, Locked, SetupGoes
<1>5. CASE SetupStopsCore
  BY <1>5 DEF SetupStopsCore, Setup, SetupGoes
<1>6. CASE SetupRecords
  BY <1>6 DEF SetupRecords, Setup, SetupGoes
<1>7. CASE SetupFinalizes
  BY <1>7 DEF SetupFinalizes, Setup, BaselineValid, NoState, SetupGoes,
    BaselineInvalid, QuarantineBaseline, disk
<1>8. CASE SetupRemovesBaseline
  BY <1>8 DEF SetupRemovesBaseline, Setup, NoState, SetupGoes
<1>9. CASE SetupCreatesBaseline
  BY <1>9 DEF SetupCreatesBaseline, Setup, NoState, CreateBaseline, SetupGoes,
    disk
<1> QED
  BY <1>1, <1>2, <1>3, <1>4, <1>5, <1>6, <1>7, <1>8, <1>9 DEF SetupStep

\* LauncherStep leaves the root of a living Core in place.
LEMMA HeldLauncherStep == TypeOK /\ RootHeld /\ LauncherStep => RootHeld'
<1> SUFFICES ASSUME TypeOK, RootHeld, LauncherStep PROVE RootHeld'
  OBVIOUS
<1> USE DEF RootHeld, HasRoot
<1>1. CASE LaunchLocks
  BY <1>1 DEF LaunchLocks, Launch, Locked, NoState, LaunchGoes
<1>2. CASE LaunchChecks
  BY <1>2 DEF LaunchChecks, Launch, Prepared, LaunchGoes
<1>3. CASE CoreServes
  BY <1>3 DEF CoreServes, Launch, MayServe, BaselineValid, NoState,
    BaselineMissing, LaunchGoes
<1>4. CASE CoreRefuses
  BY <1>4 DEF CoreRefuses, Launch, MayServe, BaselineBlocked, NoState,
    BaselineInvalid, LaunchGoes
<1>5. CASE CoreWrites
  <2>1. HasRoot'
    BY <1>5 DEF CoreWrites, NoState, TypeOK, HasRoot, Trees, Contents, Data
  <2> QED BY <2>1
<1>6. CASE CoreStops
  BY <1>6 DEF CoreStops, Launch, LaunchGoes
<1> QED
  BY <1>1, <1>2, <1>3, <1>4, <1>5, <1>6 DEF LauncherStep

\* Fault leaves the root of a living Core in place.
LEMMA HeldFault == TypeOK /\ RootHeld /\ Fault => RootHeld'
<1> SUFFICES ASSUME TypeOK, RootHeld, Fault PROVE RootHeld'
  OBVIOUS
<1> USE DEF RootHeld, HasRoot
<1>1. CASE CommandDies
  BY <1>1 DEF CommandDies, NoState, Crashing, Refuse, disk
<1>2. CASE SetupDies
  <2>1. [Pristine EXCEPT !.health = "CORRUPT"] # NoState
    BY DEF Pristine, NoState
  <2> QED BY <1>2, <2>1 DEF SetupDies, Setup
<1>3. CASE CoreDies
  BY <1>3 DEF CoreDies, Launch, Crashing, LaunchGoes
<1>4. CASE Corruption
  <2>1. HasRoot => Corrupted(root) # NoState
    <3>1. HasRoot => Corrupted(root).data \in Nat
      BY DEF TypeOK, Trees, Contents, Corrupted, HasRoot, Data
    <3>2. NoState.data = -1
      BY DEF NoState
    <3> QED BY <3>1, <3>2
  <2> QED BY <1>4, <2>1 DEF Corruption
<1>5. CASE Upgrade
  BY <1>5 DEF Upgrade, NoState, Setup, Launch, Released
<1> QED
  BY <1>1, <1>2, <1>3, <1>4, <1>5 DEF Fault

\* CommandStep keeps the seal of what was moved.
LEMMA MovedCommandStep == TypeOK /\ MovedInv /\ CommandStep => MovedInv'
<1> SUFFICES ASSUME TypeOK, MovedInv, CommandStep PROVE MovedInv'
  OBVIOUS
<1> USE DEF MovedInv, MovedIsSealed
<1>1. CASE BeginArchive
  BY <1>1 DEF BeginArchive, OperatorIdle, Begin, disk, TypeOK, Commands, Idle
<1>2. CASE BeginReset
  BY <1>2 DEF BeginReset, OperatorIdle, Begin, disk, TypeOK, Commands, Idle
<1>3. CASE BeginVerify
  BY <1>3 DEF BeginVerify, Begin, disk, TypeOK, Commands, Idle
<1>4. CASE BeginRestore
  BY <1>4 DEF BeginRestore, OperatorIdle, Begin, disk, TypeOK, Commands, Idle
<1>5. CASE RestoreRefusesArchive
  BY <1>5 DEF RestoreRefusesArchive, OperatorIdle, TypeOK, Commands, Idle
<1>6. CASE BeginRestoreBaseline
  BY <1>6 DEF BeginRestoreBaseline, OperatorIdle, BaselineValid, Begin, disk,
    TypeOK, Commands, Idle
<1>7. CASE RestoreRefusesBaseline
  BY <1>7 DEF RestoreRefusesBaseline, OperatorIdle, BaselineInvalid,
    QuarantineBaseline, TypeOK, Commands, Idle
<1>8. CASE ResetFindsBaseline
  BY <1>8 DEF ResetFindsBaseline, At, BaselineValid, disk, TypeOK, Commands,
    Idle
<1>9. CASE ResetCreatesBaseline
  BY <1>9 DEF ResetCreatesBaseline, At, BaselineMissing, CreateBaseline,
    TypeOK, Commands, Idle
<1>10. CASE ResetRefusesBaseline
  BY <1>10 DEF ResetRefusesBaseline, At, BaselineInvalid, QuarantineBaseline,
    Refuse, Goto, TypeOK, Commands, Idle
<1>11. CASE ResetHasNoBaseline
  BY <1>11 DEF ResetHasNoBaseline, At, BaselineBlocked, Refuse, HasRoot,
    Locked, QuarantineRoot, RootLeaves, disk, TypeOK, Commands, Idle
<1>28. CASE ResetDisplacesRoot
  BY <1>28 DEF ResetDisplacesRoot, At, Refuse, HasRoot,
    Locked, QuarantineRoot, RootLeaves, disk, TypeOK, Commands, Idle
<1>12. CASE VerifySound
  BY <1>12 DEF VerifySound, At, Refuse, Goto, disk, TypeOK, Commands, Idle
<1>13. CASE VerifyQuarantines
  BY <1>13 DEF VerifyQuarantines, At, QuarantineRoot, RootLeaves, HasRoot,
    Locked, Refuse, Goto, TypeOK, Commands, Idle
<1>14. CASE VerifyRefuses
  BY <1>14 DEF VerifyRefuses, At, HasRoot, Locked, Refuse, disk, TypeOK,
    Commands, Idle
<1>15. CASE WritePending
  BY <1>15 DEF WritePending, At, Goto, TypeOK, Commands, Idle
<1>16. CASE CurrentAbsentOrSound
  BY <1>16 DEF CurrentAbsentOrSound, At, HasRoot, Goto, disk, TypeOK,
    Commands, Idle
<1>17. CASE CurrentCorrupt
  BY <1>17 DEF CurrentCorrupt, At, QuarantineRoot, RootLeaves, HasRoot,
    Locked, Goto, TypeOK, Commands, Idle
<1>18. CASE CurrentRefuses
  BY <1>18 DEF CurrentRefuses, At, HasRoot, Locked, Refuse, disk, TypeOK,
    Commands, Idle
<1>19. CASE MoveToArchive
  BY <1>19 DEF MoveToArchive, TypeOK, Commands
<1>20. CASE MoveFails
  BY <1>20 DEF MoveFails, At, Locked, HasRoot, Refuse, disk, TypeOK, Commands,
    Idle
<1>21. CASE WriteMovedManifest
  <2>1. PICK a \in archives : a.content.data = op.moved.data /\ archives' = Sealing(a)
    BY <1>21 DEF WriteMovedManifest, SealArchive
  <2>2. [a EXCEPT !.sealed = TRUE].content = a.content /\ [a EXCEPT !.sealed = TRUE].sealed
    BY <2>1 DEF TypeOK, Archives
  <2>3. \E c \in archives' : c.content.data = op.moved.data /\ c.sealed
    BY <2>1, <2>2 DEF Sealing
  <2>4. op'.moved = op.moved /\ op'.pc = "pend"
    BY <1>21 DEF WriteMovedManifest, SealArchive, Goto, TypeOK, Commands
  <2> QED BY <2>3, <2>4
<1>22. CASE RewritePending
  BY <1>22 DEF RewritePending, At, Goto, TypeOK, Commands, Idle
<1>23. CASE CopySource
  BY <1>23 DEF CopySource, At, SourceStands, Goto, Refuse, disk, TypeOK,
    Commands, Idle
<1>24. CASE Swap
  BY <1>24 DEF Swap, At, HasRoot, Refuse, Goto, TypeOK, Commands, Idle
<1>25. CASE RemovePending
  BY <1>25 DEF RemovePending, At, Refuse, TypeOK, Commands, Idle
<1>26. CASE CopyToArchive
  <2>1. op'.pc \in {"archive_seal", "idle"}
    <3>1. CASE HasRoot
      <4>1. op' = [op EXCEPT !.pc = "archive_seal", !.moved = root]
        BY <1>26, <3>1 DEF CopyToArchive
      <4> QED BY <4>1 DEF TypeOK, Commands
    <3>2. CASE ~HasRoot
      <4>1. op' = Idle
        BY <1>26, <3>2 DEF CopyToArchive, Refuse
      <4> QED BY <4>1 DEF Idle
    <3> QED BY <3>1, <3>2
  <2> QED BY <2>1
<1>27. CASE WriteCopiedManifest
  BY <1>27 DEF WriteCopiedManifest, SealArchive, Refuse, Idle
<1> QED
  BY <1>1, <1>2, <1>3, <1>4, <1>5, <1>6, <1>7, <1>8, <1>9, <1>10, <1>11,
     <1>12, <1>13, <1>14, <1>15, <1>16, <1>17, <1>18, <1>19, <1>20, <1>21,
     <1>22, <1>23, <1>24, <1>25, <1>26, <1>27, <1>28 DEF CommandStep

\* SetupStep keeps the seal of what was moved.
LEMMA MovedSetupStep == TypeOK /\ MovedInv /\ SetupStep => MovedInv'
<1> SUFFICES ASSUME TypeOK, MovedInv, SetupStep PROVE MovedInv'
  OBVIOUS
<1> USE DEF MovedInv, MovedIsSealed
<1>1. CASE SetupInitializes
  BY <1>1 DEF SetupInitializes, Setup, HasRoot, SetupGoes, TypeOK, Commands,
    Idle
<1>2. CASE SetupEnsuresBaseline
  BY <1>2 DEF SetupEnsuresBaseline, Setup, BaselineValid, SetupGoes,
    BaselineMissing, CreateBaseline, BaselineInvalid, QuarantineBaseline,
    BaselineBlocked, disk, TypeOK, Commands, Idle
<1>3. CASE SetupStops
  BY <1>3 DEF SetupStops, SetupGoes, SetupOnly, disk, TypeOK, Commands, Idle
<1>4. CASE SetupStartsCore
  BY <1>4 DEF SetupStartsCore, Setup, Locked, SetupGoes, TypeOK, Commands,
    Idle
<1>5. CASE SetupStopsCore
  BY <1>5 DEF SetupStopsCore, Setup, SetupGoes, TypeOK, Commands, Idle
<1>6. CASE SetupRecords
  BY <1>6 DEF SetupRecords, Setup, SetupGoes, TypeOK, Commands, Idle
<1>7. CASE SetupFinalizes
  BY <1>7 DEF SetupFinalizes, Setup, BaselineValid, SetupGoes,
    BaselineInvalid, QuarantineBaseline, disk, TypeOK, Commands, Idle
<1>8. CASE SetupRemovesBaseline
  BY <1>8 DEF SetupRemovesBaseline, Setup, SetupGoes, TypeOK, Commands, Idle
<1>9. CASE SetupCreatesBaseline
  BY <1>9 DEF SetupCreatesBaseline, Setup, HasRoot, CreateBaseline, SetupGoes,
    disk, TypeOK, Commands, Idle
<1> QED
  BY <1>1, <1>2, <1>3, <1>4, <1>5, <1>6, <1>7, <1>8, <1>9 DEF SetupStep

\* LauncherStep keeps the seal of what was moved.
LEMMA MovedLauncherStep == TypeOK /\ MovedInv /\ LauncherStep => MovedInv'
<1> SUFFICES ASSUME TypeOK, MovedInv, LauncherStep PROVE MovedInv'
  OBVIOUS
<1> USE DEF MovedInv, MovedIsSealed
<1>1. CASE LaunchLocks
  BY <1>1 DEF LaunchLocks, Launch, Locked, HasRoot, LaunchGoes, TypeOK,
    Commands, Idle
<1>2. CASE LaunchChecks
  BY <1>2 DEF LaunchChecks, Launch, Prepared, LaunchGoes, TypeOK, Commands,
    Idle
<1>3. CASE CoreServes
  BY <1>3 DEF CoreServes, Launch, MayServe, BaselineValid, BaselineMissing,
    LaunchGoes, TypeOK, Commands, Idle
<1>4. CASE CoreRefuses
  BY <1>4 DEF CoreRefuses, Launch, MayServe, BaselineBlocked, BaselineInvalid,
    LaunchGoes, TypeOK, Commands, Idle
<1>5. CASE CoreWrites
  BY <1>5 DEF CoreWrites, Launch, HasRoot, TypeOK, Commands, Idle
<1>6. CASE CoreStops
  BY <1>6 DEF CoreStops, Launch, LaunchGoes, TypeOK, Commands, Idle
<1> QED
  BY <1>1, <1>2, <1>3, <1>4, <1>5, <1>6 DEF LauncherStep

\* Fault keeps the seal of what was moved.
LEMMA MovedFault == TypeOK /\ MovedInv /\ Fault => MovedInv'
<1> SUFFICES ASSUME TypeOK, MovedInv, Fault PROVE MovedInv'
  OBVIOUS
<1> USE DEF MovedInv, MovedIsSealed
<1>1. CASE CommandDies
  BY <1>1 DEF CommandDies, Crashing, Refuse, disk, TypeOK, Commands, Idle
<1>2. CASE SetupDies
  BY <1>2 DEF SetupDies, Setup, Crashing, SetupGoes, TypeOK, Commands, Idle
<1>3. CASE CoreDies
  BY <1>3 DEF CoreDies, Launch, Crashing, LaunchGoes, TypeOK, Commands, Idle
<1>4. CASE Corruption
  <2>1. \A b \in archives : \E c \in archives' :
           c.content.data = b.content.data /\ c.sealed = b.sealed
    <3>1. \A b \in archives : /\ b.content.data = Corrupted(b.content).data
                              /\ [b EXCEPT !.content = Corrupted(b.content)].content = Corrupted(b.content)
                              /\ [b EXCEPT !.content = Corrupted(b.content)].sealed = b.sealed
      BY DEF TypeOK, Archives, Contents, Corrupted
    <3> QED BY <1>4, <3>1 DEF Corruption
  <2> QED BY <1>4, <2>1 DEF Corruption
<1>5. CASE Upgrade
  BY <1>5 DEF Upgrade, Idle
<1> QED
  BY <1>1, <1>2, <1>3, <1>4, <1>5 DEF Fault

\* CommandStep does not touch a root that has just been put in place.
LEMMA LandedCommandStep == TypeOK /\ RootHeld /\ GapInv /\ Landed /\ CommandStep => Landed'
<1> SUFFICES ASSUME TypeOK, RootHeld, GapInv, Landed, CommandStep PROVE Landed'
  OBVIOUS
<1> USE DEF GapInv, RootHeld, Landed
<1>1. CASE BeginArchive
  BY <1>1 DEF BeginArchive, OperatorIdle, Begin, disk, TypeOK, Commands, Idle,
    Corrupted, Trees, Contents
<1>2. CASE BeginReset
  BY <1>2 DEF BeginReset, OperatorIdle, Begin, disk, TypeOK, Commands, Idle,
    Corrupted, Trees, Contents
<1>3. CASE BeginVerify
  BY <1>3 DEF BeginVerify, Begin, disk, TypeOK, Commands, Idle, Corrupted,
    Trees, Contents
<1>4. CASE BeginRestore
  BY <1>4 DEF BeginRestore, OperatorIdle, Begin, disk, TypeOK, Commands, Idle,
    Corrupted, Trees, Contents
<1>5. CASE RestoreRefusesArchive
  BY <1>5 DEF RestoreRefusesArchive, OperatorIdle, TypeOK, Commands, Idle,
    Corrupted, Trees, Contents
<1>6. CASE BeginRestoreBaseline
  BY <1>6 DEF BeginRestoreBaseline, OperatorIdle, BaselineValid, Begin, disk,
    TypeOK, Commands, Idle, Corrupted, Trees, Contents
<1>7. CASE RestoreRefusesBaseline
  BY <1>7 DEF RestoreRefusesBaseline, OperatorIdle, BaselineInvalid,
    QuarantineBaseline, TypeOK, Commands, Idle, Corrupted, Trees, Contents
<1>8. CASE ResetFindsBaseline
  BY <1>8 DEF ResetFindsBaseline, At, BaselineValid, disk, TypeOK, Commands,
    Idle, Corrupted, Trees, Contents
<1>9. CASE ResetCreatesBaseline
  BY <1>9 DEF ResetCreatesBaseline, At, BaselineMissing, CreateBaseline,
    TypeOK, Commands, Idle, Corrupted, Trees, Contents
<1>10. CASE ResetRefusesBaseline
  BY <1>10 DEF ResetRefusesBaseline, At, BaselineInvalid, QuarantineBaseline,
    Refuse, Goto, TypeOK, Commands, Idle, Corrupted, Trees, Contents
<1>11. CASE ResetHasNoBaseline
  BY <1>11 DEF ResetHasNoBaseline, At, BaselineBlocked, Refuse, Locked,
    QuarantineRoot, RootLeaves, disk, TypeOK, Commands, Idle, Corrupted,
    Trees, Contents
<1>28. CASE ResetDisplacesRoot
  BY <1>28 DEF ResetDisplacesRoot, At, Refuse, Locked,
    QuarantineRoot, RootLeaves, disk, TypeOK, Commands, Idle, Corrupted,
    Trees, Contents
<1>12. CASE VerifySound
  BY <1>12 DEF VerifySound, At, Refuse, Goto, disk, TypeOK, Commands, Idle,
    Corrupted, Trees, Contents
<1>13. CASE VerifyQuarantines
  BY <1>13 DEF VerifyQuarantines, At, QuarantineRoot, RootLeaves, Locked,
    Refuse, Goto, TypeOK, Commands, Idle, Corrupted, Trees, Contents
<1>14. CASE VerifyRefuses
  BY <1>14 DEF VerifyRefuses, At, Locked, Refuse, disk, TypeOK, Commands,
    Idle, Corrupted, Trees, Contents
<1>15. CASE WritePending
  BY <1>15 DEF WritePending, At, Goto, TypeOK, Commands, Idle, Corrupted,
    Trees, Contents
<1>16. CASE CurrentAbsentOrSound
  BY <1>16 DEF CurrentAbsentOrSound, At, Goto, disk, TypeOK, Commands, Idle,
    Corrupted, Trees, Contents
<1>17. CASE CurrentCorrupt
  BY <1>17 DEF CurrentCorrupt, At, QuarantineRoot, RootLeaves, Locked, Goto,
    TypeOK, Commands, Idle, Corrupted, Trees, Contents
<1>18. CASE CurrentRefuses
  BY <1>18 DEF CurrentRefuses, At, Locked, Refuse, disk, TypeOK, Commands,
    Idle, Corrupted, Trees, Contents
<1>19. CASE MoveToArchive
  BY <1>19 DEF MoveToArchive, At, RootLeaves, Locked, TypeOK, Commands, Idle,
    Corrupted, Trees, Contents
<1>20. CASE MoveFails
  BY <1>20 DEF MoveFails, At, Locked, Refuse, disk, TypeOK, Commands, Idle,
    Corrupted, Trees, Contents
<1>21. CASE WriteMovedManifest
  BY <1>21 DEF WriteMovedManifest, SealArchive, At, Sealing, Refuse, Goto,
    TypeOK, Commands, Idle, Corrupted, Trees, Contents
<1>22. CASE RewritePending
  BY <1>22 DEF RewritePending, At, Goto, TypeOK, Commands, Idle, Corrupted,
    Trees, Contents
<1>23. CASE CopySource
  BY <1>23 DEF CopySource, At, SourceStands, Goto, Refuse, disk, TypeOK,
    Commands, Idle, Corrupted, Trees, Contents
<1>24. CASE Swap
  BY <1>24 DEF Swap, At, Refuse, Goto, TypeOK, Commands, Idle, Corrupted,
    Trees, Contents
<1>25. CASE RemovePending
  BY <1>25 DEF RemovePending, At, Refuse, TypeOK, Commands, Idle, Corrupted,
    Trees, Contents
<1>26. CASE CopyToArchive
  <2>1. op'.pc \in {"archive_seal", "idle"}
    <3>1. CASE HasRoot
      <4>1. op' = [op EXCEPT !.pc = "archive_seal", !.moved = root]
        BY <1>26, <3>1 DEF CopyToArchive
      <4> QED BY <4>1 DEF TypeOK, Commands
    <3>2. CASE ~HasRoot
      <4>1. op' = Idle
        BY <1>26, <3>2 DEF CopyToArchive, Refuse
      <4> QED BY <4>1 DEF Idle
    <3> QED BY <3>1, <3>2
  <2> QED BY <2>1
<1>27. CASE WriteCopiedManifest
  BY <1>27 DEF WriteCopiedManifest, SealArchive, At, Sealing, Refuse, Goto,
    TypeOK, Commands, Idle, Corrupted, Trees, Contents
<1> QED
  BY <1>1, <1>2, <1>3, <1>4, <1>5, <1>6, <1>7, <1>8, <1>9, <1>10, <1>11,
     <1>12, <1>13, <1>14, <1>15, <1>16, <1>17, <1>18, <1>19, <1>20, <1>21,
     <1>22, <1>23, <1>24, <1>25, <1>26, <1>27, <1>28 DEF CommandStep

\* SetupStep does not touch a root that has just been put in place.
LEMMA LandedSetupStep == TypeOK /\ RootHeld /\ GapInv /\ Landed /\ SetupStep => Landed'
<1> SUFFICES ASSUME TypeOK, RootHeld, GapInv, Landed, SetupStep PROVE Landed'
  OBVIOUS
<1> USE DEF GapInv, RootHeld, Landed
<1>1. CASE SetupInitializes
  BY <1>1 DEF SetupInitializes, Setup, SetupGoes, TypeOK, Commands, Idle,
    Corrupted, Trees, Contents
<1>2. CASE SetupEnsuresBaseline
  BY <1>2 DEF SetupEnsuresBaseline, Setup, BaselineValid, SetupGoes,
    BaselineMissing, CreateBaseline, BaselineInvalid, QuarantineBaseline,
    BaselineBlocked, disk, TypeOK, Commands, Idle, Corrupted, Trees, Contents
<1>3. CASE SetupStops
  BY <1>3 DEF SetupStops, SetupGoes, SetupOnly, disk, TypeOK, Commands, Idle,
    Corrupted, Trees, Contents
<1>4. CASE SetupStartsCore
  BY <1>4 DEF SetupStartsCore, Setup, Locked, SetupGoes, TypeOK, Commands,
    Idle, Corrupted, Trees, Contents
<1>5. CASE SetupStopsCore
  BY <1>5 DEF SetupStopsCore, Setup, SetupGoes, TypeOK, Commands, Idle,
    Corrupted, Trees, Contents
<1>6. CASE SetupRecords
  BY <1>6 DEF SetupRecords, Setup, SetupGoes, TypeOK, Commands, Idle,
    Corrupted, Trees, Contents
<1>7. CASE SetupFinalizes
  BY <1>7 DEF SetupFinalizes, Setup, BaselineValid, SetupGoes,
    BaselineInvalid, QuarantineBaseline, disk, TypeOK, Commands, Idle,
    Corrupted, Trees, Contents
<1>8. CASE SetupRemovesBaseline
  BY <1>8 DEF SetupRemovesBaseline, Setup, SetupGoes, TypeOK, Commands, Idle,
    Corrupted, Trees, Contents
<1>9. CASE SetupCreatesBaseline
  BY <1>9 DEF SetupCreatesBaseline, Setup, CreateBaseline, SetupGoes, disk,
    TypeOK, Commands, Idle, Corrupted, Trees, Contents
<1> QED
  BY <1>1, <1>2, <1>3, <1>4, <1>5, <1>6, <1>7, <1>8, <1>9 DEF SetupStep

\* LauncherStep does not touch a root that has just been put in place.
LEMMA LandedLauncherStep == TypeOK /\ RootHeld /\ GapInv /\ Landed /\ LauncherStep => Landed'
<1> SUFFICES ASSUME TypeOK, RootHeld, GapInv, Landed, LauncherStep PROVE Landed'
  OBVIOUS
<1> USE DEF GapInv, RootHeld, Landed
<1>1. CASE LaunchLocks
  BY <1>1 DEF LaunchLocks, Launch, Locked, LaunchGoes, TypeOK, Commands, Idle,
    Corrupted, Trees, Contents
<1>2. CASE LaunchChecks
  BY <1>2 DEF LaunchChecks, Launch, Prepared, LaunchGoes, TypeOK, Commands,
    Idle, Corrupted, Trees, Contents
<1>3. CASE CoreServes
  BY <1>3 DEF CoreServes, Launch, MayServe, BaselineValid, BaselineMissing,
    LaunchGoes, TypeOK, Commands, Idle, Corrupted, Trees, Contents
<1>4. CASE CoreRefuses
  BY <1>4 DEF CoreRefuses, Launch, MayServe, BaselineBlocked, BaselineInvalid,
    LaunchGoes, TypeOK, Commands, Idle, Corrupted, Trees, Contents
<1>5. CASE CoreWrites
  BY <1>5 DEF CoreWrites, Launch, TypeOK, Commands, Idle, Corrupted, Trees,
    Contents
<1>6. CASE CoreStops
  BY <1>6 DEF CoreStops, Launch, LaunchGoes, TypeOK, Commands, Idle,
    Corrupted, Trees, Contents
<1> QED
  BY <1>1, <1>2, <1>3, <1>4, <1>5, <1>6 DEF LauncherStep

\* Fault does not touch a root that has just been put in place.
LEMMA LandedFault == TypeOK /\ RootHeld /\ GapInv /\ Landed /\ Fault => Landed'
<1> SUFFICES ASSUME TypeOK, RootHeld, GapInv, Landed, Fault PROVE Landed'
  OBVIOUS
<1> USE DEF GapInv, RootHeld, Landed
<1>1. CASE CommandDies
  BY <1>1 DEF CommandDies, Crashing, Refuse, disk, TypeOK, Commands, Idle,
    Corrupted, Trees, Contents
<1>2. CASE SetupDies
  <2>1. root'.data = root.data
    <3>1. [Pristine EXCEPT !.health = "CORRUPT"].data = Pristine.data
      BY DEF Pristine
    <3> QED BY <1>2, <3>1 DEF SetupDies
  <2> QED BY <1>2, <2>1 DEF SetupDies
<1>3. CASE CoreDies
  BY <1>3 DEF CoreDies, Launch, Crashing, LaunchGoes, TypeOK, Commands, Idle,
    Corrupted, Trees, Contents
<1>4. CASE Corruption
  <2>1. root'.data = root.data
    <3>1. HasRoot => Corrupted(root).data = root.data
      BY DEF TypeOK, Trees, Contents, Corrupted, HasRoot
    <3> QED BY <1>4, <3>1 DEF Corruption
  <2> QED BY <1>4, <2>1 DEF Corruption
<1>5. CASE Upgrade
  BY <1>5 DEF Upgrade, Setup, Launch, TypeOK, Commands, Idle, Corrupted,
    Trees, Contents
<1> QED
  BY <1>1, <1>2, <1>3, <1>4, <1>5 DEF Fault

\* What a step may do to the baseline of a completed setup.
BaselineStays ==
    BaselineValid /\ baseline.setup /\ ~Setup("remove") =>
       baseline' \in {baseline, Corrupted(baseline), Released(baseline)}

\* CommandStep leaves a completed baseline alone.
LEMMA StaysCommandStep == TypeOK /\ CommandStep => BaselineStays
<1> SUFFICES ASSUME TypeOK, CommandStep PROVE BaselineStays
  OBVIOUS
<1> USE DEF BaselineStays, BaselineValid, BaselineExists
<1>1. CASE BeginArchive
  BY <1>1 DEF BeginArchive, OperatorIdle, Begin, disk
<1>2. CASE BeginReset
  BY <1>2 DEF BeginReset, OperatorIdle, Begin, disk
<1>3. CASE BeginVerify
  BY <1>3 DEF BeginVerify, Begin, disk
<1>4. CASE BeginRestore
  BY <1>4 DEF BeginRestore, OperatorIdle, Begin, disk
<1>5. CASE RestoreRefusesArchive
  BY <1>5 DEF RestoreRefusesArchive, OperatorIdle
<1>6. CASE BeginRestoreBaseline
  BY <1>6 DEF BeginRestoreBaseline, OperatorIdle, Begin, disk
<1>7. CASE RestoreRefusesBaseline
  BY <1>7 DEF RestoreRefusesBaseline, OperatorIdle, BaselineInvalid,
    QuarantineBaseline
<1>8. CASE ResetFindsBaseline
  BY <1>8 DEF ResetFindsBaseline, At, disk
<1>9. CASE ResetCreatesBaseline
  BY <1>9 DEF ResetCreatesBaseline, At, BaselineMissing, CreateBaseline
<1>10. CASE ResetRefusesBaseline
  BY <1>10 DEF ResetRefusesBaseline, At, BaselineInvalid, QuarantineBaseline,
    Refuse, Goto
<1>11. CASE ResetHasNoBaseline
  BY <1>11 DEF ResetHasNoBaseline, At, BaselineBlocked, Refuse, Locked,
    QuarantineRoot, RootLeaves, disk
<1>28. CASE ResetDisplacesRoot
  BY <1>28 DEF ResetDisplacesRoot, At, Refuse, Locked,
    QuarantineRoot, RootLeaves, disk
<1>12. CASE VerifySound
  BY <1>12 DEF VerifySound, At, Refuse, Goto, disk
<1>13. CASE VerifyQuarantines
  BY <1>13 DEF VerifyQuarantines, At, QuarantineRoot, RootLeaves, Locked,
    Refuse, Goto
<1>14. CASE VerifyRefuses
  BY <1>14 DEF VerifyRefuses, At, Locked, Refuse, disk
<1>15. CASE WritePending
  BY <1>15 DEF WritePending, At, Goto
<1>16. CASE CurrentAbsentOrSound
  BY <1>16 DEF CurrentAbsentOrSound, At, Goto, disk
<1>17. CASE CurrentCorrupt
  BY <1>17 DEF CurrentCorrupt, At, QuarantineRoot, RootLeaves, Locked, Goto
<1>18. CASE CurrentRefuses
  BY <1>18 DEF CurrentRefuses, At, Locked, Refuse, disk
<1>19. CASE MoveToArchive
  BY <1>19 DEF MoveToArchive, At, RootLeaves, Locked
<1>20. CASE MoveFails
  BY <1>20 DEF MoveFails, At, Locked, Refuse, disk
<1>21. CASE WriteMovedManifest
  BY <1>21 DEF WriteMovedManifest, SealArchive, At, Sealing, Refuse, Goto
<1>22. CASE RewritePending
  BY <1>22 DEF RewritePending, At, Goto
<1>23. CASE CopySource
  BY <1>23 DEF CopySource, At, SourceStands, Goto, Refuse, disk
<1>24. CASE Swap
  BY <1>24 DEF Swap, At, Refuse, Goto
<1>25. CASE RemovePending
  BY <1>25 DEF RemovePending, At, Refuse
<1>26. CASE CopyToArchive
  BY <1>26 DEF CopyToArchive, At, Refuse
<1>27. CASE WriteCopiedManifest
  BY <1>27 DEF WriteCopiedManifest, SealArchive, At, Sealing, Refuse, Goto
<1> QED
  BY <1>1, <1>2, <1>3, <1>4, <1>5, <1>6, <1>7, <1>8, <1>9, <1>10, <1>11,
     <1>12, <1>13, <1>14, <1>15, <1>16, <1>17, <1>18, <1>19, <1>20, <1>21,
     <1>22, <1>23, <1>24, <1>25, <1>26, <1>27, <1>28 DEF CommandStep

\* SetupStep leaves a completed baseline alone.
LEMMA StaysSetupStep == TypeOK /\ SetupStep => BaselineStays
<1> SUFFICES ASSUME TypeOK, SetupStep PROVE BaselineStays
  OBVIOUS
<1> USE DEF BaselineStays, BaselineValid, BaselineExists
<1>1. CASE SetupInitializes
  BY <1>1 DEF SetupInitializes, Setup, SetupGoes
<1>2. CASE SetupEnsuresBaseline
  BY <1>2 DEF SetupEnsuresBaseline, Setup, SetupGoes, BaselineMissing,
    CreateBaseline, BaselineInvalid, QuarantineBaseline, BaselineBlocked, disk
<1>3. CASE SetupStops
  BY <1>3 DEF SetupStops, SetupGoes, SetupOnly, disk
<1>4. CASE SetupStartsCore
  BY <1>4 DEF SetupStartsCore, Setup, Locked, SetupGoes
<1>5. CASE SetupStopsCore
  BY <1>5 DEF SetupStopsCore, Setup, SetupGoes
<1>6. CASE SetupRecords
  BY <1>6 DEF SetupRecords, Setup, SetupGoes
<1>7. CASE SetupFinalizes
  BY <1>7 DEF SetupFinalizes, Setup, SetupGoes, BaselineInvalid,
    QuarantineBaseline, disk
<1>8. CASE SetupRemovesBaseline
  BY <1>8 DEF SetupRemovesBaseline, Setup, SetupGoes
<1>9. CASE SetupCreatesBaseline
  BY <1>9 DEF SetupCreatesBaseline, Setup, CreateBaseline, SetupGoes, disk
<1> QED
  BY <1>1, <1>2, <1>3, <1>4, <1>5, <1>6, <1>7, <1>8, <1>9 DEF SetupStep

\* LauncherStep leaves a completed baseline alone.
LEMMA StaysLauncherStep == TypeOK /\ LauncherStep => BaselineStays
<1> SUFFICES ASSUME TypeOK, LauncherStep PROVE BaselineStays
  OBVIOUS
<1> USE DEF BaselineStays, BaselineValid, BaselineExists
<1>1. CASE LaunchLocks
  BY <1>1 DEF LaunchLocks, Launch, Locked, LaunchGoes
<1>2. CASE LaunchChecks
  BY <1>2 DEF LaunchChecks, Launch, Prepared, LaunchGoes
<1>3. CASE CoreServes
  BY <1>3 DEF CoreServes, Launch, MayServe, BaselineMissing, LaunchGoes
<1>4. CASE CoreRefuses
  BY <1>4 DEF CoreRefuses, Launch, MayServe, BaselineBlocked, BaselineInvalid,
    LaunchGoes
<1>5. CASE CoreWrites
  BY <1>5 DEF CoreWrites, Launch
<1>6. CASE CoreStops
  BY <1>6 DEF CoreStops, Launch, LaunchGoes
<1> QED
  BY <1>1, <1>2, <1>3, <1>4, <1>5, <1>6 DEF LauncherStep

\* Fault leaves a completed baseline alone.
LEMMA StaysFault == TypeOK /\ Fault => BaselineStays
<1> SUFFICES ASSUME TypeOK, Fault PROVE BaselineStays
  OBVIOUS
<1> USE DEF BaselineStays, BaselineValid, BaselineExists
<1>1. CASE CommandDies
  BY <1>1 DEF CommandDies, Crashing, Refuse, disk
<1>2. CASE SetupDies
  BY <1>2 DEF SetupDies, Setup, Crashing, SetupGoes
<1>3. CASE CoreDies
  BY <1>3 DEF CoreDies, Launch, Crashing, LaunchGoes
<1>4. CASE Corruption
  BY <1>4 DEF Corruption
<1>5. CASE Upgrade
  BY <1>5 DEF Upgrade, Setup, Launch
<1> QED
  BY <1>1, <1>2, <1>3, <1>4, <1>5 DEF Fault

\* A process marker stands over a state root, and only a removal that may be cut
\* short tears the baseline.
LeadsInv ==
    /\ marker => HasRoot
    /\ ~TornRemoval => baseline # Torn

\* CommandStep leaves a marker only over a root, and tears no baseline.
LEMMA LeadsCommandStep == ConstantsAssumption /\ TypeOK /\ RootHeld /\ LeadsInv /\ CommandStep => LeadsInv'
<1> SUFFICES ASSUME ConstantsAssumption, TypeOK, RootHeld, LeadsInv, CommandStep PROVE LeadsInv'
  OBVIOUS
<1> USE DEF LeadsInv, HasRoot, NoState, Torn, Trees, Contents, Data, TypeOK
<1>1. CASE BeginArchive
  BY <1>1 DEF BeginArchive, OperatorIdle, Begin, disk, RootLeaves, Locked, BaselineExists
<1>2. CASE BeginReset
  BY <1>2 DEF BeginReset, OperatorIdle, Begin, disk, RootLeaves, Locked, BaselineExists
<1>3. CASE BeginVerify
  BY <1>3 DEF BeginVerify, Begin, disk, RootLeaves, Locked, BaselineExists
<1>4. CASE BeginRestore
  BY <1>4 DEF BeginRestore, OperatorIdle, Begin, disk, RootLeaves, Locked, BaselineExists
<1>5. CASE RestoreRefusesArchive
  BY <1>5 DEF RestoreRefusesArchive, OperatorIdle
<1>6. CASE BeginRestoreBaseline
  BY <1>6 DEF BeginRestoreBaseline, OperatorIdle, Begin, disk, RootLeaves, Locked, BaselineExists
<1>7. CASE RestoreRefusesBaseline
  BY <1>7 DEF RestoreRefusesBaseline, OperatorIdle, BaselineInvalid,
    QuarantineBaseline
<1>8. CASE ResetFindsBaseline
  BY <1>8 DEF ResetFindsBaseline, At, disk, RootLeaves, Locked, BaselineExists
<1>9. CASE ResetCreatesBaseline
  BY <1>9 DEF ResetCreatesBaseline, At, BaselineMissing, CreateBaseline
<1>10. CASE ResetRefusesBaseline
  BY <1>10 DEF ResetRefusesBaseline, At, BaselineInvalid, QuarantineBaseline,
    Refuse, Goto
<1>11. CASE ResetHasNoBaseline
  BY <1>11 DEF ResetHasNoBaseline, At, BaselineBlocked, Refuse, Locked,
    QuarantineRoot, RootLeaves, disk, RootLeaves, Locked, BaselineExists
<1>28. CASE ResetDisplacesRoot
  BY <1>28 DEF ResetDisplacesRoot, At, Refuse, Locked,
    QuarantineRoot, RootLeaves, disk, RootLeaves, Locked, BaselineExists
<1>12. CASE VerifySound
  BY <1>12 DEF VerifySound, At, Refuse, Goto, disk, RootLeaves, Locked, BaselineExists
<1>13. CASE VerifyQuarantines
  BY <1>13 DEF VerifyQuarantines, At, QuarantineRoot, RootLeaves, Locked,
    Refuse, Goto
<1>14. CASE VerifyRefuses
  BY <1>14 DEF VerifyRefuses, At, Locked, Refuse, disk, RootLeaves, Locked, BaselineExists
<1>15. CASE WritePending
  BY <1>15 DEF WritePending, At, Goto
<1>16. CASE CurrentAbsentOrSound
  BY <1>16 DEF CurrentAbsentOrSound, At, Goto, disk, RootLeaves, Locked, BaselineExists
<1>17. CASE CurrentCorrupt
  BY <1>17 DEF CurrentCorrupt, At, QuarantineRoot, RootLeaves, Locked, Goto
<1>18. CASE CurrentRefuses
  BY <1>18 DEF CurrentRefuses, At, Locked, Refuse, disk, RootLeaves, Locked, BaselineExists
<1>19. CASE MoveToArchive
  BY <1>19 DEF MoveToArchive, At, RootLeaves, Locked
<1>20. CASE MoveFails
  BY <1>20 DEF MoveFails, At, Locked, Refuse, disk, RootLeaves, Locked, BaselineExists
<1>21. CASE WriteMovedManifest
  BY <1>21 DEF WriteMovedManifest, SealArchive, At, Sealing, Refuse, Goto
<1>22. CASE RewritePending
  BY <1>22 DEF RewritePending, At, Goto
<1>23. CASE CopySource
  BY <1>23 DEF CopySource, At, SourceStands, Goto, Refuse, disk, RootLeaves, Locked, BaselineExists
<1>24. CASE Swap
  BY <1>24 DEF Swap, At, Refuse, Goto
<1>25. CASE RemovePending
  BY <1>25 DEF RemovePending, At, Refuse
<1>26. CASE CopyToArchive
  BY <1>26 DEF CopyToArchive, At, Refuse
<1>27. CASE WriteCopiedManifest
  BY <1>27 DEF WriteCopiedManifest, SealArchive, At, Sealing, Refuse, Goto
<1> QED
  BY <1>1, <1>2, <1>3, <1>4, <1>5, <1>6, <1>7, <1>8, <1>9, <1>10, <1>11,
     <1>12, <1>13, <1>14, <1>15, <1>16, <1>17, <1>18, <1>19, <1>20, <1>21,
     <1>22, <1>23, <1>24, <1>25, <1>26, <1>27, <1>28 DEF CommandStep

\* SetupStep leaves a marker only over a root, and tears no baseline.
LEMMA LeadsSetupStep == ConstantsAssumption /\ TypeOK /\ RootHeld /\ LeadsInv /\ SetupStep => LeadsInv'
<1> SUFFICES ASSUME ConstantsAssumption, TypeOK, RootHeld, LeadsInv, SetupStep PROVE LeadsInv'
  OBVIOUS
<1> USE DEF LeadsInv, HasRoot, NoState, Torn, Trees, Contents, Data, TypeOK
<1>1. CASE SetupInitializes
  BY <1>1 DEF SetupInitializes, Setup, SetupGoes
<1>2. CASE SetupEnsuresBaseline
  BY <1>2 DEF SetupEnsuresBaseline, Setup, SetupGoes, BaselineMissing,
    CreateBaseline, BaselineInvalid, QuarantineBaseline, BaselineBlocked, disk, RootLeaves, Locked, BaselineExists
<1>3. CASE SetupStops
  BY <1>3 DEF SetupStops, SetupGoes, SetupOnly, disk, RootLeaves, Locked, BaselineExists
<1>4. CASE SetupStartsCore
  BY <1>4 DEF SetupStartsCore, Setup, Locked, SetupGoes
<1>5. CASE SetupStopsCore
  BY <1>5 DEF SetupStopsCore, Setup, SetupGoes
<1>6. CASE SetupRecords
  BY <1>6 DEF SetupRecords, Setup, SetupGoes
<1>7. CASE SetupFinalizes
  BY <1>7 DEF SetupFinalizes, Setup, SetupGoes, BaselineInvalid,
    QuarantineBaseline, disk, RootLeaves, Locked, BaselineExists
<1>8. CASE SetupRemovesBaseline
  BY <1>8 DEF SetupRemovesBaseline, Setup, SetupGoes
<1>9. CASE SetupCreatesBaseline
  BY <1>9 DEF SetupCreatesBaseline, Setup, CreateBaseline, SetupGoes, disk, RootLeaves, Locked, BaselineExists
<1> QED
  BY <1>1, <1>2, <1>3, <1>4, <1>5, <1>6, <1>7, <1>8, <1>9 DEF SetupStep

\* LauncherStep leaves a marker only over a root, and tears no baseline.
LEMMA LeadsLauncherStep == ConstantsAssumption /\ TypeOK /\ RootHeld /\ LeadsInv /\ LauncherStep => LeadsInv'
<1> SUFFICES ASSUME ConstantsAssumption, TypeOK, RootHeld, LeadsInv, LauncherStep PROVE LeadsInv'
  OBVIOUS
<1> USE DEF LeadsInv, HasRoot, NoState, Torn, Trees, Contents, Data, TypeOK
<1>1. CASE LaunchLocks
  BY <1>1 DEF LaunchLocks, Launch, Locked, LaunchGoes
<1>2. CASE LaunchChecks
  BY <1>2 DEF LaunchChecks, Launch, Prepared, LaunchGoes
<1>3. CASE CoreServes
  BY <1>3 DEF CoreServes, Launch, MayServe, BaselineMissing, LaunchGoes
<1>4. CASE CoreRefuses
  BY <1>4 DEF CoreRefuses, Launch, MayServe, BaselineBlocked, BaselineInvalid,
    LaunchGoes
<1>5. CASE CoreWrites
  BY <1>5 DEF CoreWrites, Launch
<1>6. CASE CoreStops
  BY <1>6 DEF CoreStops, Launch, LaunchGoes
<1> QED
  BY <1>1, <1>2, <1>3, <1>4, <1>5, <1>6 DEF LauncherStep

\* Fault leaves a marker only over a root, and tears no baseline.
LEMMA LeadsFault == ConstantsAssumption /\ TypeOK /\ RootHeld /\ LeadsInv /\ Fault => LeadsInv'
<1> SUFFICES ASSUME ConstantsAssumption, TypeOK, RootHeld, LeadsInv, Fault PROVE LeadsInv'
  OBVIOUS
<1>1. CASE CommandDies
  BY <1>1 DEF CommandDies, Crashing, Refuse, disk, RootLeaves, Locked, BaselineExists,
    LeadsInv, HasRoot, TypeOK
<1>2. CASE SetupDies
  BY <1>2 DEF SetupDies, Setup, Crashing, SetupGoes, LeadsInv, HasRoot, NoState, Pristine
<1>3. CASE CoreDies
  <2>1. /\ root' = root /\ baseline' = baseline
        /\ marker' = marker \/ marker' = FALSE
    BY <1>3 DEF CoreDies
  <2> QED BY <2>1 DEF LeadsInv, HasRoot
<1>4. \A t \in Contents : t # NoState /\ t # Torn
  BY DEF Contents, Data, NoState, Torn
<1>5. CASE Corruption
  <2>1. /\ marker' = marker
        /\ HasRoot => root' = root \/ root' = Corrupted(root)
        /\ baseline' = baseline \/ (BaselineExists /\ baseline' = Corrupted(baseline))
        /\ ~HasRoot => root' = root
    BY <1>5 DEF Corruption
  <2>2. /\ HasRoot => Corrupted(root) \in Contents
        /\ BaselineExists => Corrupted(baseline) \in Contents
    BY Standing, ContentFacts
  <2> QED BY <1>4, <2>1, <2>2 DEF LeadsInv, HasRoot
<1>6. CASE Upgrade
  <2>1. /\ marker' = marker
        /\ root' = Released(root) /\ baseline' = Released(baseline)
    BY <1>6 DEF Upgrade
  <2>2. HasRoot => Released(root) \in Contents
    BY Standing, ContentFacts
  <2>3. BaselineExists => Released(baseline) \in Contents
    BY Standing, ContentFacts
  <2>4. baseline = NoState => Released(baseline) # Torn
    BY NamedTrees DEF NoState, Torn
  <2> QED BY <1>4, <2>1, <2>2, <2>3, <2>4 DEF LeadsInv, HasRoot, BaselineExists
<1> QED
  BY <1>1, <1>2, <1>3, <1>5, <1>6 DEF Fault

----------------------------------------------------------------------------
IInv ==
    /\ TypeOK /\ BytesArePreserved /\ GapInv /\ RootHeld /\ MovedInv /\ Landed
    /\ LeadsInv

\* The initial state satisfies the inductive invariant.
LEMMA InitInv == ConstantsAssumption /\ Init => IInv
<1> SUFFICES ASSUME ConstantsAssumption, Init PROVE IInv
  OBVIOUS
<1>1. TypeOK
  <2>1. spent \in [written : Data, crashes : Nat, corruptions : Nat, upgrades : Nat]
    BY DEF Init, ConstantsAssumption, Data
  <2>2. root \in Trees /\ baseline \in Trees \cup {Torn} /\ op \in Commands
    BY NamedTrees DEF Init
  <2> QED BY <2>1, <2>2 DEF Init, TypeOK, SetupPlaces
<1>2. BytesArePreserved /\ GapInv /\ RootHeld /\ MovedInv /\ Landed
  BY DEF Init, BytesArePreserved, Kept, GapInv, NeverServesOverGap, RootHeld,
    MovedInv, Landed, Idle
<1>3. LeadsInv
  BY DEF Init, LeadsInv, NoState, Torn
<1> QED BY <1>1, <1>2, <1>3 DEF IInv

\* Every step preserves it.
LEMMA NextInv == ConstantsAssumption /\ IInv /\ [Next]_vars => IInv'
<1> SUFFICES ASSUME ConstantsAssumption, IInv, [Next]_vars PROVE IInv'
  OBVIOUS
<1> USE DEF IInv
<1>1. CASE CommandStep
  BY <1>1, TypeCommandStep, KeptCommandStep, GapCommandStep, HeldCommandStep,
     MovedCommandStep, LandedCommandStep, LeadsCommandStep
<1>2. CASE SetupStep
  BY <1>2, TypeSetupStep, KeptSetupStep, GapSetupStep, HeldSetupStep,
     MovedSetupStep, LandedSetupStep, LeadsSetupStep
<1>3. CASE LauncherStep
  BY <1>3, TypeLauncherStep, KeptLauncherStep, GapLauncherStep, HeldLauncherStep,
     MovedLauncherStep, LandedLauncherStep, LeadsLauncherStep
<1>4. CASE Fault
  BY <1>4, TypeFault, KeptFault, GapFault, HeldFault, MovedFault, LandedFault,
     LeadsFault
<1>5. CASE UNCHANGED vars
  BY <1>5 DEF vars, TypeOK, BytesArePreserved, Kept, GapInv, NeverServesOverGap,
    RootHeld, HasRoot, MovedInv, MovedIsSealed, Landed, Launch, BaselineExists,
    LeadsInv
<1> QED BY <1>1, <1>2, <1>3, <1>4, <1>5 DEF Next

\* The strengthening of the properties below holds in every reachable state.
THEOREM InductiveInvariant == Spec => []IInv
<1>1. Init => IInv
  BY InitInv, ConstantsAssumption
<1>2. IInv /\ [Next]_vars => IInv'
  BY NextInv, ConstantsAssumption
<1> QED BY <1>1, <1>2, PTL DEF Spec

\* Every reachable state has the declared types.
THEOREM TypeCorrect == Spec => []TypeOK
BY InductiveInvariant, PTL DEF IInv

\* Every version that a command moved out of the state root stays on the disk.
THEOREM BytesPreserved == Spec => []BytesArePreserved
BY InductiveInvariant, PTL DEF IInv

\* No Core serves between the archiving of a root and its replacement.
THEOREM GapNeverServed == Spec => []NeverServesOverGap
BY InductiveInvariant, PTL DEF IInv, GapInv

\* A receipt is written over the chosen source, with the old root sealed away.
THEOREM ReceiptFaithful == Spec => []ReceiptIsFaithful
<1>1. IInv => ReceiptIsFaithful
  BY DEF IInv, ReceiptIsFaithful, Landed, MovedInv, MovedIsSealed, At
<1> QED BY <1>1, InductiveInvariant, PTL

\* The baseline of a completed setup is never replaced by a step.
THEOREM CompletedBaselineStays == Spec => SetupBaselineStays
<1>1. TypeOK /\ [Next]_vars => [BaselineStays]_vars
  BY StaysCommandStep, StaysSetupStep, StaysLauncherStep, StaysFault DEF Next
<1> QED BY <1>1, TypeCorrect, PTL DEF Spec, SetupBaselineStays, BaselineStays

\* When nothing runs, start, setup, restore or verify leads on from every state
\* but the dead ends, unless a removal of the baseline was cut short.
THEOREM SomethingLeads == ~TornRemoval => (Spec => []SomethingLeadsOn)
<1>1. ASSUME ~TornRemoval, IInv PROVE SomethingLeadsOn
  <2>1. SUFFICES ASSUME ~CanSetUp, ~CanClearMarker, ~DeadEnd
                 PROVE  CanRestore \/ CanVerify
    BY DEF SomethingLeadsOn
  <2>2. baseline # Torn /\ (marker => HasRoot)
    BY <1>1 DEF IInv, LeadsInv
  <2>3. root = NoState \/ root.health \in Healths
    BY <1>1 DEF IInv, TypeOK, Trees, Contents
  <2>4. CASE pending
    BY <2>1, <2>2, <2>4 DEF CanClearMarker, DeadEnd, CanRestore, OperatorIdle
  <2>5. CASE ~pending
    BY <2>1, <2>2, <2>3, <2>5 DEF CanSetUp, CanVerify, DeadEnd, HasRoot, Healths
  <2> QED BY <2>4, <2>5
<1>2. ~TornRemoval => (IInv => SomethingLeadsOn)
  BY <1>1
<1>3. CASE TornRemoval
  BY <1>3
<1>4. CASE ~TornRemoval
  <2>1. IInv => SomethingLeadsOn
    BY <1>2, <1>4
  <2>2. Spec => []SomethingLeadsOn
    BY <2>1, InductiveInvariant, PTL
  <2> QED BY <2>2
<1> QED BY <1>3, <1>4

=============================================================================
