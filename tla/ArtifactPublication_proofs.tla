---------------------- MODULE ArtifactPublication_proofs ----------------------
(***************************************************************************)
(* Proofs about ArtifactPublication: what retention and quarantine may     *)
(* never do, for any number of runs, objects, periods, damages and         *)
(* retention commands.                                                     *)
(*                                                                         *)
(* Two facts about time carry the argument.  A retention command works     *)
(* with a cutoff before the current period, so it never touches what a     *)
(* publisher has just moved.  And an item is never older than the seal of  *)
(* its run: when retention may delete the item, its earlier sweep has      *)
(* already deleted the run directory, or the run is pinned and its items   *)
(* stay.                                                                    *)
(***************************************************************************)
EXTENDS ArtifactPublication, TLAPS

(* A publisher past its last move; past its moves; with objects it may take  *)
(* back.                                                                      *)
Over == {"sealed", "published", "verified", "refused", "dead"}
Settled == Over \union {"shelving", "closing", "failed"}
Holding == {"moving", "failing", "shelving"}

(* Where the publisher of a run may be, by what stands of the run: one       *)
(* publisher works at a time, a sealed run is past its last move, and so are *)
(* the runs that rows, registry, attestation and failed readers name.        *)
PubInv ==
  /\ \A q, r \in Runs : pub[q] \in Working /\ pub[r] \in Working => q = r
  /\ \A r \in Runs : rundir[r] # "none" => pub[r] \notin {"idle", "leased", "staged", "checked"}
  /\ \A r \in Runs : rundir[r] = "sealed" => pub[r] \in Over
  /\ \A r \in Runs : done[r] <= now
  /\ \A r \in recorded \union ({registry, attested} \ {NoRun}) : pub[r] \in Over
  /\ \A r \in Runs : reader[r] # "idle" => pub[r] \in Over \union {"failed"}

(* A quarantine item is younger than the seal of its run, for good.          *)
ItemInv ==
  \A i \in items : pub[i.run] \in Settled /\ done[i.run] <= i.at /\ i.at <= now

(* What a publisher has moved stays in the store, too young for retention,   *)
(* until it is taken back, and then it is in the quarantine item.            *)
MaterialInv ==
  \A q \in Runs :
    /\ pub[q] \in {"idle", "leased", "staged", "checked"} => moved[q] = {}
    /\ pub[q] \in {"moving", "failing"} =>
          \A o \in moved[q] : store[o] # "absent" /\ born[o] = now
    /\ pub[q] = "shelving" =>
          /\ left[q] \subseteq moved[q]
          /\ \A o \in left[q] : store[o] # "absent" /\ born[o] = now
          /\ \A i \in Of("staging", q) : moved[q] \ left[q] \subseteq i.holds

(* The runs that rows, the registry and reproductions name.                  *)
Named ==
  (recorded \union {registry} \union {Reproduces[r] : r \in {x \in Runs : pub[x] # "idle"}})
     \ {NoRun}

(* A retention command pins the evidence and, after its first sweep, leaves  *)
(* no run behind that is old enough to go.                                    *)
CleanInv ==
  /\ evidence \subseteq Named
  /\ cleaner.pc # "idle" =>
        /\ cleaner.cutoff < now
        /\ evidence \subseteq cleaner.runs
  /\ cleaner.pc \in {"runs", "objects", "items"} =>
        /\ \A r \in evidence : rundir[r] = "sealed" => Content[r] \subseteq cleaner.objects
        /\ \A r \in Runs \ cleaner.runs :
              rundir[r] = "sealed" /\ done[r] <= cleaner.cutoff =>
                 cleaner.pc = "runs" /\ r \in cleaner.todoRuns

(* Evidence is whole, of objects that no publisher may take back, or in      *)
(* quarantine.                                                                *)
EvidenceInv ==
  \A r \in evidence :
    /\ pub[r] \in Over
    /\ IF rundir[r] = "sealed"
       THEN \A o \in Content[r] : store[o] # "absent" /\ o \notin Provisional
       ELSE Of("run", r) # {}

IInv ==
  /\ TypeOK
  /\ PubInv /\ ItemInv /\ MaterialInv /\ CleanInv /\ EvidenceInv
  /\ FailureKeepsMaterial

-----------------------------------------------------------------------------
(* Types.                                                                    *)

(* Sealing an item with its manifest, or giving it an object, keeps the rest *)
(* of it.                                                                     *)
LEMMA ItemEdits ==
  /\ \A i \in Item :
        LET j == [i EXCEPT !.manifest = TRUE] IN
        /\ j \in Item /\ j.kind = i.kind /\ j.run = i.run /\ j.at = i.at
        /\ j.manifest = TRUE /\ j.holds = i.holds
  /\ \A i \in Item, o \in Objects :
        LET j == [i EXCEPT !.holds = @ \union {o}] IN
        /\ j \in Item /\ j.kind = i.kind /\ j.run = i.run /\ j.at = i.at
        /\ j.manifest = i.manifest /\ j.holds = i.holds \union {o}
<1>1. ASSUME NEW i \in Item
      PROVE  LET j == [i EXCEPT !.manifest = TRUE] IN
             /\ j \in Item /\ j.kind = i.kind /\ j.run = i.run /\ j.at = i.at
             /\ j.manifest = TRUE /\ j.holds = i.holds
  BY DEF Item
<1>2. ASSUME NEW i \in Item, NEW H \in SUBSET Objects
      PROVE  LET j == [i EXCEPT !.holds = H] IN
             /\ j \in Item /\ j.kind = i.kind /\ j.run = i.run /\ j.at = i.at
             /\ j.manifest = i.manifest /\ j.holds = H
  BY DEF Item
<1>3. ASSUME NEW i \in Item, NEW o \in Objects
      PROVE  i.holds \union {o} \in SUBSET Objects
  BY DEF Item
<1> QED BY <1>1, <1>2, <1>3

(* A new item is typed, and has the fields it is given.                       *)
LEMMA NewItems ==
  ASSUME TypeOK, NEW k \in Kinds, NEW r \in Runs, NEW m \in BOOLEAN
  PROVE  LET i == NewItem(k, r, m) IN
         /\ i \in Item /\ i.kind = k /\ i.run = r /\ i.at = now /\ i.manifest = m
         /\ i.holds = {}
BY DEF NewItem, Item, TypeOK

(* The initial state satisfies the invariant.                                *)
LEMMA InitInv == Init => IInv
<1> SUFFICES ASSUME Init PROVE IInv
  OBVIOUS
<1>1. TypeOK
  <2>1. NoCleanup \in [pc : {"idle", "reading", "runs", "objects", "items"},
                   cutoff : 0 .. MaxNow, runs : SUBSET Runs, objects : SUBSET Objects,
                   todoRuns : SUBSET Runs, todoObjects : SUBSET Objects,
                   todoItems : SUBSET (Kinds \X Runs), count : Nat]
    BY BoundAssumption DEF NoCleanup
  <2> QED BY <2>1, BoundAssumption DEF Init, TypeOK, PubStates, Working
<1>2. PubInv
  BY <1>1 DEF Init, PubInv, Working, TypeOK
<1>3. ItemInv /\ FailureKeepsMaterial /\ EvidenceInv
  BY DEF Init, ItemInv, FailureKeepsMaterial, EvidenceInv
<1>4. MaterialInv
  BY DEF Init, MaterialInv
<1>5. CleanInv
  BY DEF Init, CleanInv, NoCleanup
<1> QED BY <1>1, <1>2, <1>3, <1>4, <1>5 DEF IInv

(* Every step keeps the types.                                               *)
LEMMA NextTyped ==
    ASSUME TypeOK, [Next]_vars
    PROVE  TypeOK'
<1>1. ASSUME UNCHANGED <<now, pub, left, moved, stage, lease, rundir, done, store, born,
                         items, reader, recorded, registry, attested, cleaner, evidence>>
      PROVE  TypeOK'
  BY <1>1 DEF TypeOK, PubStates, Working
<1>2. ASSUME NEW r \in Runs, Start(r) PROVE TypeOK'
  BY <1>2, ContentAssumption, ReproducesAssumption, BoundAssumption DEF
     Start, PubStep, pubVars, bundleVars, coreVars, TypeOK, PubStates,
     Working
<1>3. ASSUME NEW r \in Runs, StartRefused(r) PROVE TypeOK'
  BY <1>3, ContentAssumption, ReproducesAssumption, BoundAssumption DEF
     StartRefused, PubStep, pubVars, bundleVars, coreVars, TypeOK, PubStates,
     Working
<1>4. ASSUME NEW r \in Runs, Stage(r) PROVE TypeOK'
  BY <1>4, ContentAssumption, ReproducesAssumption, BoundAssumption DEF
     Stage, PubStep, pubVars, bundleVars, coreVars, TypeOK, PubStates,
     Working
<1>5. ASSUME NEW r \in Runs, CheckObjects(r) PROVE TypeOK'
  BY <1>5, ContentAssumption, ReproducesAssumption, BoundAssumption DEF
     CheckObjects, PubStep, pubVars, bundleVars, coreVars, TypeOK, PubStates,
     Working
<1>6. ASSUME NEW r \in Runs, MakeRunDirectory(r) PROVE TypeOK'
  BY <1>6, ContentAssumption, ReproducesAssumption, BoundAssumption DEF
     MakeRunDirectory, PubStep, pubVars, bundleVars, coreVars, TypeOK,
     PubStates, Working
<1>7. ASSUME NEW r \in Runs, Seal(r) PROVE TypeOK'
  BY <1>7, ContentAssumption, ReproducesAssumption, BoundAssumption DEF Seal,
     PubStep, pubVars, bundleVars, coreVars, TypeOK, PubStates, Working
<1>8. ASSUME NEW r \in Runs, Release(r) PROVE TypeOK'
  BY <1>8, ContentAssumption, ReproducesAssumption, BoundAssumption DEF
     Release, PubStep, pubVars, bundleVars, coreVars, TypeOK, PubStates,
     Working
<1>9. ASSUME NEW r \in Runs, VerifyPublished(r) PROVE TypeOK'
  BY <1>9, ContentAssumption, ReproducesAssumption, BoundAssumption DEF
     VerifyPublished, PubStep, pubVars, bundleVars, coreVars, TypeOK,
     PubStates, Working
<1>10. ASSUME NEW r \in Runs, VerifyPublishedFails(r) PROVE TypeOK'
  BY <1>10, ContentAssumption, ReproducesAssumption, BoundAssumption DEF
     VerifyPublishedFails, PubStep, pubVars, bundleVars, coreVars, TypeOK,
     PubStates, Working
<1>11. ASSUME NEW r \in Runs, PublicationFails(r) PROVE TypeOK'
  BY <1>11, ContentAssumption, ReproducesAssumption, BoundAssumption DEF
     PublicationFails, PubStep, pubVars, bundleVars, coreVars, TypeOK,
     PubStates, Working
<1>12. ASSUME NEW r \in Runs, ShelveStage(r) PROVE TypeOK'
  <2>1. NewItem("staging", r, FALSE) \in Item
    BY NewItems DEF Kinds
  <2> QED BY <1>12, <2>1 DEF ShelveStage, PubStep, pubVars, bundleVars, coreVars, TypeOK, PubStates,
                            Working
<1>13. ASSUME NEW r \in Runs, ShelveManifest(r) PROVE TypeOK'
  <2>1. items' \subseteq Item
    BY <1>13, ItemEdits DEF ShelveManifest, TypeOK
  <2> QED BY <1>13, <2>1 DEF ShelveManifest, PubStep, pubVars, bundleVars, coreVars, TypeOK,
                            PubStates, Working
<1>14. ASSUME NEW r \in Runs, ShelvingFails(r) PROVE TypeOK'
  BY <1>14, ContentAssumption, ReproducesAssumption, BoundAssumption DEF
     ShelvingFails, PubStep, pubVars, bundleVars, coreVars, TypeOK,
     PubStates, Working
<1>15. ASSUME NEW r \in Runs, ClosePublication(r) PROVE TypeOK'
  <2>1. NewItem("run", r, TRUE) \in Item
    BY NewItems DEF Kinds
  <2> QED BY <1>15, <2>1 DEF ClosePublication, PubStep, pubVars, bundleVars, coreVars, TypeOK, PubStates,
                            Working
<1>16. ASSUME NEW r \in Runs, Kill(r) PROVE TypeOK'
  BY <1>16, ContentAssumption, ReproducesAssumption, BoundAssumption DEF
     Kill, PubStep, pubVars, bundleVars, coreVars, TypeOK, PubStates, Working
<1>17. ASSUME NEW r \in Runs, NEW o \in Objects, MoveObject(r, o) PROVE TypeOK'
  BY <1>17, ContentAssumption, ReproducesAssumption, BoundAssumption DEF
     MoveObject, PubStep, pubVars, bundleVars, coreVars, TypeOK, PubStates,
     Working
<1>18. ASSUME NEW r \in Runs, NEW o \in Objects, ShelveObject(r, o) PROVE TypeOK'
  <2>1. items' \subseteq Item
    BY <1>18, ItemEdits DEF ShelveObject, TypeOK
  <2> QED BY <1>18, <2>1 DEF ShelveObject, PubStep, pubVars, bundleVars, coreVars, TypeOK,
                            PubStates, Working
<1>19. ASSUME NEW r \in Runs, Record(r) PROVE TypeOK'
  BY <1>19, ContentAssumption, ReproducesAssumption, BoundAssumption DEF
     Record, PubStep, pubVars, bundleVars, coreVars, TypeOK, PubStates,
     Working
<1>20. ASSUME NEW r \in Runs, WithdrawOperation(r) PROVE TypeOK'
  <2>1. NewItem("operation", r, TRUE) \in Item
    BY NewItems DEF Kinds
  <2> QED BY <1>20, <2>1 DEF WithdrawOperation, PubStep, pubVars, bundleVars, coreVars, TypeOK, PubStates,
                            Working
<1>21. ASSUME NEW r \in Runs, ReadFails(r) PROVE TypeOK'
  BY <1>21, ContentAssumption, ReproducesAssumption, BoundAssumption DEF
     ReadFails, PubStep, pubVars, bundleVars, coreVars, TypeOK, PubStates,
     Working
<1>22. ASSUME NEW r \in Runs, QuarantineRun(r) PROVE TypeOK'
  <2>1. NewItem("run", r, FALSE) \in Item
    BY NewItems DEF Kinds
  <2>2. items' \subseteq Item
    <3>1. items' = items \/ items' = items \union {NewItem("run", r, FALSE)}
      BY <1>22 DEF QuarantineRun
    <3> QED BY <2>1, <3>1 DEF TypeOK
  <2>3. /\ reader' \in [Runs -> {"idle", "failed", "moved"}]
        /\ rundir' \in [Runs -> {"none", "empty", "sealed"}]
    BY <1>22 DEF QuarantineRun, TypeOK
  <2> QED BY <1>22, <2>2, <2>3 DEF QuarantineRun, pubVars, TypeOK
<1>23. ASSUME NEW r \in Runs, QuarantineRunManifest(r) PROVE TypeOK'
  <2>1. items' \subseteq Item
    BY <1>23, ItemEdits DEF QuarantineRunManifest, TypeOK
  <2> QED BY <1>23, <2>1 DEF QuarantineRunManifest, PubStep, pubVars, bundleVars, coreVars, TypeOK,
                            PubStates, Working
<1>24. ASSUME NEW r \in Runs, Attest(r) PROVE TypeOK'
  BY <1>24, ContentAssumption, ReproducesAssumption, BoundAssumption DEF
     Attest, PubStep, pubVars, bundleVars, coreVars, TypeOK, PubStates,
     Working
<1>25. ASSUME Register PROVE TypeOK'
  BY <1>25, ContentAssumption, ReproducesAssumption, BoundAssumption DEF
     Register, PubStep, pubVars, bundleVars, coreVars, TypeOK, PubStates,
     Working
<1>26. ASSUME BeginCleanup PROVE TypeOK'
  <2>1. Tokens \subseteq Runs
    BY ReproducesAssumption DEF Tokens, TypeOK
  <2>2. PICK cutoff \in 1 .. now - 1 :
           cleaner' = [cleaner EXCEPT !.pc = "reading", !.cutoff = cutoff,
                                      !.runs = Tokens]
    BY <1>26 DEF BeginCleanup
  <2>3. cutoff \in 0 .. MaxNow
    BY BoundAssumption DEF TypeOK
  <2>4. cleaner' \in [pc : {"idle", "reading", "runs", "objects", "items"},
                   cutoff : 0 .. MaxNow, runs : SUBSET Runs, objects : SUBSET Objects,
                   todoRuns : SUBSET Runs, todoObjects : SUBSET Objects,
                   todoItems : SUBSET (Kinds \X Runs), count : Nat]
    <3> HIDE DEF Tokens
    <3> QED BY <2>1, <2>2, <2>3 DEF TypeOK
  <2>5. evidence' \subseteq Runs
    BY <1>26 DEF BeginCleanup, TypeOK
  <2> QED BY <1>26, <2>4, <2>5 DEF BeginCleanup, TypeOK, pubVars, bundleVars, coreVars
<1>27. ASSUME ReadManifests PROVE TypeOK'
  <2>1. PinnedRuns(cleaner.runs) \subseteq Runs
    BY DEF PinnedRuns
  <2>2. PinnedObjects(PinnedRuns(cleaner.runs)) \subseteq Objects
    BY <2>1, ContentAssumption DEF PinnedObjects
  <2> HIDE DEF PinnedRuns, PinnedObjects
  <2> QED BY <1>27, <2>1, <2>2 DEF ReadManifests, TypeOK, pubVars, bundleVars, coreVars
<1>28. ASSUME ListObjects PROVE TypeOK'
  BY <1>28, ContentAssumption, ReproducesAssumption, BoundAssumption DEF
     ListObjects, PubStep, pubVars, bundleVars, coreVars, TypeOK, PubStates,
     Working
<1>29. ASSUME ListItems PROVE TypeOK'
  <2>1. {<<i.kind, i.run>> : i \in items} \subseteq Kinds \X Runs
    BY DEF TypeOK, Item
  <2> QED BY <1>29, <2>1 DEF ListItems, TypeOK, pubVars, bundleVars, coreVars
<1>30. ASSUME CleanupSucceeds PROVE TypeOK'
  <2>1. Done(cleaner) \in [pc : {"idle", "reading", "runs", "objects", "items"},
                   cutoff : 0 .. MaxNow, runs : SUBSET Runs, objects : SUBSET Objects,
                   todoRuns : SUBSET Runs, todoObjects : SUBSET Objects,
                   todoItems : SUBSET (Kinds \X Runs), count : Nat]
    BY BoundAssumption DEF Done, NoCleanup, TypeOK
  <2> QED BY <1>30, <2>1 DEF CleanupSucceeds, TypeOK, pubVars, bundleVars, coreVars
<1>31. ASSUME CleanupStops PROVE TypeOK'
  <2>1. Done(cleaner) \in [pc : {"idle", "reading", "runs", "objects", "items"},
                   cutoff : 0 .. MaxNow, runs : SUBSET Runs, objects : SUBSET Objects,
                   todoRuns : SUBSET Runs, todoObjects : SUBSET Objects,
                   todoItems : SUBSET (Kinds \X Runs), count : Nat]
    BY BoundAssumption DEF Done, NoCleanup, TypeOK
  <2> QED BY <1>31, <2>1 DEF CleanupStops, TypeOK, pubVars, bundleVars, coreVars
<1>32. ASSUME NEW r \in Runs, SweepRun(r) PROVE TypeOK'
  BY <1>32, ContentAssumption, ReproducesAssumption, BoundAssumption DEF
     SweepRun, PubStep, pubVars, bundleVars, coreVars, TypeOK, PubStates,
     Working
<1>33. ASSUME NEW o \in Objects, SweepObject(o) PROVE TypeOK'
  BY <1>33, ContentAssumption, ReproducesAssumption, BoundAssumption DEF
     SweepObject, PubStep, pubVars, bundleVars, coreVars, TypeOK, PubStates,
     Working
<1>34. ASSUME NEW r \in Runs, NEW k \in Kinds, SweepItem(k, r) PROVE TypeOK'
  BY <1>34, ContentAssumption, ReproducesAssumption, BoundAssumption DEF
     SweepItem, PubStep, pubVars, bundleVars, coreVars, TypeOK, PubStates,
     Working
<1>35. ASSUME NEW o \in Objects, Damage(o) PROVE TypeOK'
  BY <1>35, ContentAssumption, ReproducesAssumption, BoundAssumption DEF
     Damage, PubStep, pubVars, bundleVars, coreVars, TypeOK, PubStates,
     Working
<1>36. ASSUME Tick PROVE TypeOK'
  BY <1>36, ContentAssumption, ReproducesAssumption, BoundAssumption DEF
     Tick, PubStep, pubVars, bundleVars, coreVars, TypeOK, PubStates, Working
<1>37. CASE UNCHANGED vars
  BY <1>1, <1>37 DEF vars, pubVars, bundleVars, coreVars
<1> QED BY <1>2, <1>3, <1>4, <1>5, <1>6, <1>7, <1>8, <1>9, <1>10, <1>11,
       <1>12, <1>13, <1>14, <1>15, <1>16, <1>17, <1>18, <1>19, <1>20, <1>21,
       <1>22, <1>23, <1>24, <1>25, <1>26, <1>27, <1>28, <1>29, <1>30, <1>31,
       <1>32, <1>33, <1>34, <1>35, <1>36, <1>37 DEF Next, Publish, Read,
       Cleanup

-----------------------------------------------------------------------------
(* Publishers.                                                                *)

(* Every step keeps the places of the publishers.                             *)
LEMMA NextPub ==
    ASSUME TypeOK, PubInv, [Next]_vars
    PROVE  PubInv'
<1>1. ASSUME UNCHANGED <<now, pub, rundir, done, reader, recorded, registry, attested>> PROVE PubInv'
  BY <1>1 DEF PubInv, Working
<1>2. ASSUME NEW r \in Runs,
             WithdrawOperation(r)
      PROVE  PubInv'
  BY <1>1, <1>2 DEF WithdrawOperation, pubVars, bundleVars, coreVars
<1>3. ASSUME NEW r \in Runs, NEW o \in Objects,
             MoveObject(r, o)
      PROVE  PubInv'
  BY <1>1, <1>3 DEF MoveObject, pubVars, bundleVars, coreVars
<1>4. ASSUME NEW r \in Runs, NEW o \in Objects,
             ShelveObject(r, o)
      PROVE  PubInv'
  BY <1>1, <1>4 DEF ShelveObject, pubVars, bundleVars, coreVars
<1>5. ASSUME NEW r \in Runs, NEW k \in Kinds,
             SweepItem(k, r)
      PROVE  PubInv'
  BY <1>1, <1>5 DEF SweepItem, pubVars, bundleVars, coreVars
<1>6. ASSUME NEW o \in Objects,
             SweepObject(o) \/ Damage(o)
      PROVE  PubInv'
  BY <1>1, <1>6 DEF SweepObject, Damage, pubVars, bundleVars, coreVars
<1>7. ASSUME BeginCleanup \/ ReadManifests \/ ListObjects \/ ListItems
             \/ CleanupSucceeds \/ CleanupStops
      PROVE  PubInv'
  BY <1>1, <1>7 DEF BeginCleanup, ReadManifests, ListObjects, ListItems,
     CleanupSucceeds, CleanupStops, pubVars, bundleVars, coreVars
<1>8. ASSUME NEW r \in Runs, Start(r) PROVE PubInv'
  BY <1>8, ReproducesAssumption, BoundAssumption DEF Start, PubStep, pubVars,
     bundleVars, coreVars, PubInv, TypeOK, Working, Over, Busy, Serves,
     Whole, Target, PubStates
<1>9. ASSUME NEW r \in Runs, StartRefused(r) PROVE PubInv'
  BY <1>9, ReproducesAssumption, BoundAssumption DEF StartRefused, PubStep,
     pubVars, bundleVars, coreVars, PubInv, TypeOK, Working, Over, Busy,
     Serves, Whole, Target, PubStates
<1>10. ASSUME NEW r \in Runs, Stage(r) PROVE PubInv'
  BY <1>10, ReproducesAssumption, BoundAssumption DEF Stage, PubStep,
     pubVars, bundleVars, coreVars, PubInv, TypeOK, Working, Over, Busy,
     Serves, Whole, Target, PubStates
<1>11. ASSUME NEW r \in Runs, CheckObjects(r) PROVE PubInv'
  BY <1>11, ReproducesAssumption, BoundAssumption DEF CheckObjects, PubStep,
     pubVars, bundleVars, coreVars, PubInv, TypeOK, Working, Over, Busy,
     Serves, Whole, Target, PubStates
<1>12. ASSUME NEW r \in Runs, MakeRunDirectory(r) PROVE PubInv'
  BY <1>12, ReproducesAssumption, BoundAssumption DEF MakeRunDirectory,
     PubStep, pubVars, bundleVars, coreVars, PubInv, TypeOK, Working, Over,
     Busy, Serves, Whole, Target, PubStates
<1>13. ASSUME NEW r \in Runs, Seal(r) PROVE PubInv'
  BY <1>13, ReproducesAssumption, BoundAssumption DEF Seal, PubStep, pubVars,
     bundleVars, coreVars, PubInv, TypeOK, Working, Over, Busy, Serves,
     Whole, Target, PubStates
<1>14. ASSUME NEW r \in Runs, Release(r) PROVE PubInv'
  BY <1>14, ReproducesAssumption, BoundAssumption DEF Release, PubStep,
     pubVars, bundleVars, coreVars, PubInv, TypeOK, Working, Over, Busy,
     Serves, Whole, Target, PubStates
<1>15. ASSUME NEW r \in Runs, VerifyPublished(r) PROVE PubInv'
  BY <1>15, ReproducesAssumption, BoundAssumption DEF VerifyPublished,
     PubStep, pubVars, bundleVars, coreVars, PubInv, TypeOK, Working, Over,
     Busy, Serves, Whole, Target, PubStates
<1>16. ASSUME NEW r \in Runs, VerifyPublishedFails(r) PROVE PubInv'
  BY <1>16, ReproducesAssumption, BoundAssumption DEF VerifyPublishedFails,
     PubStep, pubVars, bundleVars, coreVars, PubInv, TypeOK, Working, Over,
     Busy, Serves, Whole, Target, PubStates
<1>17. ASSUME NEW r \in Runs, PublicationFails(r) PROVE PubInv'
  BY <1>17, ReproducesAssumption, BoundAssumption DEF PublicationFails,
     PubStep, pubVars, bundleVars, coreVars, PubInv, TypeOK, Working, Over,
     Busy, Serves, Whole, Target, PubStates
<1>18. ASSUME NEW r \in Runs, ShelveStage(r) PROVE PubInv'
  BY <1>18, ReproducesAssumption, BoundAssumption DEF ShelveStage, PubStep,
     pubVars, bundleVars, coreVars, PubInv, TypeOK, Working, Over, Busy,
     Serves, Whole, Target, PubStates
<1>19. ASSUME NEW r \in Runs, ShelveManifest(r) PROVE PubInv'
  BY <1>19, ReproducesAssumption, BoundAssumption DEF ShelveManifest,
     PubStep, pubVars, bundleVars, coreVars, PubInv, TypeOK, Working, Over,
     Busy, Serves, Whole, Target, PubStates
<1>20. ASSUME NEW r \in Runs, ShelvingFails(r) PROVE PubInv'
  BY <1>20, ReproducesAssumption, BoundAssumption DEF ShelvingFails, PubStep,
     pubVars, bundleVars, coreVars, PubInv, TypeOK, Working, Over, Busy,
     Serves, Whole, Target, PubStates
<1>21. ASSUME NEW r \in Runs, ClosePublication(r) PROVE PubInv'
  <2>1. rundir' = rundir \/ rundir' = [rundir EXCEPT ![r] = "none"]
    BY <1>21 DEF ClosePublication
  <2>2. /\ pub[r] = "closing" /\ pub' = [pub EXCEPT ![r] = "failed"]
        /\ UNCHANGED <<done, now, recorded, registry, attested, reader>>
    BY <1>21 DEF ClosePublication, PubStep, coreVars
  <2> QED BY <2>1, <2>2 DEF PubInv, TypeOK, Working, Over, PubStates
<1>22. ASSUME NEW r \in Runs, Kill(r) PROVE PubInv'
  BY <1>22, ReproducesAssumption, BoundAssumption DEF Kill, PubStep, pubVars,
     bundleVars, coreVars, PubInv, TypeOK, Working, Over, Busy, Serves,
     Whole, Target, PubStates
<1>23. ASSUME NEW r \in Runs, Record(r) PROVE PubInv'
  BY <1>23, ReproducesAssumption, BoundAssumption DEF Record, PubStep,
     pubVars, bundleVars, coreVars, PubInv, TypeOK, Working, Over, Busy,
     Serves, Whole, Target, PubStates
<1>24. ASSUME NEW r \in Runs, ReadFails(r) PROVE PubInv'
  BY <1>24, ReproducesAssumption, BoundAssumption DEF ReadFails, PubStep,
     pubVars, bundleVars, coreVars, PubInv, TypeOK, Working, Over, Busy,
     Serves, Whole, Target, PubStates
<1>25. ASSUME NEW r \in Runs, QuarantineRun(r) PROVE PubInv'
  <2>1. rundir' = rundir \/ rundir' = [rundir EXCEPT ![r] = "none"]
    BY <1>25 DEF QuarantineRun
  <2>2. /\ reader[r] = "failed"
        /\ \/ reader' = [reader EXCEPT ![r] = "idle"]
           \/ reader' = [reader EXCEPT ![r] = "moved"]
        /\ UNCHANGED <<pub, done, now, recorded, registry, attested>>
    BY <1>25 DEF QuarantineRun, pubVars
  <2> QED BY <2>1, <2>2 DEF PubInv, TypeOK, Working, Over, PubStates
<1>26. ASSUME NEW r \in Runs, QuarantineRunManifest(r) PROVE PubInv'
  BY <1>26, ReproducesAssumption, BoundAssumption DEF QuarantineRunManifest,
     PubStep, pubVars, bundleVars, coreVars, PubInv, TypeOK, Working, Over,
     Busy, Serves, Whole, Target, PubStates
<1>27. ASSUME NEW r \in Runs, Attest(r) PROVE PubInv'
  BY <1>27, ReproducesAssumption, BoundAssumption DEF Attest, PubStep,
     pubVars, bundleVars, coreVars, PubInv, TypeOK, Working, Over, Busy,
     Serves, Whole, Target, PubStates
<1>28. ASSUME Register PROVE PubInv'
  BY <1>28, ReproducesAssumption, BoundAssumption DEF Register, PubStep,
     pubVars, bundleVars, coreVars, PubInv, TypeOK, Working, Over, Busy,
     Serves, Whole, Target, PubStates
<1>29. ASSUME NEW r \in Runs, SweepRun(r) PROVE PubInv'
  BY <1>29, ReproducesAssumption, BoundAssumption DEF SweepRun, PubStep,
     pubVars, bundleVars, coreVars, PubInv, TypeOK, Working, Over, Busy,
     Serves, Whole, Target, PubStates
<1>30. ASSUME Tick PROVE PubInv'
  BY <1>30, ReproducesAssumption, BoundAssumption DEF Tick, PubStep, pubVars,
     bundleVars, coreVars, PubInv, TypeOK, Working, Over, Busy, Serves,
     Whole, Target, PubStates
<1>31. CASE UNCHANGED vars
  BY <1>1, <1>31 DEF vars, pubVars, bundleVars, coreVars
<1> QED BY <1>2, <1>3, <1>4, <1>5, <1>6, <1>7, <1>8, <1>9, <1>10, <1>11,
       <1>12, <1>13, <1>14, <1>15, <1>16, <1>17, <1>18, <1>19, <1>20, <1>21,
       <1>22, <1>23, <1>24, <1>25, <1>26, <1>27, <1>28, <1>29, <1>30, <1>31
       DEF Next, Publish, Read, Cleanup

(* A publisher goes forward only, by one of these steps.                      *)
Forward ==
  \A x \in Runs :
    /\ pub[x] # "idle" => pub'[x] # "idle"
    /\ pub[x] \in Over => pub'[x] \in Over
    /\ pub[x] \in Over \union {"failed"} => pub'[x] \in Over \union {"failed"}
    /\ pub[x] \in Settled => pub'[x] \in Settled

(* Every step moves publishers forward.                                      *)
LEMMA PubForward ==
    ASSUME TypeOK, [Next]_vars
    PROVE  Forward
<1>1. ASSUME UNCHANGED <<pub>> PROVE Forward
  BY <1>1 DEF Forward
<1>2. ASSUME NEW r \in Runs,
             Record(r) \/ WithdrawOperation(r) \/ ReadFails(r)
             \/ QuarantineRun(r) \/ QuarantineRunManifest(r) \/ Attest(r)
             \/ SweepRun(r)
      PROVE  Forward
  BY <1>1, <1>2 DEF Record, WithdrawOperation, ReadFails, QuarantineRun,
     QuarantineRunManifest, Attest, SweepRun, pubVars, bundleVars, coreVars
<1>3. ASSUME NEW r \in Runs, NEW o \in Objects,
             MoveObject(r, o)
      PROVE  Forward
  BY <1>1, <1>3 DEF MoveObject, pubVars, bundleVars, coreVars
<1>4. ASSUME NEW r \in Runs, NEW o \in Objects,
             ShelveObject(r, o)
      PROVE  Forward
  BY <1>1, <1>4 DEF ShelveObject, pubVars, bundleVars, coreVars
<1>5. ASSUME NEW r \in Runs, NEW k \in Kinds,
             SweepItem(k, r)
      PROVE  Forward
  BY <1>1, <1>5 DEF SweepItem, pubVars, bundleVars, coreVars
<1>6. ASSUME NEW o \in Objects,
             SweepObject(o) \/ Damage(o)
      PROVE  Forward
  BY <1>1, <1>6 DEF SweepObject, Damage, pubVars, bundleVars, coreVars
<1>7. ASSUME Register \/ BeginCleanup \/ ReadManifests \/ ListObjects
             \/ ListItems \/ CleanupSucceeds \/ CleanupStops \/ Tick
      PROVE  Forward
  BY <1>1, <1>7 DEF Register, BeginCleanup, ReadManifests, ListObjects,
     ListItems, CleanupSucceeds, CleanupStops, Tick, pubVars, bundleVars,
     coreVars
<1>8. ASSUME NEW r \in Runs, Start(r) PROVE Forward
  BY <1>8 DEF Start, PubStep, pubVars, bundleVars, coreVars, Forward, TypeOK,
     Over, Settled, PubStates, Working
<1>9. ASSUME NEW r \in Runs, StartRefused(r) PROVE Forward
  BY <1>9 DEF StartRefused, PubStep, pubVars, bundleVars, coreVars, Forward,
     TypeOK, Over, Settled, PubStates, Working
<1>10. ASSUME NEW r \in Runs, Stage(r) PROVE Forward
  BY <1>10 DEF Stage, PubStep, pubVars, bundleVars, coreVars, Forward,
     TypeOK, Over, Settled, PubStates, Working
<1>11. ASSUME NEW r \in Runs, CheckObjects(r) PROVE Forward
  BY <1>11 DEF CheckObjects, PubStep, pubVars, bundleVars, coreVars, Forward,
     TypeOK, Over, Settled, PubStates, Working
<1>12. ASSUME NEW r \in Runs, MakeRunDirectory(r) PROVE Forward
  BY <1>12 DEF MakeRunDirectory, PubStep, pubVars, bundleVars, coreVars,
     Forward, TypeOK, Over, Settled, PubStates, Working
<1>13. ASSUME NEW r \in Runs, Seal(r) PROVE Forward
  BY <1>13 DEF Seal, PubStep, pubVars, bundleVars, coreVars, Forward, TypeOK,
     Over, Settled, PubStates, Working
<1>14. ASSUME NEW r \in Runs, Release(r) PROVE Forward
  BY <1>14 DEF Release, PubStep, pubVars, bundleVars, coreVars, Forward,
     TypeOK, Over, Settled, PubStates, Working
<1>15. ASSUME NEW r \in Runs, VerifyPublished(r) PROVE Forward
  BY <1>15 DEF VerifyPublished, PubStep, pubVars, bundleVars, coreVars,
     Forward, TypeOK, Over, Settled, PubStates, Working
<1>16. ASSUME NEW r \in Runs, VerifyPublishedFails(r) PROVE Forward
  BY <1>16 DEF VerifyPublishedFails, PubStep, pubVars, bundleVars, coreVars,
     Forward, TypeOK, Over, Settled, PubStates, Working
<1>17. ASSUME NEW r \in Runs, PublicationFails(r) PROVE Forward
  BY <1>17 DEF PublicationFails, PubStep, pubVars, bundleVars, coreVars,
     Forward, TypeOK, Over, Settled, PubStates, Working
<1>18. ASSUME NEW r \in Runs, ShelveStage(r) PROVE Forward
  BY <1>18 DEF ShelveStage, PubStep, pubVars, bundleVars, coreVars, Forward,
     TypeOK, Over, Settled, PubStates, Working
<1>19. ASSUME NEW r \in Runs, ShelveManifest(r) PROVE Forward
  BY <1>19 DEF ShelveManifest, PubStep, pubVars, bundleVars, coreVars,
     Forward, TypeOK, Over, Settled, PubStates, Working
<1>20. ASSUME NEW r \in Runs, ShelvingFails(r) PROVE Forward
  BY <1>20 DEF ShelvingFails, PubStep, pubVars, bundleVars, coreVars,
     Forward, TypeOK, Over, Settled, PubStates, Working
<1>21. ASSUME NEW r \in Runs, ClosePublication(r) PROVE Forward
  BY <1>21 DEF ClosePublication, PubStep, pubVars, bundleVars, coreVars,
     Forward, TypeOK, Over, Settled, PubStates, Working
<1>22. ASSUME NEW r \in Runs, Kill(r) PROVE Forward
  BY <1>22 DEF Kill, PubStep, pubVars, bundleVars, coreVars, Forward, TypeOK,
     Over, Settled, PubStates, Working
<1>23. CASE UNCHANGED vars
  BY <1>1, <1>23 DEF vars, pubVars, bundleVars, coreVars
<1> QED BY <1>2, <1>3, <1>4, <1>5, <1>6, <1>7, <1>8, <1>9, <1>10, <1>11,
       <1>12, <1>13, <1>14, <1>15, <1>16, <1>17, <1>18, <1>19, <1>20, <1>21,
       <1>22, <1>23 DEF Next, Publish, Read, Cleanup

-----------------------------------------------------------------------------
(* Quarantine.                                                                *)

(* What a step may do to the items: a new one is of the current period and    *)
(* of a run that is past its moves; only a sweep deletes one, old and of a     *)
(* run that is not pinned.                                                     *)
Stands(i, j) == i.kind = j.kind /\ i.run = j.run /\ i.at = j.at /\ (j.manifest => i.manifest)
Created(i) ==
  /\ i.at = now /\ i.run \in Runs
  /\ \/ pub'[i.run] \in {"shelving", "failed"}
     \/ pub[i.run] \in {"dead", "verified"} /\ pub' = pub
     \/ reader[i.run] = "failed" /\ pub' = pub
Swept(j) ==
  /\ cleaner.pc = "items" /\ j.run \notin cleaner.runs
  /\ j.manifest /\ j.at <= cleaner.cutoff
ItemSteps ==
  /\ \A i \in items' : (\E j \in items : Stands(i, j)) \/ Created(i)
  /\ \A j \in items : (\E i \in items' : Stands(i, j)) \/ Swept(j)

(* An edit of every item is such a step.                                       *)
LEMMA EditSteps ==
    ASSUME NEW e, items' = {e[i] : i \in items}, \A i \in items : Stands(e[i], i)
    PROVE  ItemSteps
BY DEF ItemSteps

(* The items after some of them were sealed with their manifest.              *)
SealedFrom(k, r) ==
  {IF i \in Of(k, r) THEN [i EXCEPT !.manifest = TRUE] ELSE i : i \in items}

(* Nothing else of them changes.                                               *)
LEMMA SealedItems ==
    ASSUME TypeOK, NEW k, NEW r
    PROVE  \A i \in SealedFrom(k, r) : \E j \in items :
              /\ i.kind = j.kind /\ i.run = j.run /\ i.at = j.at /\ i.holds = j.holds
              /\ i.manifest => j \in Of(k, r) \/ j.manifest
<1> DEFINE S == Of(k, r)
<1> DEFINE e(i) == IF i \in S THEN [i EXCEPT !.manifest = TRUE] ELSE i
<1>1. ASSUME NEW j \in items
      PROVE  /\ e(j).kind = j.kind /\ e(j).run = j.run /\ e(j).at = j.at
             /\ e(j).holds = j.holds
             /\ e(j).manifest => j \in S \/ j.manifest
  <2>1. j \in Item
    BY DEF TypeOK
  <2>2. CASE j \in S
    BY <2>1, <2>2, ItemEdits
  <2>3. CASE j \notin S
    BY <2>3
  <2> QED BY <2>2, <2>3
<1>2. SealedFrom(k, r) = {e(i) : i \in items}
  BY DEF SealedFrom
<1> HIDE DEF e
<1> QED BY <1>1, <1>2

(* The items after some of them were given an object.                          *)
LEMMA GrownItems ==
    ASSUME TypeOK, NEW k, NEW r, NEW o \in Objects,
           items' = {IF i \in Of(k, r) THEN [i EXCEPT !.holds = @ \union {o}] ELSE i
                       : i \in items}
    PROVE  \A i \in items' : \E j \in items :
              /\ i.kind = j.kind /\ i.run = j.run /\ i.at = j.at /\ i.manifest = j.manifest
              /\ j.holds \subseteq i.holds
              /\ j \in Of(k, r) => o \in i.holds
<1> DEFINE S == Of(k, r)
<1> DEFINE e(i) == IF i \in S THEN [i EXCEPT !.holds = @ \union {o}] ELSE i
<1>1. ASSUME NEW j \in items
      PROVE  /\ e(j).kind = j.kind /\ e(j).run = j.run /\ e(j).at = j.at
             /\ e(j).manifest = j.manifest
             /\ j.holds \subseteq e(j).holds
             /\ j \in S => o \in e(j).holds
  <2>1. j \in Item
    BY DEF TypeOK
  <2>2. CASE j \in S
    <3>1. /\ e(j).kind = j.kind /\ e(j).run = j.run /\ e(j).at = j.at
          /\ e(j).manifest = j.manifest /\ e(j).holds = j.holds \union {o}
      BY <2>1, <2>2, ItemEdits
    <3> HIDE DEF e
    <3> QED BY <3>1
  <2>3. CASE j \notin S
    BY <2>3
  <2> QED BY <2>2, <2>3
<1>2. items' = {e(i) : i \in items}
  OBVIOUS
<1> HIDE DEF e
<1> QED BY <1>1, <1>2

(* Every step is one of these.                                                *)
LEMMA ItemStep ==
    ASSUME TypeOK, [Next]_vars
    PROVE  ItemSteps
<1>1. ASSUME UNCHANGED <<items>> PROVE ItemSteps
  BY <1>1 DEF ItemSteps, Stands
<1>2. ASSUME NEW r \in Runs,
             Start(r) \/ StartRefused(r) \/ Stage(r) \/ CheckObjects(r)
             \/ MakeRunDirectory(r) \/ Seal(r) \/ Release(r)
             \/ VerifyPublished(r) \/ VerifyPublishedFails(r)
             \/ PublicationFails(r) \/ ShelvingFails(r) \/ Kill(r) \/ Record(r)
             \/ ReadFails(r) \/ Attest(r) \/ SweepRun(r)
      PROVE  ItemSteps
  BY <1>1, <1>2 DEF Start, StartRefused, Stage, CheckObjects,
     MakeRunDirectory, Seal, Release, VerifyPublished, VerifyPublishedFails,
     PublicationFails, ShelvingFails, Kill, Record, ReadFails, Attest,
     SweepRun, PubStep, pubVars, bundleVars, coreVars
<1>3. ASSUME NEW r \in Runs, NEW o \in Objects,
             MoveObject(r, o)
      PROVE  ItemSteps
  BY <1>1, <1>3 DEF MoveObject, pubVars, bundleVars, coreVars
<1>4. ASSUME NEW o \in Objects,
             SweepObject(o) \/ Damage(o)
      PROVE  ItemSteps
  BY <1>1, <1>4 DEF SweepObject, Damage, pubVars, bundleVars, coreVars
<1>5. ASSUME Register \/ BeginCleanup \/ ReadManifests \/ ListObjects
             \/ ListItems \/ CleanupSucceeds \/ CleanupStops \/ Tick
      PROVE  ItemSteps
  BY <1>1, <1>5 DEF Register, BeginCleanup, ReadManifests, ListObjects,
     ListItems, CleanupSucceeds, CleanupStops, Tick, pubVars, bundleVars,
     coreVars
<1>6. ASSUME NEW r \in Runs, ShelveStage(r) PROVE ItemSteps
  <2> DEFINE n == NewItem("staging", r, FALSE)
  <2>1. n.at = now /\ n.run = r
    BY DEF NewItem
  <2>2. items' = items \/ items' = items \union {n}
    BY <1>6 DEF ShelveStage
  <2>3. items' # items =>
           \/ pub'[r] \in {"shelving", "failed"}
           \/ pub[r] \in {"dead", "verified"} /\ pub' = pub
           \/ reader[r] = "failed" /\ pub' = pub
    BY <1>6 DEF ShelveStage, PubStep, TypeOK, pubVars
  <2> HIDE DEF n
  <2> QED BY <2>1, <2>2, <2>3 DEF ItemSteps, Stands, Created
<1>7. ASSUME NEW r \in Runs, ShelveManifest(r) PROVE ItemSteps
  <2>1. \A i \in items : i \in Item
    BY DEF TypeOK
  <2>2. items' = {IF i \in Of("staging", r) THEN [i EXCEPT !.manifest = TRUE] ELSE i : i \in items}
    BY <1>7 DEF ShelveManifest
  <2> DEFINE e == [i \in items |-> IF i \in Of("staging", r) THEN [i EXCEPT !.manifest = TRUE] ELSE i]
  <2>3. \A i \in items : Stands(e[i], i)
    BY <2>1, ItemEdits DEF Stands
  <2>4. items' = {e[i] : i \in items}
    BY <2>2
  <2> HIDE DEF e
  <2> QED BY <2>3, <2>4, EditSteps
<1>8. ASSUME NEW r \in Runs, ClosePublication(r) PROVE ItemSteps
  <2> DEFINE n == NewItem("run", r, TRUE)
  <2>1. n.at = now /\ n.run = r
    BY DEF NewItem
  <2>2. items' = items \/ items' = items \union {n}
    BY <1>8 DEF ClosePublication
  <2>3. items' # items =>
           \/ pub'[r] \in {"shelving", "failed"}
           \/ pub[r] \in {"dead", "verified"} /\ pub' = pub
           \/ reader[r] = "failed" /\ pub' = pub
    BY <1>8 DEF ClosePublication, PubStep, TypeOK, pubVars
  <2> HIDE DEF n
  <2> QED BY <2>1, <2>2, <2>3 DEF ItemSteps, Stands, Created
<1>9. ASSUME NEW r \in Runs, NEW o \in Objects, ShelveObject(r, o) PROVE ItemSteps
  <2>1. \A i \in items : i \in Item
    BY DEF TypeOK
  <2>2. \/ items' = items
        \/ items' = {IF i \in Of("staging", r) THEN [i EXCEPT !.holds = @ \union {o}] ELSE i
                       : i \in items}
    BY <1>9 DEF ShelveObject
  <2> DEFINE e == [i \in items |-> IF i \in Of("staging", r) THEN [i EXCEPT !.holds = @ \union {o}] ELSE i]
  <2>3. \A i \in items : Stands(e[i], i)
    BY <2>1, ItemEdits DEF Stands
  <2>4. items' = items \/ items' = {e[i] : i \in items}
    BY <2>2
  <2> HIDE DEF e
  <2> QED BY <1>1, <2>3, <2>4, EditSteps
<1>10. ASSUME NEW r \in Runs, WithdrawOperation(r) PROVE ItemSteps
  <2> DEFINE n == NewItem("operation", r, TRUE)
  <2>1. n.at = now /\ n.run = r
    BY DEF NewItem
  <2>2. items' = items \/ items' = items \union {n}
    BY <1>10 DEF WithdrawOperation
  <2>3. items' # items =>
           \/ pub'[r] \in {"shelving", "failed"}
           \/ pub[r] \in {"dead", "verified"} /\ pub' = pub
           \/ reader[r] = "failed" /\ pub' = pub
    BY <1>10 DEF WithdrawOperation, PubStep, TypeOK, pubVars
  <2> HIDE DEF n
  <2> QED BY <2>1, <2>2, <2>3 DEF ItemSteps, Stands, Created
<1>11. ASSUME NEW r \in Runs, QuarantineRun(r) PROVE ItemSteps
  <2> DEFINE n == NewItem("run", r, FALSE)
  <2>1. n.at = now /\ n.run = r
    BY DEF NewItem
  <2>2. items' = items \/ items' = items \union {n}
    BY <1>11 DEF QuarantineRun
  <2>3. items' # items =>
           \/ pub'[r] \in {"shelving", "failed"}
           \/ pub[r] \in {"dead", "verified"} /\ pub' = pub
           \/ reader[r] = "failed" /\ pub' = pub
    BY <1>11 DEF QuarantineRun, PubStep, TypeOK, pubVars
  <2> HIDE DEF n
  <2> QED BY <2>1, <2>2, <2>3 DEF ItemSteps, Stands, Created
<1>12. ASSUME NEW r \in Runs, QuarantineRunManifest(r) PROVE ItemSteps
  <2>1. \A i \in items : i \in Item
    BY DEF TypeOK
  <2>2. items' = {IF i \in Of("run", r) THEN [i EXCEPT !.manifest = TRUE] ELSE i : i \in items}
    BY <1>12 DEF QuarantineRunManifest
  <2> DEFINE e == [i \in items |-> IF i \in Of("run", r) THEN [i EXCEPT !.manifest = TRUE] ELSE i]
  <2>3. \A i \in items : Stands(e[i], i)
    BY <2>1, ItemEdits DEF Stands
  <2>4. items' = {e[i] : i \in items}
    BY <2>2
  <2> HIDE DEF e
  <2> QED BY <2>3, <2>4, EditSteps
<1>13. ASSUME NEW r \in Runs, NEW k \in Kinds, SweepItem(k, r) PROVE ItemSteps
  <2>1. /\ cleaner.pc = "items"
        /\ \/ items' = items
           \/ /\ r \notin cleaner.runs
              /\ items' = items \ {i \in Of(k, r) : ItemEligible(i)}
    BY <1>13 DEF SweepItem
  <2> QED BY <2>1 DEF ItemSteps, Stands, Swept, Of, ItemEligible
<1>14. CASE UNCHANGED vars
  BY <1>1, <1>14 DEF vars, pubVars, bundleVars, coreVars
<1> QED BY <1>2, <1>3, <1>4, <1>5, <1>6, <1>7, <1>8, <1>9, <1>10, <1>11,
       <1>12, <1>13, <1>14 DEF Next, Publish, Read, Cleanup

(* Every step keeps the items younger than the seals: done changes only when  *)
(* a moving publisher seals, and no item is of such a run.                     *)
LEMMA NextItems ==
    ASSUME TypeOK, PubInv, ItemInv, [Next]_vars
    PROVE  ItemInv'
<1>1. TypeOK' /\ Forward /\ ItemSteps
  BY NextTyped, PubForward, ItemStep
<1>2. now <= now' /\ now \in Nat /\ now' \in Nat
  <2>1. now' = now \/ now' = now + 1
    BY DEF Next, Publish, Read, Cleanup, vars, pubVars, bundleVars, coreVars,
           Start, StartRefused, Stage, CheckObjects, MakeRunDirectory, Seal,
           Release, VerifyPublished, VerifyPublishedFails, PublicationFails,
           ShelveStage, ShelveManifest, ShelvingFails, ClosePublication, Kill,
           MoveObject, ShelveObject, Record, WithdrawOperation, ReadFails,
           QuarantineRun, QuarantineRunManifest, Attest, Register, BeginCleanup,
           ReadManifests, ListObjects, ListItems, CleanupSucceeds, CleanupStops,
           SweepRun, SweepObject, SweepItem, Damage, Tick
  <2> QED BY <2>1 DEF TypeOK
<1>3. \A x \in Runs :
         done'[x] = done[x] \/ (pub[x] = "moving" /\ pub'[x] = "sealed")
  <2>1. done' = done \/ \E r \in Runs : Seal(r)
    BY DEF Next, Publish, Read, Cleanup, vars, pubVars, bundleVars, coreVars,
           Start, StartRefused, Stage, CheckObjects, MakeRunDirectory, Release,
           VerifyPublished, VerifyPublishedFails, PublicationFails, ShelveStage,
           ShelveManifest, ShelvingFails, ClosePublication, Kill, MoveObject,
           ShelveObject, Record, WithdrawOperation, ReadFails, QuarantineRun,
           QuarantineRunManifest, Attest, Register, BeginCleanup, ReadManifests,
           ListObjects, ListItems, CleanupSucceeds, CleanupStops, SweepRun,
           SweepObject, SweepItem, Damage, Tick
  <2>2. ASSUME NEW r \in Runs, Seal(r)
        PROVE  pub[r] = "moving" /\ pub'[r] = "sealed" /\ done' = [done EXCEPT ![r] = now]
    BY <2>2 DEF Seal, PubStep, TypeOK
  <2>3. ASSUME NEW r \in Runs, Seal(r), NEW x \in Runs
        PROVE  done'[x] = done[x] \/ (pub[x] = "moving" /\ pub'[x] = "sealed")
    <3>1. CASE x = r
      BY <2>2, <2>3, <3>1
    <3>2. CASE x # r
      BY <2>2, <2>3, <3>2 DEF TypeOK
    <3> QED BY <3>1, <3>2
  <2>4. CASE done' = done
    BY <2>4
  <2>5. CASE \E r \in Runs : Seal(r)
    BY <2>3, <2>5
  <2> QED BY <2>1, <2>4, <2>5
<1>4. ASSUME NEW i \in items' PROVE pub'[i.run] \in Settled /\ done'[i.run] <= i.at /\ i.at <= now'
  <2>1. i.run \in Runs
    BY <1>1 DEF TypeOK, Item
  <2>2. CASE \E j \in items : Stands(i, j)
    <3>1. PICK j \in items : Stands(i, j)
      BY <2>2
    <3>2. pub[i.run] \in Settled /\ done[i.run] <= i.at /\ i.at <= now
      BY <3>1 DEF ItemInv, Stands
    <3>3. done'[i.run] = done[i.run]
      BY <1>3, <2>1, <3>2 DEF Settled, Over
    <3>4. i.at \in Nat
      BY <1>1 DEF TypeOK, Item
    <3> QED BY <1>1, <1>2, <2>1, <3>2, <3>3, <3>4 DEF Forward
  <2>3. CASE Created(i)
    <3>1. pub'[i.run] \in Settled
      <4>1. reader[i.run] # "idle" => pub[i.run] \in Over \union {"failed"}
        BY <2>1 DEF PubInv
      <4> QED BY <2>3, <4>1 DEF Created, Settled, Over
    <3>2. done'[i.run] = done[i.run]
      BY <1>3, <2>1, <2>3 DEF Created, PubInv, Over
    <3>3. done[i.run] <= now /\ i.at = now
      BY <2>1, <2>3 DEF Created, PubInv
    <3> QED BY <1>2, <3>1, <3>2, <3>3
  <2> QED BY <1>1, <2>2, <2>3 DEF ItemSteps
<1> QED BY <1>4 DEF ItemInv

-----------------------------------------------------------------------------
(* The material of publishers.                                                *)

(* Every step keeps what a publisher has moved within its reach.              *)
LEMMA NextMaterial ==
    ASSUME TypeOK, PubInv, ItemInv, MaterialInv, CleanInv, [Next]_vars
    PROVE  MaterialInv'
<1>1. ASSUME UNCHANGED <<now, pub, left, moved, store, born, items>> PROVE MaterialInv'
  BY <1>1 DEF MaterialInv, Of
<1>2. ASSUME NEW r \in Runs,
             Record(r) \/ ReadFails(r) \/ Attest(r) \/ SweepRun(r)
      PROVE  MaterialInv'
  BY <1>1, <1>2 DEF Record, ReadFails, Attest, SweepRun, pubVars, bundleVars,
     coreVars
<1>3. ASSUME Register \/ BeginCleanup \/ ReadManifests \/ ListObjects
             \/ ListItems \/ CleanupSucceeds \/ CleanupStops
      PROVE  MaterialInv'
  BY <1>1, <1>3 DEF Register, BeginCleanup, ReadManifests, ListObjects,
     ListItems, CleanupSucceeds, CleanupStops, pubVars, bundleVars, coreVars
<1>4. ASSUME NEW r \in Runs, Start(r) PROVE MaterialInv'
  BY <1>4 DEF Start, PubStep, pubVars, bundleVars, coreVars, MaterialInv,
     TypeOK, Of, Busy, Working
<1>5. ASSUME NEW r \in Runs, StartRefused(r) PROVE MaterialInv'
  BY <1>5 DEF StartRefused, PubStep, pubVars, bundleVars, coreVars,
     MaterialInv, TypeOK, Of, Busy, Working
<1>6. ASSUME NEW r \in Runs, Stage(r) PROVE MaterialInv'
  BY <1>6 DEF Stage, PubStep, pubVars, bundleVars, coreVars, MaterialInv,
     TypeOK, Of, Busy, Working
<1>7. ASSUME NEW r \in Runs, CheckObjects(r) PROVE MaterialInv'
  BY <1>7 DEF CheckObjects, PubStep, pubVars, bundleVars, coreVars,
     MaterialInv, TypeOK, Of, Busy, Working
<1>8. ASSUME NEW r \in Runs, MakeRunDirectory(r) PROVE MaterialInv'
  BY <1>8 DEF MakeRunDirectory, PubStep, pubVars, bundleVars, coreVars,
     MaterialInv, TypeOK, Of, Busy, Working
<1>9. ASSUME NEW r \in Runs, Seal(r) PROVE MaterialInv'
  BY <1>9 DEF Seal, PubStep, pubVars, bundleVars, coreVars, MaterialInv,
     TypeOK, Of, Busy, Working
<1>10. ASSUME NEW r \in Runs, Release(r) PROVE MaterialInv'
  BY <1>10 DEF Release, PubStep, pubVars, bundleVars, coreVars, MaterialInv,
     TypeOK, Of, Busy, Working
<1>11. ASSUME NEW r \in Runs, VerifyPublished(r) PROVE MaterialInv'
  BY <1>11 DEF VerifyPublished, PubStep, pubVars, bundleVars, coreVars,
     MaterialInv, TypeOK, Of, Busy, Working
<1>12. ASSUME NEW r \in Runs, VerifyPublishedFails(r) PROVE MaterialInv'
  BY <1>12 DEF VerifyPublishedFails, PubStep, pubVars, bundleVars, coreVars,
     MaterialInv, TypeOK, Of, Busy, Working
<1>13. ASSUME NEW r \in Runs, PublicationFails(r) PROVE MaterialInv'
  BY <1>13 DEF PublicationFails, PubStep, pubVars, bundleVars, coreVars,
     MaterialInv, TypeOK, Of, Busy, Working
<1>14. ASSUME NEW r \in Runs, ShelveStage(r) PROVE MaterialInv'
  <2>1. /\ pub[r] = "failing" /\ pub' = [pub EXCEPT ![r] = "shelving"]
        /\ left' = [left EXCEPT ![r] = moved[r]]
        /\ items' = items \union {NewItem("staging", r, FALSE)}
        /\ UNCHANGED <<now, moved, store, born>>
    BY <1>14 DEF ShelveStage, PubStep, bundleVars
  <2>2. pub'[r] = "shelving" /\ left'[r] = moved[r]
    BY <2>1 DEF TypeOK
  <2>3. \A q \in Runs \ {r} : pub'[q] = pub[q] /\ left'[q] = left[q]
    BY <2>1 DEF TypeOK
  <2>4. \A q \in Runs \ {r} : {i \in items' : i.kind = "staging" /\ i.run = q} = Of("staging", q)
    BY <2>1 DEF Of, NewItem
  <2>5. \A q \in Runs : pub[q] \in Working => q = r
    BY <2>1 DEF PubInv, Working
  <2>6. ASSUME NEW q \in Runs, q # r
        PROVE  pub'[q] \notin Holding
    BY <2>3, <2>5, <2>6 DEF Working, Holding
  <2>7. moved[r] \ left'[r] = {}
    BY <2>2
  <2>8. \A x \in left'[r] : store'[x] # "absent" /\ born'[x] = now'
    BY <2>1, <2>2 DEF MaterialInv
  <2>9. ASSUME NEW q \in Runs, pub'[q] \in {"idle", "leased", "staged", "checked"}
        PROVE  moved'[q] = {}
    BY <2>1, <2>2, <2>3, <2>9 DEF MaterialInv
  <2>10. ASSUME NEW q \in Runs, pub'[q] = "shelving"
         PROVE  /\ left'[q] \subseteq moved'[q]
                /\ \A x \in left'[q] : store'[x] # "absent" /\ born'[x] = now'
                /\ moved'[q] \ left'[q] = {}
    BY <2>1, <2>2, <2>6, <2>7, <2>8, <2>10 DEF Holding
  <2>11. ASSUME NEW q \in Runs, pub'[q] \in {"moving", "failing"}
         PROVE  FALSE
    BY <2>2, <2>6, <2>11 DEF Holding
  <2> QED BY <2>9, <2>10, <2>11 DEF MaterialInv
<1>15. ASSUME NEW r \in Runs, ShelveManifest(r) PROVE MaterialInv'
  <2>1. /\ pub[r] = "shelving" /\ pub' = [pub EXCEPT ![r] = "closing"]
        /\ UNCHANGED <<now, left, moved, store, born>>
        /\ items' = SealedFrom("staging", r)
    BY <1>15 DEF ShelveManifest, PubStep, bundleVars, SealedFrom
  <2>3. \A i \in items' : \E j \in items :
           i.kind = j.kind /\ i.run = j.run /\ i.holds = j.holds
    BY <2>1, SealedItems
  <2>4. \A q \in Runs : pub'[q] = pub[q] \/ pub'[q] = "closing"
    BY <2>1 DEF TypeOK
  <2> QED BY <2>1, <2>3, <2>4 DEF MaterialInv, Of
<1>16. ASSUME NEW r \in Runs, ShelvingFails(r) PROVE MaterialInv'
  BY <1>16 DEF ShelvingFails, PubStep, pubVars, bundleVars, coreVars,
     MaterialInv, TypeOK, Of, Busy, Working
<1>17. ASSUME NEW r \in Runs, ClosePublication(r) PROVE MaterialInv'
  <2>1. /\ items' = items \/ items' = items \union {NewItem("run", r, TRUE)}
        /\ pub[r] = "closing" /\ pub' = [pub EXCEPT ![r] = "failed"]
        /\ UNCHANGED <<now, left, moved, store, born>>
    BY <1>17 DEF ClosePublication, PubStep
  <2>2. NewItem("run", r, TRUE).kind # "staging"
    BY DEF NewItem
  <2>3. \A q \in Runs : {i \in items' : i.kind = "staging" /\ i.run = q} = Of("staging", q)
    BY <2>1, <2>2 DEF Of
  <2>4. \A q \in Runs : pub'[q] = pub[q] \/ pub'[q] = "failed"
    BY <2>1 DEF TypeOK
  <2> QED BY <2>1, <2>3, <2>4 DEF MaterialInv, Of
<1>18. ASSUME NEW r \in Runs, Kill(r) PROVE MaterialInv'
  BY <1>18 DEF Kill, PubStep, pubVars, bundleVars, coreVars, MaterialInv,
     TypeOK, Of, Busy, Working
<1>19. ASSUME NEW r \in Runs, NEW o \in Objects, MoveObject(r, o) PROVE MaterialInv'
  <2>1. /\ pub[r] = "moving" /\ UNCHANGED <<now, pub, items>>
        /\ left' = [left EXCEPT ![r] = @ \ {o}]
    BY <1>19 DEF MoveObject
  <2>2. \/ UNCHANGED <<store, born, moved>>
        \/ /\ store' = [store EXCEPT ![o] = "sound"] /\ born' = [born EXCEPT ![o] = now]
           /\ moved' = [moved EXCEPT ![r] = @ \union {o}]
    BY <1>19 DEF MoveObject
  <2>3. \A q \in Runs : pub[q] \in Working => q = r
    BY <2>1 DEF PubInv, Working
  <2>4. \A q \in Runs : left[q] \subseteq Objects /\ moved[q] \subseteq Objects
    BY DEF TypeOK
  <2>5. \A q \in Runs \ {r} : pub[q] \notin Holding /\ moved'[q] = moved[q]
    BY <2>2, <2>3 DEF Working, Holding, TypeOK
  <2>6. \A x \in moved'[r] : store'[x] # "absent" /\ born'[x] = now
    BY <2>1, <2>2, <2>4 DEF MaterialInv, TypeOK
  <2> QED BY <2>1, <2>5, <2>6 DEF MaterialInv, Holding
<1>20. ASSUME NEW r \in Runs, NEW o \in Objects, ShelveObject(r, o) PROVE MaterialInv'
  <2>1. /\ pub[r] = "shelving" /\ o \in left[r]
        /\ left' = [left EXCEPT ![r] = @ \ {o}]
        /\ UNCHANGED <<now, pub, moved, born>>
    BY <1>20 DEF ShelveObject
  <2>2. store[o] # "absent" /\ left[r] \subseteq moved[r]
    BY <2>1 DEF MaterialInv
  <2>5. store' = [store EXCEPT ![o] = "absent"]
    BY <1>20, <2>2 DEF ShelveObject
  <2>3. items' = {IF i \in Of("staging", r) THEN [i EXCEPT !.holds = @ \union {o}] ELSE i
                        : i \in items}
    BY <1>20, <2>2 DEF ShelveObject
  <2>4. \A q \in Runs : pub[q] \in Working => q = r
    BY <2>1 DEF PubInv, Working
  <2>6. \A i \in items' : i.kind = "staging" /\ i.run = r =>
           \E j \in Of("staging", r) : j.holds \subseteq i.holds /\ o \in i.holds
    <3>1. \A i \in items' : \E j \in items :
             /\ i.kind = j.kind /\ i.run = j.run /\ j.holds \subseteq i.holds
             /\ j \in Of("staging", r) => o \in i.holds
      BY <2>3, GrownItems
    <3> QED BY <3>1 DEF Of
  <2>7. left'[r] = left[r] \ {o}
    BY <2>1 DEF TypeOK
  <2>8. \A x \in Objects \ {o} : store'[x] = store[x]
    BY <2>5 DEF TypeOK
  <2>9. \A q \in Runs : left[q] \subseteq Objects /\ moved[q] \subseteq Objects
    BY DEF TypeOK
  <2>10. ASSUME NEW q \in Runs, q # r
         PROVE  pub[q] \notin Holding
    BY <2>4, <2>10 DEF Working, Holding
  <2> QED BY <2>1, <2>2, <2>6, <2>7, <2>8, <2>9, <2>10 DEF MaterialInv, Of, Holding
<1>21. ASSUME NEW r \in Runs, WithdrawOperation(r) PROVE MaterialInv'
  <2>1. /\ items' = items \/ items' = items \union {NewItem("operation", r, TRUE)}
        /\ UNCHANGED <<now, pub, left, moved, store, born>>
    BY <1>21 DEF WithdrawOperation, pubVars, bundleVars
  <2>2. NewItem("operation", r, TRUE).kind # "staging"
    BY DEF NewItem
  <2>3. \A q \in Runs : {i \in items' : i.kind = "staging" /\ i.run = q} = Of("staging", q)
    BY <2>1, <2>2 DEF Of
  <2> QED BY <2>1, <2>3 DEF MaterialInv, Of
<1>22. ASSUME NEW r \in Runs, QuarantineRun(r) PROVE MaterialInv'
  <2>1. /\ items' = items \/ items' = items \union {NewItem("run", r, FALSE)}
        /\ UNCHANGED <<now, pub, left, moved, store, born>>
    BY <1>22 DEF QuarantineRun, pubVars, bundleVars
  <2>2. NewItem("run", r, FALSE).kind # "staging"
    BY DEF NewItem
  <2>3. \A q \in Runs : {i \in items' : i.kind = "staging" /\ i.run = q} = Of("staging", q)
    BY <2>1, <2>2 DEF Of
  <2> QED BY <2>1, <2>3 DEF MaterialInv, Of
<1>23. ASSUME NEW r \in Runs, QuarantineRunManifest(r) PROVE MaterialInv'
  <2>1. items' = SealedFrom("run", r)
    BY <1>23 DEF QuarantineRunManifest, SealedFrom
  <2>2. UNCHANGED <<now, pub, left, moved, store, born>>
    BY <1>23 DEF QuarantineRunManifest, pubVars, bundleVars
  <2>3. \A i \in items' : \E j \in items :
           i.kind = j.kind /\ i.run = j.run /\ i.holds = j.holds
    BY <2>1, SealedItems
  <2> QED BY <2>2, <2>3 DEF MaterialInv, Of
<1>24. ASSUME NEW o \in Objects, SweepObject(o) PROVE MaterialInv'
  <2>1. /\ cleaner.cutoff < now /\ cleaner.cutoff \in Nat /\ now \in Nat
        /\ UNCHANGED <<pub, moved, left, born, now, items>>
        /\ \A x \in Objects : store'[x] = store[x] \/ (x = o /\ born[o] <= cleaner.cutoff)
    BY <1>24 DEF SweepObject, ObjectEligible, CleanInv, TypeOK, pubVars
  <2>2. \A x \in Objects : born[x] = now => store'[x] = store[x]
    BY <2>1
  <2>3. \A q \in Runs : moved[q] \subseteq Objects /\ left[q] \subseteq Objects
    BY DEF TypeOK
  <2> QED BY <2>1, <2>2, <2>3 DEF MaterialInv, Of
<1>25. ASSUME NEW r \in Runs, NEW k \in Kinds, SweepItem(k, r) PROVE MaterialInv'
  <2>1. items' \subseteq items /\ UNCHANGED <<now, pub, left, moved, store, born>>
    BY <1>25 DEF SweepItem, pubVars, bundleVars
  <2> QED BY <2>1 DEF MaterialInv, Of
<1>26. ASSUME NEW o \in Objects, Damage(o) PROVE MaterialInv'
  BY <1>26 DEF Damage, PubStep, pubVars, bundleVars, coreVars, MaterialInv,
     TypeOK, Of, Busy, Working
<1>27. ASSUME Tick PROVE MaterialInv'
  <2>1. \A q \in Runs : pub[q] \notin Working
    BY <1>27 DEF Tick, Busy
  <2> QED BY <1>27, <2>1 DEF Tick, pubVars, MaterialInv, Working
<1>28. CASE UNCHANGED vars
  BY <1>1, <1>28 DEF vars, pubVars, bundleVars, coreVars
<1> QED BY <1>2, <1>3, <1>4, <1>5, <1>6, <1>7, <1>8, <1>9, <1>10, <1>11,
       <1>12, <1>13, <1>14, <1>15, <1>16, <1>17, <1>18, <1>19, <1>20, <1>21,
       <1>22, <1>23, <1>24, <1>25, <1>26, <1>27, <1>28 DEF Next, Publish,
       Read, Cleanup

(* Every step keeps the moved material in the items that hold it.             *)
LEMMA NextFailure ==
    ASSUME TypeOK, ItemInv, MaterialInv, FailureKeepsMaterial, [Next]_vars
    PROVE  FailureKeepsMaterial'
<1>1. ASSUME UNCHANGED <<moved, items>> PROVE FailureKeepsMaterial'
  BY <1>1 DEF FailureKeepsMaterial
<1>2. ASSUME NEW r \in Runs,
             Start(r) \/ StartRefused(r) \/ Stage(r) \/ CheckObjects(r)
             \/ MakeRunDirectory(r) \/ Seal(r) \/ Release(r)
             \/ VerifyPublished(r) \/ VerifyPublishedFails(r)
             \/ PublicationFails(r) \/ ShelvingFails(r) \/ Kill(r) \/ Record(r)
             \/ ReadFails(r) \/ Attest(r) \/ SweepRun(r)
      PROVE  FailureKeepsMaterial'
  BY <1>1, <1>2 DEF Start, StartRefused, Stage, CheckObjects,
     MakeRunDirectory, Seal, Release, VerifyPublished, VerifyPublishedFails,
     PublicationFails, ShelvingFails, Kill, Record, ReadFails, Attest,
     SweepRun, PubStep, pubVars, bundleVars, coreVars
<1>3. ASSUME NEW o \in Objects,
             SweepObject(o) \/ Damage(o)
      PROVE  FailureKeepsMaterial'
  BY <1>1, <1>3 DEF SweepObject, Damage, pubVars, bundleVars, coreVars
<1>4. ASSUME Register \/ BeginCleanup \/ ReadManifests \/ ListObjects
             \/ ListItems \/ CleanupSucceeds \/ CleanupStops \/ Tick
      PROVE  FailureKeepsMaterial'
  BY <1>1, <1>4 DEF Register, BeginCleanup, ReadManifests, ListObjects,
     ListItems, CleanupSucceeds, CleanupStops, Tick, pubVars, bundleVars,
     coreVars
<1>5. ASSUME NEW r \in Runs, ShelveStage(r) PROVE FailureKeepsMaterial'
  <2>1. items' = items \/ items' = items \union {NewItem("staging", r, FALSE)}
    BY <1>5 DEF ShelveStage
  <2>2. moved' = moved
    BY <1>5 DEF ShelveStage, pubVars
  <2>3. LET n == NewItem("staging", r, FALSE) IN ~ (n.kind = "staging" /\ n.manifest)
    BY DEF NewItem
  <2> QED BY <2>1, <2>2, <2>3 DEF FailureKeepsMaterial
<1>6. ASSUME NEW r \in Runs, ShelveManifest(r) PROVE FailureKeepsMaterial'
  <2>1. items' = SealedFrom("staging", r)
    BY <1>6 DEF ShelveManifest, SealedFrom
  <2>2. /\ pub[r] = "shelving" /\ left[r] = {}
        /\ moved' = moved
    BY <1>6 DEF ShelveManifest, PubStep
  <2>3. \A i \in Of("staging", r) : moved[r] \subseteq i.holds
    BY <2>2 DEF MaterialInv
  <2>4. \A i \in items' : \E j \in items :
           /\ i.kind = j.kind /\ i.run = j.run /\ i.at = j.at /\ i.holds = j.holds
           /\ i.manifest => j \in Of("staging", r) \/ j.manifest
    BY <2>1, SealedItems
  <2> QED BY <2>2, <2>3, <2>4 DEF FailureKeepsMaterial, Of
<1>7. ASSUME NEW r \in Runs, ClosePublication(r) PROVE FailureKeepsMaterial'
  <2>1. items' = items \/ items' = items \union {NewItem("run", r, TRUE)}
    BY <1>7 DEF ClosePublication
  <2>2. moved' = moved
    BY <1>7 DEF ClosePublication, pubVars
  <2>3. LET n == NewItem("run", r, TRUE) IN ~ (n.kind = "staging" /\ n.manifest)
    BY DEF NewItem
  <2> QED BY <2>1, <2>2, <2>3 DEF FailureKeepsMaterial
<1>8. ASSUME NEW r \in Runs, NEW o \in Objects, MoveObject(r, o) PROVE FailureKeepsMaterial'
  <2>1. pub[r] = "moving" /\ items' = items
    BY <1>8 DEF MoveObject
  <2>2. \A i \in items : i.run \in Runs /\ i.run # r
    BY <2>1 DEF ItemInv, Settled, Over, TypeOK, Item
  <2>3. \A q \in Runs : q # r => moved'[q] = moved[q]
    BY <1>8 DEF MoveObject, TypeOK
  <2> QED BY <2>1, <2>2, <2>3 DEF FailureKeepsMaterial
<1>9. ASSUME NEW r \in Runs, NEW o \in Objects, ShelveObject(r, o) PROVE FailureKeepsMaterial'
  <2>1. /\ moved' = moved
        /\ \/ items' = items
           \/ items' = {IF i \in Of("staging", r) THEN [i EXCEPT !.holds = @ \union {o}] ELSE i
                          : i \in items}
    BY <1>9 DEF ShelveObject
  <2>2. CASE items' = items
    BY <2>1, <2>2 DEF FailureKeepsMaterial
  <2>3. CASE items' = {IF i \in Of("staging", r) THEN [i EXCEPT !.holds = @ \union {o}] ELSE i
                          : i \in items}
    <3>1. \A i \in items' : \E j \in items :
             /\ i.kind = j.kind /\ i.run = j.run /\ i.at = j.at /\ i.manifest = j.manifest
             /\ j.holds \subseteq i.holds
             /\ j \in Of("staging", r) => o \in i.holds
      BY <2>3, GrownItems
    <3> QED BY <2>1, <3>1 DEF FailureKeepsMaterial
  <2> QED BY <2>1, <2>2, <2>3
<1>10. ASSUME NEW r \in Runs, WithdrawOperation(r) PROVE FailureKeepsMaterial'
  <2>1. items' = items \/ items' = items \union {NewItem("operation", r, TRUE)}
    BY <1>10 DEF WithdrawOperation
  <2>2. moved' = moved
    BY <1>10 DEF WithdrawOperation, pubVars
  <2>3. LET n == NewItem("operation", r, TRUE) IN ~ (n.kind = "staging" /\ n.manifest)
    BY DEF NewItem
  <2> QED BY <2>1, <2>2, <2>3 DEF FailureKeepsMaterial
<1>11. ASSUME NEW r \in Runs, QuarantineRun(r) PROVE FailureKeepsMaterial'
  <2>1. items' = items \/ items' = items \union {NewItem("run", r, FALSE)}
    BY <1>11 DEF QuarantineRun
  <2>2. moved' = moved
    BY <1>11 DEF QuarantineRun, pubVars
  <2>3. LET n == NewItem("run", r, FALSE) IN ~ (n.kind = "staging" /\ n.manifest)
    BY DEF NewItem
  <2> QED BY <2>1, <2>2, <2>3 DEF FailureKeepsMaterial
<1>12. ASSUME NEW r \in Runs, QuarantineRunManifest(r) PROVE FailureKeepsMaterial'
  <2>1. items' = SealedFrom("run", r)
    BY <1>12 DEF QuarantineRunManifest, SealedFrom
  <2>2. moved' = moved
    BY <1>12 DEF QuarantineRunManifest, pubVars
  <2>3. \A i \in items' : \E j \in items :
           /\ i.kind = j.kind /\ i.run = j.run /\ i.at = j.at /\ i.holds = j.holds
           /\ i.manifest => j \in Of("run", r) \/ j.manifest
    BY <2>1, SealedItems
  <2> QED BY <2>2, <2>3 DEF FailureKeepsMaterial, Of
<1>13. ASSUME NEW r \in Runs, NEW k \in Kinds, SweepItem(k, r) PROVE FailureKeepsMaterial'
  <2>1. items' \subseteq items /\ moved' = moved
    BY <1>13 DEF SweepItem, pubVars
  <2> QED BY <2>1 DEF FailureKeepsMaterial
<1>14. CASE UNCHANGED vars
  BY <1>1, <1>14 DEF vars, pubVars, bundleVars, coreVars
<1> QED BY <1>2, <1>3, <1>4, <1>5, <1>6, <1>7, <1>8, <1>9, <1>10, <1>11,
       <1>12, <1>13, <1>14 DEF Next, Publish, Read, Cleanup

-----------------------------------------------------------------------------
(* Runs, objects and retention.                                               *)

(* A run is sealed by its publisher alone, and unsealed by the retention of a *)
(* run that is not pinned or by a reader that puts it in quarantine.           *)
SealSteps ==
  \A x \in Runs :
    /\ rundir'[x] = "sealed" =>
          \/ rundir[x] = "sealed" /\ done'[x] = done[x]
          \/ pub[x] = "moving" /\ done'[x] = now
    /\ rundir[x] = "sealed" /\ rundir'[x] # "sealed" =>
          \/ cleaner.pc = "runs" /\ x \notin cleaner.runs
          \/ \E i \in items' : i.kind = "run" /\ i.run = x

(* Every step is such a step.                                                 *)
LEMMA SealStep ==
    ASSUME TypeOK, [Next]_vars
    PROVE  SealSteps
<1>1. ASSUME UNCHANGED <<rundir, done>> PROVE SealSteps
  BY <1>1 DEF SealSteps
<1>2. ASSUME NEW r \in Runs,
             Start(r) \/ StartRefused(r) \/ Stage(r) \/ CheckObjects(r)
             \/ Release(r) \/ VerifyPublished(r) \/ VerifyPublishedFails(r)
             \/ PublicationFails(r) \/ ShelveStage(r) \/ ShelveManifest(r)
             \/ ShelvingFails(r) \/ Kill(r) \/ Record(r)
             \/ WithdrawOperation(r) \/ ReadFails(r)
             \/ QuarantineRunManifest(r) \/ Attest(r)
      PROVE  SealSteps
  BY <1>1, <1>2 DEF Start, StartRefused, Stage, CheckObjects, Release,
     VerifyPublished, VerifyPublishedFails, PublicationFails, ShelveStage,
     ShelveManifest, ShelvingFails, Kill, Record, WithdrawOperation,
     ReadFails, QuarantineRunManifest, Attest, PubStep, pubVars, bundleVars,
     coreVars
<1>3. ASSUME NEW r \in Runs, NEW o \in Objects,
             MoveObject(r, o)
      PROVE  SealSteps
  BY <1>1, <1>3 DEF MoveObject, pubVars, bundleVars, coreVars
<1>4. ASSUME NEW r \in Runs, NEW o \in Objects,
             ShelveObject(r, o)
      PROVE  SealSteps
  BY <1>1, <1>4 DEF ShelveObject, pubVars, bundleVars, coreVars
<1>5. ASSUME NEW r \in Runs, NEW k \in Kinds,
             SweepItem(k, r)
      PROVE  SealSteps
  BY <1>1, <1>5 DEF SweepItem, pubVars, bundleVars, coreVars
<1>6. ASSUME NEW o \in Objects,
             SweepObject(o) \/ Damage(o)
      PROVE  SealSteps
  BY <1>1, <1>6 DEF SweepObject, Damage, pubVars, bundleVars, coreVars
<1>7. ASSUME Register \/ BeginCleanup \/ ReadManifests \/ ListObjects
             \/ ListItems \/ CleanupSucceeds \/ CleanupStops \/ Tick
      PROVE  SealSteps
  BY <1>1, <1>7 DEF Register, BeginCleanup, ReadManifests, ListObjects,
     ListItems, CleanupSucceeds, CleanupStops, Tick, pubVars, bundleVars,
     coreVars
<1>8. ASSUME NEW r \in Runs, MakeRunDirectory(r) PROVE SealSteps
  BY <1>8 DEF MakeRunDirectory, PubStep, pubVars, bundleVars, coreVars,
     SealSteps, TypeOK, RunEligible
<1>9. ASSUME NEW r \in Runs, Seal(r) PROVE SealSteps
  BY <1>9 DEF Seal, PubStep, pubVars, bundleVars, coreVars, SealSteps,
     TypeOK, RunEligible
<1>10. ASSUME NEW r \in Runs, ClosePublication(r) PROVE SealSteps
  <2>1. /\ rundir' = rundir \/ (rundir[r] = "empty" /\ rundir' = [rundir EXCEPT ![r] = "none"])
        /\ done' = done
    BY <1>10 DEF ClosePublication
  <2> QED BY <2>1 DEF SealSteps, TypeOK
<1>11. ASSUME NEW r \in Runs, QuarantineRun(r) PROVE SealSteps
  <2>1. \/ rundir' = rundir
        \/ /\ rundir' = [rundir EXCEPT ![r] = "none"]
           /\ items' = items \union {NewItem("run", r, FALSE)}
    BY <1>11 DEF QuarantineRun
  <2>2. done' = done
    BY <1>11 DEF QuarantineRun
  <2>3. LET n == NewItem("run", r, FALSE) IN n.kind = "run" /\ n.run = r
    BY DEF NewItem
  <2> QED BY <2>1, <2>2, <2>3 DEF SealSteps, TypeOK
<1>12. ASSUME NEW r \in Runs, SweepRun(r) PROVE SealSteps
  BY <1>12 DEF SweepRun, PubStep, pubVars, bundleVars, coreVars, SealSteps,
     TypeOK, RunEligible
<1>13. CASE UNCHANGED vars
  BY <1>1, <1>13 DEF vars, pubVars, bundleVars, coreVars
<1> QED BY <1>2, <1>3, <1>4, <1>5, <1>6, <1>7, <1>8, <1>9, <1>10, <1>11,
       <1>12, <1>13 DEF Next, Publish, Read, Cleanup

(* An object leaves the store when a publisher takes it back or when the      *)
(* retention of a command that does not pin it deletes it.                     *)
StoreSteps ==
  \A x \in Objects : store[x] # "absent" =>
    \/ store'[x] # "absent"
    \/ \E q \in Runs : pub[q] = "shelving" /\ x \in left[q]
    \/ cleaner.pc = "objects" /\ x \notin cleaner.objects

(* Every step is such a step.                                                 *)
LEMMA StoreStep ==
    ASSUME TypeOK, [Next]_vars
    PROVE  StoreSteps
<1>1. ASSUME UNCHANGED <<store>> PROVE StoreSteps
  BY <1>1 DEF StoreSteps
<1>2. ASSUME NEW r \in Runs,
             Start(r) \/ StartRefused(r) \/ Stage(r) \/ CheckObjects(r)
             \/ MakeRunDirectory(r) \/ Seal(r) \/ Release(r)
             \/ VerifyPublished(r) \/ VerifyPublishedFails(r)
             \/ PublicationFails(r) \/ ShelveStage(r) \/ ShelveManifest(r)
             \/ ShelvingFails(r) \/ ClosePublication(r) \/ Kill(r) \/ Record(r)
             \/ WithdrawOperation(r) \/ ReadFails(r) \/ QuarantineRun(r)
             \/ QuarantineRunManifest(r) \/ Attest(r) \/ SweepRun(r)
      PROVE  StoreSteps
  BY <1>1, <1>2 DEF Start, StartRefused, Stage, CheckObjects,
     MakeRunDirectory, Seal, Release, VerifyPublished, VerifyPublishedFails,
     PublicationFails, ShelveStage, ShelveManifest, ShelvingFails,
     ClosePublication, Kill, Record, WithdrawOperation, ReadFails,
     QuarantineRun, QuarantineRunManifest, Attest, SweepRun, PubStep,
     pubVars, bundleVars, coreVars
<1>3. ASSUME NEW r \in Runs, NEW k \in Kinds,
             SweepItem(k, r)
      PROVE  StoreSteps
  BY <1>1, <1>3 DEF SweepItem, pubVars, bundleVars, coreVars
<1>4. ASSUME Register \/ BeginCleanup \/ ReadManifests \/ ListObjects
             \/ ListItems \/ CleanupSucceeds \/ CleanupStops \/ Tick
      PROVE  StoreSteps
  BY <1>1, <1>4 DEF Register, BeginCleanup, ReadManifests, ListObjects,
     ListItems, CleanupSucceeds, CleanupStops, Tick, pubVars, bundleVars,
     coreVars
<1>5. ASSUME NEW r \in Runs, NEW o \in Objects, MoveObject(r, o) PROVE StoreSteps
  BY <1>5 DEF MoveObject, PubStep, pubVars, bundleVars, coreVars, StoreSteps,
     TypeOK
<1>6. ASSUME NEW r \in Runs, NEW o \in Objects, ShelveObject(r, o) PROVE StoreSteps
  BY <1>6 DEF ShelveObject, PubStep, pubVars, bundleVars, coreVars,
     StoreSteps, TypeOK
<1>7. ASSUME NEW o \in Objects, SweepObject(o) PROVE StoreSteps
  BY <1>7 DEF SweepObject, PubStep, pubVars, bundleVars, coreVars,
     StoreSteps, TypeOK
<1>8. ASSUME NEW o \in Objects, Damage(o) PROVE StoreSteps
  BY <1>8 DEF Damage, PubStep, pubVars, bundleVars, coreVars, StoreSteps,
     TypeOK
<1>9. CASE UNCHANGED vars
  BY <1>1, <1>9 DEF vars, pubVars, bundleVars, coreVars
<1> QED BY <1>2, <1>3, <1>4, <1>5, <1>6, <1>7, <1>8, <1>9 DEF Next, Publish,
       Read, Cleanup

(* An object becomes provisional only when a publisher finds it absent.       *)
ProvisionalSteps == \A x \in Provisional' : x \in Provisional \/ store[x] = "absent"

(* Every step is such a step.                                                 *)
LEMMA ProvisionalStep ==
    ASSUME TypeOK, MaterialInv, [Next]_vars
    PROVE  ProvisionalSteps
<1>1. ASSUME UNCHANGED <<pub, moved>> PROVE ProvisionalSteps
  BY <1>1 DEF ProvisionalSteps, Provisional
<1>2. ASSUME NEW r \in Runs,
             Record(r) \/ WithdrawOperation(r) \/ ReadFails(r)
             \/ QuarantineRun(r) \/ QuarantineRunManifest(r) \/ Attest(r)
             \/ SweepRun(r)
      PROVE  ProvisionalSteps
  BY <1>1, <1>2 DEF Record, WithdrawOperation, ReadFails, QuarantineRun,
     QuarantineRunManifest, Attest, SweepRun, pubVars, bundleVars, coreVars
<1>3. ASSUME NEW r \in Runs, NEW o \in Objects,
             ShelveObject(r, o)
      PROVE  ProvisionalSteps
  BY <1>1, <1>3 DEF ShelveObject, pubVars, bundleVars, coreVars
<1>4. ASSUME NEW r \in Runs, NEW k \in Kinds,
             SweepItem(k, r)
      PROVE  ProvisionalSteps
  BY <1>1, <1>4 DEF SweepItem, pubVars, bundleVars, coreVars
<1>5. ASSUME NEW o \in Objects,
             SweepObject(o) \/ Damage(o)
      PROVE  ProvisionalSteps
  BY <1>1, <1>5 DEF SweepObject, Damage, pubVars, bundleVars, coreVars
<1>6. ASSUME Register \/ BeginCleanup \/ ReadManifests \/ ListObjects
             \/ ListItems \/ CleanupSucceeds \/ CleanupStops \/ Tick
      PROVE  ProvisionalSteps
  BY <1>1, <1>6 DEF Register, BeginCleanup, ReadManifests, ListObjects,
     ListItems, CleanupSucceeds, CleanupStops, Tick, pubVars, bundleVars,
     coreVars
<1>7. ASSUME NEW r \in Runs, Start(r) PROVE ProvisionalSteps
  BY <1>7 DEF Start, PubStep, pubVars, bundleVars, coreVars,
     ProvisionalSteps, Provisional, MaterialInv, TypeOK
<1>8. ASSUME NEW r \in Runs, StartRefused(r) PROVE ProvisionalSteps
  BY <1>8 DEF StartRefused, PubStep, pubVars, bundleVars, coreVars,
     ProvisionalSteps, Provisional, MaterialInv, TypeOK
<1>9. ASSUME NEW r \in Runs, Stage(r) PROVE ProvisionalSteps
  BY <1>9 DEF Stage, PubStep, pubVars, bundleVars, coreVars,
     ProvisionalSteps, Provisional, MaterialInv, TypeOK
<1>10. ASSUME NEW r \in Runs, CheckObjects(r) PROVE ProvisionalSteps
  BY <1>10 DEF CheckObjects, PubStep, pubVars, bundleVars, coreVars,
     ProvisionalSteps, Provisional, MaterialInv, TypeOK
<1>11. ASSUME NEW r \in Runs, MakeRunDirectory(r) PROVE ProvisionalSteps
  BY <1>11 DEF MakeRunDirectory, PubStep, pubVars, bundleVars, coreVars,
     ProvisionalSteps, Provisional, MaterialInv, TypeOK
<1>12. ASSUME NEW r \in Runs, Seal(r) PROVE ProvisionalSteps
  BY <1>12 DEF Seal, PubStep, pubVars, bundleVars, coreVars,
     ProvisionalSteps, Provisional, MaterialInv, TypeOK
<1>13. ASSUME NEW r \in Runs, Release(r) PROVE ProvisionalSteps
  BY <1>13 DEF Release, PubStep, pubVars, bundleVars, coreVars,
     ProvisionalSteps, Provisional, MaterialInv, TypeOK
<1>14. ASSUME NEW r \in Runs, VerifyPublished(r) PROVE ProvisionalSteps
  BY <1>14 DEF VerifyPublished, PubStep, pubVars, bundleVars, coreVars,
     ProvisionalSteps, Provisional, MaterialInv, TypeOK
<1>15. ASSUME NEW r \in Runs, VerifyPublishedFails(r) PROVE ProvisionalSteps
  BY <1>15 DEF VerifyPublishedFails, PubStep, pubVars, bundleVars, coreVars,
     ProvisionalSteps, Provisional, MaterialInv, TypeOK
<1>16. ASSUME NEW r \in Runs, PublicationFails(r) PROVE ProvisionalSteps
  BY <1>16 DEF PublicationFails, PubStep, pubVars, bundleVars, coreVars,
     ProvisionalSteps, Provisional, MaterialInv, TypeOK
<1>17. ASSUME NEW r \in Runs, ShelveStage(r) PROVE ProvisionalSteps
  BY <1>17 DEF ShelveStage, PubStep, pubVars, bundleVars, coreVars,
     ProvisionalSteps, Provisional, MaterialInv, TypeOK
<1>18. ASSUME NEW r \in Runs, ShelveManifest(r) PROVE ProvisionalSteps
  BY <1>18 DEF ShelveManifest, PubStep, pubVars, bundleVars, coreVars,
     ProvisionalSteps, Provisional, MaterialInv, TypeOK
<1>19. ASSUME NEW r \in Runs, ShelvingFails(r) PROVE ProvisionalSteps
  BY <1>19 DEF ShelvingFails, PubStep, pubVars, bundleVars, coreVars,
     ProvisionalSteps, Provisional, MaterialInv, TypeOK
<1>20. ASSUME NEW r \in Runs, ClosePublication(r) PROVE ProvisionalSteps
  BY <1>20 DEF ClosePublication, PubStep, pubVars, bundleVars, coreVars,
     ProvisionalSteps, Provisional, MaterialInv, TypeOK
<1>21. ASSUME NEW r \in Runs, Kill(r) PROVE ProvisionalSteps
  BY <1>21 DEF Kill, PubStep, pubVars, bundleVars, coreVars,
     ProvisionalSteps, Provisional, MaterialInv, TypeOK
<1>22. ASSUME NEW r \in Runs, NEW o \in Objects, MoveObject(r, o) PROVE ProvisionalSteps
  <2>1. /\ pub' = pub /\ pub[r] = "moving"
        /\ moved' = moved \/ (store[o] = "absent" /\ moved' = [moved EXCEPT ![r] = @ \union {o}])
    BY <1>22 DEF MoveObject
  <2>2. \A q \in Runs : moved'[q] \subseteq moved[q] \union {o} /\ (moved'[q] # moved[q] => store[o] = "absent")
    BY <2>1 DEF TypeOK
  <2> QED BY <2>1, <2>2 DEF ProvisionalSteps, Provisional
<1>23. CASE UNCHANGED vars
  BY <1>1, <1>23 DEF vars, pubVars, bundleVars, coreVars
<1> QED BY <1>2, <1>3, <1>4, <1>5, <1>6, <1>7, <1>8, <1>9, <1>10, <1>11,
       <1>12, <1>13, <1>14, <1>15, <1>16, <1>17, <1>18, <1>19, <1>20, <1>21,
       <1>22, <1>23 DEF Next, Publish, Read, Cleanup

(* What names a run goes on naming it.                                        *)
NamedSteps == Named \subseteq Named'

(* Rows and the registry only grow.                                           *)
LEMMA NamingStep ==
    ASSUME TypeOK, [Next]_vars
    PROVE  recorded \subseteq recorded' /\ (registry # NoRun => registry' = registry)
<1>1. ASSUME UNCHANGED <<recorded, registry>>
      PROVE  recorded \subseteq recorded' /\ (registry # NoRun => registry' = registry)
  BY <1>1
<1>2. ASSUME NEW r \in Runs,
             Start(r) \/ StartRefused(r) \/ Stage(r) \/ CheckObjects(r)
             \/ MakeRunDirectory(r) \/ Seal(r) \/ Release(r)
             \/ VerifyPublished(r) \/ VerifyPublishedFails(r)
             \/ PublicationFails(r) \/ ShelveStage(r) \/ ShelveManifest(r)
             \/ ShelvingFails(r) \/ ClosePublication(r) \/ Kill(r)
             \/ WithdrawOperation(r) \/ ReadFails(r) \/ QuarantineRun(r)
             \/ QuarantineRunManifest(r) \/ Attest(r) \/ SweepRun(r)
      PROVE  recorded \subseteq recorded' /\ (registry # NoRun => registry' = registry)
  BY <1>1, <1>2 DEF Start, StartRefused, Stage, CheckObjects,
     MakeRunDirectory, Seal, Release, VerifyPublished, VerifyPublishedFails,
     PublicationFails, ShelveStage, ShelveManifest, ShelvingFails,
     ClosePublication, Kill, WithdrawOperation, ReadFails, QuarantineRun,
     QuarantineRunManifest, Attest, SweepRun, PubStep, pubVars, bundleVars,
     coreVars
<1>3. ASSUME NEW r \in Runs, NEW o \in Objects,
             MoveObject(r, o)
      PROVE  recorded \subseteq recorded' /\ (registry # NoRun => registry' = registry)
  BY <1>1, <1>3 DEF MoveObject, pubVars, bundleVars, coreVars
<1>4. ASSUME NEW r \in Runs, NEW o \in Objects,
             ShelveObject(r, o)
      PROVE  recorded \subseteq recorded' /\ (registry # NoRun => registry' = registry)
  BY <1>1, <1>4 DEF ShelveObject, pubVars, bundleVars, coreVars
<1>5. ASSUME NEW r \in Runs, NEW k \in Kinds,
             SweepItem(k, r)
      PROVE  recorded \subseteq recorded' /\ (registry # NoRun => registry' = registry)
  BY <1>1, <1>5 DEF SweepItem, pubVars, bundleVars, coreVars
<1>6. ASSUME NEW o \in Objects,
             SweepObject(o) \/ Damage(o)
      PROVE  recorded \subseteq recorded' /\ (registry # NoRun => registry' = registry)
  BY <1>1, <1>6 DEF SweepObject, Damage, pubVars, bundleVars, coreVars
<1>7. ASSUME BeginCleanup \/ ReadManifests \/ ListObjects \/ ListItems
             \/ CleanupSucceeds \/ CleanupStops \/ Tick
      PROVE  recorded \subseteq recorded' /\ (registry # NoRun => registry' = registry)
  BY <1>1, <1>7 DEF BeginCleanup, ReadManifests, ListObjects, ListItems,
     CleanupSucceeds, CleanupStops, Tick, pubVars, bundleVars, coreVars
<1>8. ASSUME NEW r \in Runs, Record(r)
      PROVE  recorded \subseteq recorded' /\ (registry # NoRun => registry' = registry)
  BY <1>8 DEF Record, PubStep, pubVars, bundleVars, coreVars, Named
<1>9. ASSUME Register PROVE recorded \subseteq recorded' /\ (registry # NoRun => registry' = registry)
  BY <1>9 DEF Register, PubStep, pubVars, bundleVars, coreVars, Named
<1>10. CASE UNCHANGED vars
  BY <1>1, <1>10 DEF vars, pubVars, bundleVars, coreVars
<1> QED BY <1>2, <1>3, <1>4, <1>5, <1>6, <1>7, <1>8, <1>9, <1>10 DEF Next,
       Publish, Read, Cleanup

(* So the named runs only grow.                                                *)
LEMMA NamedStep ==
    ASSUME TypeOK, [Next]_vars
    PROVE  NamedSteps
<1>1. Forward
  BY PubForward
<1>2. recorded \subseteq recorded' /\ (registry # NoRun => registry' = registry)
  BY NamingStep
<1>3. \A x \in Runs : pub[x] # "idle" => pub'[x] # "idle"
  BY <1>1 DEF Forward
<1> QED BY <1>2, <1>3 DEF NamedSteps, Named

(* A retention command pins what it starts from.                               *)
LEMMA PinsTokens ==
    ASSUME NEW tokens
    PROVE  tokens \intersect Runs \subseteq PinnedRuns(tokens)
BY DEF PinnedRuns

(* Every step keeps the pins of a retention command.                          *)
LEMMA NextClean ==
    ASSUME TypeOK, PubInv, CleanInv, EvidenceInv, [Next]_vars
    PROVE  CleanInv'
<1>1. ASSUME UNCHANGED <<now, cleaner, evidence>> PROVE CleanInv'
  <2>1. \A x \in Runs : rundir'[x] = "sealed" =>
           \/ rundir[x] = "sealed" /\ done'[x] = done[x]
           \/ pub[x] = "moving" /\ done'[x] = now
    BY SealStep DEF SealSteps
  <2>2. \A x \in evidence : x \in Runs /\ pub[x] # "moving"
    BY DEF EvidenceInv, Over, TypeOK
  <2>3. Named \subseteq Named'
    BY NamedStep DEF NamedSteps
  <2>4. cleaner.pc # "idle" => cleaner.cutoff < now /\ cleaner.cutoff \in Nat /\ now \in Nat
    BY DEF CleanInv, TypeOK
  <2>5. evidence' \subseteq Named'
    BY <1>1, <2>3 DEF CleanInv
  <2>6. cleaner'.pc # "idle" =>
           cleaner'.cutoff < now' /\ evidence' \subseteq cleaner'.runs
    BY <1>1 DEF CleanInv
  <2>7. cleaner.pc \in {"runs", "objects", "items"} =>
           \A x \in evidence : rundir'[x] = "sealed" => Content[x] \subseteq cleaner.objects
    BY <2>1, <2>2 DEF CleanInv
  <2>8. cleaner.pc \in {"runs", "objects", "items"} =>
           \A x \in Runs \ cleaner.runs :
              rundir'[x] = "sealed" /\ done'[x] <= cleaner.cutoff =>
                 cleaner.pc = "runs" /\ x \in cleaner.todoRuns
    BY <2>1, <2>4 DEF CleanInv
  <2> QED BY <1>1, <2>5, <2>6, <2>7, <2>8 DEF CleanInv
<1>2. ASSUME NEW r \in Runs,
             Start(r) \/ StartRefused(r) \/ Stage(r) \/ CheckObjects(r)
             \/ MakeRunDirectory(r) \/ Seal(r) \/ Release(r)
             \/ VerifyPublished(r) \/ VerifyPublishedFails(r)
             \/ PublicationFails(r) \/ ShelveStage(r) \/ ShelveManifest(r)
             \/ ShelvingFails(r) \/ ClosePublication(r) \/ Kill(r) \/ Record(r)
             \/ WithdrawOperation(r) \/ ReadFails(r) \/ QuarantineRun(r)
             \/ QuarantineRunManifest(r) \/ Attest(r)
      PROVE  CleanInv'
  BY <1>1, <1>2 DEF Start, StartRefused, Stage, CheckObjects,
     MakeRunDirectory, Seal, Release, VerifyPublished, VerifyPublishedFails,
     PublicationFails, ShelveStage, ShelveManifest, ShelvingFails,
     ClosePublication, Kill, Record, WithdrawOperation, ReadFails,
     QuarantineRun, QuarantineRunManifest, Attest, PubStep, pubVars,
     bundleVars, coreVars
<1>3. ASSUME NEW r \in Runs, NEW o \in Objects,
             MoveObject(r, o)
      PROVE  CleanInv'
  BY <1>1, <1>3 DEF MoveObject, pubVars, bundleVars, coreVars
<1>4. ASSUME NEW r \in Runs, NEW o \in Objects,
             ShelveObject(r, o)
      PROVE  CleanInv'
  BY <1>1, <1>4 DEF ShelveObject, pubVars, bundleVars, coreVars
<1>5. ASSUME NEW o \in Objects,
             Damage(o)
      PROVE  CleanInv'
  BY <1>1, <1>5 DEF Damage, pubVars, bundleVars, coreVars
<1>6. ASSUME Register
      PROVE  CleanInv'
  BY <1>1, <1>6 DEF Register, pubVars, bundleVars, coreVars
<1>7. ASSUME BeginCleanup PROVE CleanInv'
  <2>1. UNCHANGED <<now, rundir, done, pub, recorded, registry>>
    BY <1>7 DEF BeginCleanup, pubVars, bundleVars, coreVars
  <2>2. Named' = Named
    BY <2>1 DEF Named
  <2>3. PICK cutoff \in 1 .. now - 1 :
           cleaner' = [cleaner EXCEPT !.pc = "reading", !.cutoff = cutoff, !.runs = Tokens]
    BY <1>7 DEF BeginCleanup
  <2>4. cleaner'.pc = "reading" /\ cleaner'.cutoff = cutoff /\ cleaner'.runs = Tokens
    <3> HIDE DEF Tokens
    <3> QED BY <2>3 DEF TypeOK
  <2>5. cutoff < now
    BY DEF TypeOK
  <2>6. Named \subseteq Tokens
    BY DEF Named, Tokens
  <2>7. evidence' \subseteq Named
    <3>1. \A s \in (recorded \union {registry}) \ {NoRun} : s \in Runs /\ pub[s] # "idle"
      BY DEF PubInv, Over, TypeOK
    <3>2. \A r \in evidence' :
             r \in evidence \/ (r \in Runs /\ \E s \in (recorded \union {registry}) \ {NoRun} :
                                               r \in {s, Reproduces[s]})
      BY <1>7 DEF BeginCleanup
    <3> QED BY <3>1, <3>2, ReproducesAssumption DEF Named, CleanInv
  <2> HIDE DEF Tokens, Named
  <2> QED BY <2>1, <2>2, <2>4, <2>5, <2>6, <2>7 DEF CleanInv
<1>8. ASSUME ReadManifests PROVE CleanInv'
  <2>1. UNCHANGED <<now, evidence, rundir, done, pub, recorded, registry>>
    BY <1>8 DEF ReadManifests, pubVars, bundleVars, coreVars
  <2>2. Named' = Named
    BY <2>1 DEF Named
  <2> DEFINE pinned == PinnedRuns(cleaner.runs)
  <2>3. cleaner' = [cleaner EXCEPT !.pc = "runs", !.runs = pinned,
                      !.objects = PinnedObjects(pinned),
                      !.todoRuns = {x \in Runs : rundir[x] # "none"}]
    BY <1>8 DEF ReadManifests
  <2>4. cleaner.runs \subseteq pinned
    BY PinsTokens DEF TypeOK
  <2>5. \A x \in pinned : rundir[x] = "sealed" => Content[x] \subseteq PinnedObjects(pinned)
    BY DEF PinnedObjects
  <2> HIDE DEF pinned
  <2>6. /\ cleaner'.pc = "runs" /\ cleaner'.runs = pinned
        /\ cleaner'.objects = PinnedObjects(pinned)
        /\ cleaner'.todoRuns = {x \in Runs : rundir[x] # "none"}
        /\ cleaner'.cutoff = cleaner.cutoff
    BY <2>3 DEF TypeOK
  <2>7. cleaner.cutoff < now /\ evidence \subseteq cleaner.runs /\ evidence \subseteq Named
    BY <1>8 DEF ReadManifests, CleanInv
  <2> HIDE DEF Named
  <2> QED BY <2>1, <2>2, <2>4, <2>5, <2>6, <2>7 DEF CleanInv
<1>9. ASSUME ListObjects PROVE CleanInv'
  <2>1. UNCHANGED <<now, evidence, rundir, done, pub, recorded, registry>>
    BY <1>9 DEF ListObjects, pubVars, bundleVars, coreVars
  <2>2. Named' = Named
    BY <2>1 DEF Named
  <2>3. /\ cleaner.pc = "runs" /\ cleaner'.pc = "objects" /\ cleaner.todoRuns = {}
        /\ cleaner'.todoRuns = cleaner.todoRuns
        /\ cleaner'.runs = cleaner.runs /\ cleaner'.objects = cleaner.objects
        /\ cleaner'.cutoff = cleaner.cutoff
    BY <1>9 DEF ListObjects, TypeOK
  <2> HIDE DEF Named
  <2> QED BY <2>1, <2>2, <2>3 DEF CleanInv
<1>10. ASSUME ListItems PROVE CleanInv'
  <2>1. UNCHANGED <<now, evidence, rundir, done, pub, recorded, registry>>
    BY <1>10 DEF ListItems, pubVars, bundleVars, coreVars
  <2>2. Named' = Named
    BY <2>1 DEF Named
  <2>3. /\ cleaner.pc = "objects" /\ cleaner'.pc = "items" 
        /\ cleaner'.todoRuns = cleaner.todoRuns
        /\ cleaner'.runs = cleaner.runs /\ cleaner'.objects = cleaner.objects
        /\ cleaner'.cutoff = cleaner.cutoff
    BY <1>10 DEF ListItems, TypeOK
  <2> HIDE DEF Named
  <2> QED BY <2>1, <2>2, <2>3 DEF CleanInv
<1>11. ASSUME CleanupSucceeds PROVE CleanInv'
  <2>1. UNCHANGED <<now, evidence, rundir, done, pub, recorded, registry>>
    BY <1>11 DEF CleanupSucceeds, pubVars, bundleVars, coreVars
  <2>2. Named' = Named
    BY <2>1 DEF Named
  <2>3. cleaner'.pc = "idle"
    BY <1>11 DEF CleanupSucceeds, Done, NoCleanup
  <2> HIDE DEF Named
  <2> QED BY <2>1, <2>2, <2>3 DEF CleanInv
<1>12. ASSUME CleanupStops PROVE CleanInv'
  <2>1. UNCHANGED <<now, evidence, rundir, done, pub, recorded, registry>>
    BY <1>12 DEF CleanupStops, pubVars, bundleVars, coreVars
  <2>2. Named' = Named
    BY <2>1 DEF Named
  <2>3. cleaner'.pc = "idle"
    BY <1>12 DEF CleanupStops, Done, NoCleanup
  <2> HIDE DEF Named
  <2> QED BY <2>1, <2>2, <2>3 DEF CleanInv
<1>13. ASSUME NEW r \in Runs, SweepRun(r) PROVE CleanInv'
  <2>1. UNCHANGED <<now, evidence, done, pub, recorded, registry>>
    BY <1>13 DEF SweepRun, pubVars, coreVars
  <2>2. Named' = Named
    BY <2>1 DEF Named
  <2>3. /\ cleaner.pc = "runs" /\ cleaner'.pc = "runs"
        /\ cleaner'.todoRuns = cleaner.todoRuns \ {r}
        /\ cleaner'.runs = cleaner.runs /\ cleaner'.objects = cleaner.objects
        /\ cleaner'.cutoff = cleaner.cutoff
    BY <1>13 DEF SweepRun, TypeOK
  <2>4. \A x \in Runs : rundir'[x] = "sealed" => rundir[x] = "sealed"
    BY <1>13 DEF SweepRun, TypeOK
  <2>5. r \notin cleaner.runs /\ rundir[r] = "sealed" /\ done[r] <= cleaner.cutoff =>
           rundir'[r] = "none"
    BY <1>13 DEF SweepRun, RunEligible, TypeOK
  <2>6. /\ evidence \subseteq Named /\ cleaner.cutoff < now
        /\ evidence \subseteq cleaner.runs
        /\ \A x \in evidence : rundir[x] = "sealed" => Content[x] \subseteq cleaner.objects
        /\ \A x \in Runs \ cleaner.runs :
              rundir[x] = "sealed" /\ done[x] <= cleaner.cutoff => x \in cleaner.todoRuns
    BY <2>3 DEF CleanInv
  <2>7. \A x \in Runs \ cleaner.runs :
           rundir'[x] = "sealed" /\ done[x] <= cleaner.cutoff => x \in cleaner.todoRuns \ {r}
    BY <2>4, <2>5, <2>6
  <2>8. \A x \in evidence : rundir'[x] = "sealed" => Content[x] \subseteq cleaner.objects
    BY <2>4, <2>6 DEF TypeOK
  <2> HIDE DEF Named
  <2> QED BY <2>1, <2>2, <2>3, <2>6, <2>7, <2>8 DEF CleanInv
<1>14. ASSUME NEW o \in Objects, SweepObject(o) PROVE CleanInv'
  <2>1. UNCHANGED <<now, evidence, rundir, done, pub, recorded, registry>>
    BY <1>14 DEF SweepObject, pubVars, bundleVars, coreVars
  <2>2. Named' = Named
    BY <2>1 DEF Named
  <2>3. /\ cleaner.pc = "objects" /\ cleaner'.pc = "objects" 
        /\ cleaner'.todoRuns = cleaner.todoRuns
        /\ cleaner'.runs = cleaner.runs /\ cleaner'.objects = cleaner.objects
        /\ cleaner'.cutoff = cleaner.cutoff
    BY <1>14 DEF SweepObject, TypeOK
  <2> HIDE DEF Named
  <2> QED BY <2>1, <2>2, <2>3 DEF CleanInv
<1>15. ASSUME NEW r \in Runs, NEW k \in Kinds, SweepItem(k, r) PROVE CleanInv'
  <2>1. UNCHANGED <<now, evidence, rundir, done, pub, recorded, registry>>
    BY <1>15 DEF SweepItem, pubVars, bundleVars, coreVars
  <2>2. Named' = Named
    BY <2>1 DEF Named
  <2>3. /\ cleaner.pc = "items" /\ cleaner'.pc = "items" 
        /\ cleaner'.todoRuns = cleaner.todoRuns
        /\ cleaner'.runs = cleaner.runs /\ cleaner'.objects = cleaner.objects
        /\ cleaner'.cutoff = cleaner.cutoff
    BY <1>15 DEF SweepItem, TypeOK
  <2> HIDE DEF Named
  <2> QED BY <2>1, <2>2, <2>3 DEF CleanInv
<1>16. ASSUME Tick PROVE CleanInv'
  <2>1. cleaner.pc = "idle" /\ UNCHANGED <<cleaner, evidence>>
    BY <1>16 DEF Tick
  <2>2. Named \subseteq Named'
    BY NamedStep DEF NamedSteps
  <2> HIDE DEF Named
  <2> QED BY <2>1, <2>2 DEF CleanInv
<1>17. CASE UNCHANGED vars
  BY <1>1, <1>17 DEF vars, pubVars, bundleVars, coreVars
<1> QED BY <1>2, <1>3, <1>4, <1>5, <1>6, <1>7, <1>8, <1>9, <1>10, <1>11,
       <1>12, <1>13, <1>14, <1>15, <1>16, <1>17 DEF Next, Publish, Read,
       Cleanup

(* Every step keeps the evidence: the pins protect it from the sweeps, and no  *)
(* publisher takes back an object of it.                                       *)
LEMMA NextEvidence ==
    ASSUME TypeOK, PubInv, ItemInv, MaterialInv, CleanInv, EvidenceInv, [Next]_vars
    PROVE  EvidenceInv'
<1>1. Forward /\ ItemSteps /\ SealSteps /\ StoreSteps /\ ProvisionalSteps
  BY PubForward, ItemStep, SealStep, StoreStep, ProvisionalStep
<1>2. evidence' = evidence \/ BeginCleanup
  BY DEF Next, Publish, Read, Cleanup, vars, pubVars, bundleVars, coreVars,
         Start, StartRefused, Stage, CheckObjects, MakeRunDirectory, Seal,
         Release, VerifyPublished, VerifyPublishedFails, PublicationFails,
         ShelveStage, ShelveManifest, ShelvingFails, ClosePublication, Kill,
         MoveObject, ShelveObject, Record, WithdrawOperation, ReadFails,
         QuarantineRun, QuarantineRunManifest, Attest, Register,
         ReadManifests, ListObjects, ListItems, CleanupSucceeds, CleanupStops,
         SweepRun, SweepObject, SweepItem, Damage, Tick
<1>3. ASSUME NEW r \in evidence
      PROVE  /\ pub'[r] \in Over
             /\ IF rundir'[r] = "sealed"
                THEN \A o \in Content[r] : store'[o] # "absent" /\ o \notin Provisional'
                ELSE \E i \in items' : i.kind = "run" /\ i.run = r
  <2>1. r \in Runs /\ pub[r] \in Over /\ (cleaner.pc # "idle" => r \in cleaner.runs)
    BY DEF EvidenceInv, CleanInv, TypeOK
  <2>2. pub'[r] \in Over /\ pub[r] # "moving"
    BY <1>1, <2>1 DEF Forward, Over
  <2>3. CASE rundir'[r] = "sealed"
    <3>1. rundir[r] = "sealed"
      BY <1>1, <2>1, <2>2, <2>3 DEF SealSteps
    <3>2. ASSUME NEW o \in Content[r]
          PROVE  store'[o] # "absent" /\ o \notin Provisional'
      <4>1. o \in Objects /\ store[o] # "absent" /\ o \notin Provisional
        BY <2>1, <3>1, ContentAssumption DEF EvidenceInv
      <4>2. ~ (\E q \in Runs : pub[q] = "shelving" /\ o \in left[q])
        BY <4>1 DEF MaterialInv, Provisional
      <4>3. ~ (cleaner.pc = "objects" /\ o \notin cleaner.objects)
        BY <3>1 DEF CleanInv
      <4> QED BY <1>1, <4>1, <4>2, <4>3 DEF StoreSteps, ProvisionalSteps
    <3> QED BY <2>2, <2>3, <3>2
  <2>4. CASE rundir'[r] # "sealed" /\ rundir[r] = "sealed"
    BY <1>1, <2>1, <2>2, <2>4 DEF SealSteps
  <2>5. CASE rundir'[r] # "sealed" /\ rundir[r] # "sealed"
    <3>1. PICK j \in items : j.kind = "run" /\ j.run = r
      BY <2>5 DEF EvidenceInv, Of
    <3>2. ~ Swept(j)
      BY <2>1, <3>1 DEF Swept
    <3>3. \E i \in items' : i.kind = "run" /\ i.run = r
      BY <1>1, <3>1, <3>2 DEF ItemSteps, Stands
    <3> QED BY <2>2, <2>5, <3>3
  <2> QED BY <2>3, <2>4, <2>5
<1>4. CASE evidence' = evidence
  BY <1>3, <1>4 DEF EvidenceInv, Of
<1>5. CASE BeginCleanup
  <2>1. UNCHANGED <<pub, moved, rundir, store, items>>
    BY <1>5 DEF BeginCleanup, pubVars, bundleVars
  <2>2. Provisional' = Provisional
    BY <2>1 DEF Provisional
  <2>3. \A r \in evidence' : r \in evidence \/
           (/\ r \in Runs /\ rundir[r] = "sealed"
            /\ \A o \in Content[r] : store[o] # "absent" /\ o \notin Provisional)
    BY <1>5 DEF BeginCleanup
  <2>4. \A r \in evidence' \ evidence : pub[r] \in Over
    BY <2>3 DEF PubInv
  <2> HIDE DEF Provisional
  <2> QED BY <2>1, <2>2, <2>3, <2>4 DEF EvidenceInv, Of
<1> QED BY <1>2, <1>4, <1>5

-----------------------------------------------------------------------------
(* Every step keeps the invariant.                                            *)
LEMMA NextInv == IInv /\ [Next]_vars => IInv'
<1> SUFFICES ASSUME IInv, [Next]_vars PROVE IInv'
  OBVIOUS
<1>1. /\ TypeOK /\ PubInv /\ ItemInv /\ MaterialInv /\ CleanInv /\ EvidenceInv
      /\ FailureKeepsMaterial
  BY DEF IInv
<1>2. TypeOK' /\ PubInv' /\ ItemInv' /\ MaterialInv'
  BY <1>1, NextTyped, NextPub, NextItems, NextMaterial
<1>3. CleanInv' /\ EvidenceInv' /\ FailureKeepsMaterial'
  BY <1>1, NextClean, NextEvidence, NextFailure
<1> QED BY <1>2, <1>3 DEF IInv

(* The invariant of the artifact root, for every number of runs, objects,     *)
(* periods, damages and retention commands.                                    *)
THEOREM PublicationInvariant == Spec => []IInv
<1> QED BY InitInv, NextInv, PTL DEF Spec

(* Every reachable state of the artifact root has its types.                  *)
THEOREM PublicationTyped == Spec => []TypeOK
<1>1. IInv => TypeOK
  BY DEF IInv
<1> QED BY <1>1, PublicationInvariant, PTL

(* A whole run that was pinned when a retention command read its pins keeps    *)
(* its manifest and its objects or stands in quarantine, whatever publishers,  *)
(* readers and later commands do (cleanup_artifacts, build_artifact_pin_set).  *)
THEOREM EvidenceStays == Spec => []PinnedEvidenceStays
<1>1. IInv => PinnedEvidenceStays
  BY DEF IInv, EvidenceInv, PinnedEvidenceStays
<1> QED BY <1>1, PublicationInvariant, PTL

(* The quarantine item of a failed publication holds every object that its     *)
(* publisher had moved, once its manifest is written (_quarantine_path).        *)
THEOREM MaterialKept == Spec => []FailureKeepsMaterial
<1>1. IInv => FailureKeepsMaterial
  BY DEF IInv
<1> QED BY <1>1, PublicationInvariant, PTL

(* No step gives back what a quarantine suppressed: retention deletes an item  *)
(* only after it has deleted the run directory, which is at least as old.      *)
LEMMA MarksHold ==
    ASSUME IInv, [Next]_vars, NEW r \in Runs, Marked(r)
    PROVE  ~ Serves(r)'
<1> SUFFICES ASSUME rundir'[r] = "sealed",
                    \A i \in items' : ~ (i.run = r /\ (i.kind = "run" \/ i.manifest))
             PROVE  FALSE
  BY DEF Serves, Whole, Marked
<1>1. TypeOK /\ PubInv /\ ItemInv /\ CleanInv
  BY DEF IInv
<1>2. ItemSteps /\ SealSteps
  BY <1>1, ItemStep, SealStep
<1>3. PICK j \in items : j.run = r /\ (j.kind = "run" \/ j.manifest)
  BY DEF Marked
<1>4. Swept(j)
  BY <1>2, <1>3 DEF ItemSteps, Stands
<1>5. pub[r] \in Settled /\ done[r] <= j.at /\ j.at <= cleaner.cutoff
  BY <1>1, <1>3, <1>4 DEF ItemInv, Swept
<1>6. rundir[r] = "sealed"
  BY <1>2, <1>5 DEF SealSteps, Settled, Over
<1>7. done[r] <= cleaner.cutoff
  <2>1. done[r] \in Nat /\ j.at \in Nat /\ cleaner.cutoff \in Nat
    BY <1>1 DEF TypeOK, Item
  <2> QED BY <1>5, <2>1
<1> QED BY <1>1, <1>3, <1>4, <1>6, <1>7 DEF CleanInv, Swept

(* What a quarantine marks is not served in the next state either.            *)
THEOREM WithdrawnStaysUnserved == Spec => WithdrawnNeverServed
<1>1. IInv /\ [Next]_vars => [\A r \in Runs : Marked(r) => ~ Serves(r)']_vars
  BY MarksHold
<1> QED BY <1>1, PublicationInvariant, PTL DEF Spec, WithdrawnNeverServed

=============================================================================
