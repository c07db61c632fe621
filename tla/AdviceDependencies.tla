-------------------------- MODULE AdviceDependencies --------------------------
(***************************************************************************)
(* What keeps published advice current: the governed records it consumed,  *)
(* compared with their live resolutions, and the horizons of the           *)
(* operational facts it consumed (backend/app/                             *)
(* decision_support_currentness.py).                                       *)
(*                                                                         *)
(* A dependency is [kind, id, hash, option, mode, disposition, flags,      *)
(* replaced]; id stands for identifier and version, flags is the function  *)
(* from the lifecycle fields it carries to their truth, and replaced says  *)
(* that it names a successor.                                              *)
(***************************************************************************)
EXTENDS Integers, FiniteSets

NO_EXPIRY == -1

LifecycleFields ==
    {"applicable", "effective", "fully_specified", "retired", "supported",
     "unique_unsuperseded_head", "known_result", "satisfied_result", "supported_result"}

RequiredByKind ==
    [INTERVENTION_LIBRARY_VERSION           |-> {"unique_unsuperseded_head", "supported"},
     INTERVENTION_OPTION_VERSION            |-> {"effective", "unique_unsuperseded_head"},
     DRIVER_ACTION_LINK_VERSION             |-> {"effective", "unique_unsuperseded_head"},
     MONITORING_ESCALATION_TRIGGER_VERSION  |->
         {"effective", "unique_unsuperseded_head", "applicable"},
     ADVISORY_RUBRIC_VERSION                |->
         {"effective", "unique_unsuperseded_head", "applicable"},
     COMPOSITE_COMPATIBILITY_REVIEW_VERSION |-> {"effective", "unique_unsuperseded_head"},
     GOVERNED_VERSION_ENVELOPE              |-> {}]

Kinds == DOMAIN RequiredByKind

Says(d, field)    == field \in DOMAIN d.flags /\ d.flags[field]
Carries(d, field) == field \in DOMAIN d.flags

SameIdentity(d, e) == d.kind = e.kind /\ d.id = e.id

(* _ordered_dependencies: one resolution for an identity.                  *)
WellOrdered(dependencies) ==
    \A d, e \in dependencies : SameIdentity(d, e) => d = e

-----------------------------------------------------------------------------
(* _dependency_current: the live record is the one consumed, it has no     *)
(* successor, and its standing still supports what it supported then.      *)

Unchanged(consumed, live) ==
    /\ live.id = consumed.id /\ live.hash = consumed.hash
    /\ DOMAIN consumed.flags \subseteq DOMAIN live.flags
    /\ ~live.replaced
    /\ consumed.kind \in Kinds
    /\ RequiredByKind[consumed.kind] \subseteq DOMAIN consumed.flags
    /\ \A f \in DOMAIN consumed.flags : live.flags[f] = consumed.flags[f]

SameDisposition(consumed, live) == live.disposition = consumed.disposition

EnvelopeStands(consumed, live) ==
    /\ SameDisposition(consumed, live)
    /\ Says(consumed, "known_result") => live.disposition = "APPROVED"
    /\ Says(consumed, "known_result") \/ Says(consumed, "applicable")
         => Carries(consumed, "applicable") /\ Says(live, "applicable")

LibraryStands(consumed, live) ==
    /\ Says(live, "unique_unsuperseded_head") /\ Says(live, "supported")
    /\ SameDisposition(consumed, live)

(* A result that rested on the record asks for a standing of its own.      *)
StandsAs(consumed, live, rested, standing) ==
    /\ Says(live, "effective")
    /\ IF rested THEN live.disposition = standing ELSE SameDisposition(consumed, live)

TriggerStands(consumed, live) ==
    /\ StandsAs(consumed, live, Says(consumed, "supported_result"), "APPROVED")
    /\ Says(consumed, "supported_result") =>
         /\ Carries(consumed, "fully_specified") /\ Carries(consumed, "retired")
         /\ Says(live, "fully_specified") /\ ~Says(live, "retired")

CompositeStands(consumed, live) ==
    LET rested == Says(consumed, "satisfied_result") \/ Says(consumed, "known_result")
    IN /\ StandsAs(consumed, live, rested, "APPROVED")
       /\ rested => Carries(consumed, "fully_specified")

DependencyCurrent(consumed, live) ==
    /\ Unchanged(consumed, live)
    /\ CASE consumed.kind = "GOVERNED_VERSION_ENVELOPE" -> EnvelopeStands(consumed, live)
         [] consumed.kind = "INTERVENTION_LIBRARY_VERSION" -> LibraryStands(consumed, live)
         [] consumed.kind = "INTERVENTION_OPTION_VERSION" ->
              StandsAs(consumed, live, Says(consumed, "supported_result"), "ACTIVE")
         [] consumed.kind = "DRIVER_ACTION_LINK_VERSION" ->
              StandsAs(consumed, live, Says(consumed, "supported_result"), "APPROVED")
         [] consumed.kind = "MONITORING_ESCALATION_TRIGGER_VERSION" ->
              TriggerStands(consumed, live)
         [] consumed.kind = "ADVISORY_RUBRIC_VERSION" ->
              StandsAs(consumed, live, Says(consumed, "known_result"), "APPROVED")
         [] OTHER -> CompositeStands(consumed, live)

-----------------------------------------------------------------------------
(* Reasons to withdraw advice.                                             *)

(* _dependency_reasons: a consumed record without a current resolution.    *)
DependencyReasons(consumed, live) ==
    IF \A d \in consumed : \E l \in live : SameIdentity(d, l) /\ DependencyCurrent(d, l)
    THEN {} ELSE {"GOVERNED_DEPENDENCY_NOT_CURRENT"}

(* The first horizon of the consumed facts; horizons are instants.         *)
MinimumHorizon(horizons) ==
    LET finite == horizons \ {NO_EXPIRY}
    IN IF finite = {} THEN NO_EXPIRY
       ELSE CHOOSE h \in finite : \A k \in finite : h <= k

(* _horizon_reasons for advice checked at an instant.                      *)
HorizonReasons(horizons, checkedAt) ==
    IF MinimumHorizon(horizons) # NO_EXPIRY /\ checkedAt > MinimumHorizon(horizons)
    THEN {"OPERATIONAL_FACT_EXPIRED"} ELSE {}

-----------------------------------------------------------------------------
(* _selected_action_recommendation: the recommendation of a selected       *)
(* candidate is bound to exactly one consumed record of each kind it rests *)
(* on, or there is none.                                                   *)

BoundTo(consumed, kind, option, mode) ==
    {d \in consumed : d.kind = kind /\ d.option = option /\ d.mode = mode}

SelectedRecommendationExists(consumed, option, mode) ==
    /\ Cardinality({d \in consumed : d.kind = "INTERVENTION_LIBRARY_VERSION"}) = 1
    /\ Cardinality(BoundTo(consumed, "DRIVER_ACTION_LINK_VERSION", option, mode)) = 1
    /\ option = "ACCEPT_AND_MONITOR" =>
         Cardinality(BoundTo(consumed, "MONITORING_ESCALATION_TRIGGER_VERSION",
                             option, mode)) = 1
=============================================================================
