----------------------------- MODULE CurrentAdvice -----------------------------
(***************************************************************************)
(* The life of the advice of one investigation request in one workspace:   *)
(* decision briefs that publish or withdraw an evaluation, currentness     *)
(* checks bound to one operation, trade-off selection, monitoring matches, *)
(* drafts and manager decisions (backend/app/governance.py,                *)
(* decision_support_heads.py, decision_support_currentness.py, drafts.py,  *)
(* manager_decisions.py and their handlers in main.py).                    *)
(*                                                                         *)
(* The handlers run on one event loop and every store call is one          *)
(* transaction or a few with no wait between them, so a handler is one     *)
(* step; only the preparation of a draft waits, for the drafting provider. *)
(* A refusal (quota, malformed input, lost race, conflict, stored answer   *)
(* of an earlier call) changes nothing and is not a step, with one         *)
(* exception: a call that finds its workspace lapsed retires it in a commit *)
(* that keeps what the call had written, and that ends the life of the     *)
(* advice (Lapsing).                                                       *)
(***************************************************************************)
EXTENDS HistoricalReplay, MonitoringTriggers, AdviceDependencies

CONSTANTS
    Advices,         \* how an evaluation may end: [advice, horizons]
    Consumed,        \* the governed records every evaluation consumes
    Authorities,     \* live resolutions that may be published for them
    Keys,            \* idempotency keys of draft versions
    Actors,          \* manager actor references
    Candidates,      \* the options a trade-off presents
    Offered,         \* the options a delivery attempt may name
    Intents,         \* dispositions managers choose
    Observations,    \* monitoring observations
    Instants,        \* availability times a client may give a render request
    Requests,        \* draft requests that may wait for the provider
    MaxBriefs, MaxChecks, MaxDecisions, MaxChanges, MaxLog   \* bounds

Verdicts == {"RECOMMENDATION", "MONITOR", "TRADEOFF"}
Dispositions == {"NOT_DISPOSED", "APPROVE_INTENT", "REJECTED", "INVESTIGATE_FURTHER"}

ASSUME AdviceAssumption ==
    /\ Advices \subseteq [advice : Verdicts, horizons : SUBSET (Nat \cup {NO_EXPIRY})]
    /\ Candidates \subseteq Offered
    /\ Intents \subseteq Dispositions \ {"NOT_DISPOSED"}
    /\ \A live \in Authorities \cup {Consumed} : WellOrdered(live)
    /\ \A o, p \in Observations : o.ref = p.ref => o = p
    /\ MonitoringAssumption

VARIABLES
    log,        \* audit_events and the rows written with them
    authority,  \* the live resolutions of the consumed records
    expired,    \* <<e, n>>: the horizon of evaluation e passed at length n
    waiting,    \* draft requests that await the provider
    retired,    \* the workspace has lapsed: it serves nobody any more
    changes     \* how often a caller withdrew the head or published live
                \* dependencies (bound)

vars == <<log, authority, expired, waiting, retired, changes>>


All(kinds) == Positions(log, kinds, Len(log))
Late(e) == \E x \in expired : x[1] = e
NoRequest == [key |-> "NONE"]

Init ==
    /\ log = <<>>
    /\ authority = {}
    /\ expired = {}
    /\ waiting = [r \in Requests |-> NoRequest]
    /\ retired = FALSE
    /\ changes = 0

Write(events) ==
    /\ Len(log) + Len(events) <= MaxLog
    /\ log' = log \o events
    /\ Cardinality(Positions(log', {"CHECK"}, MaxLog)) <= MaxChecks

-----------------------------------------------------------------------------
(* Publication and withdrawal.                                             *)

BriefAllowed == Cardinality(All({"BRIEF"})) < MaxBriefs

Brief == [kind |-> "BRIEF"]

(* An evaluation freezes the horizons of the facts it consumed.            *)
Evaluation(a) ==
    [kind |-> "EVALUATION", predecessor |-> Head0(log),
     advice |-> a.advice, horizons |-> a.horizons]

Withdrawal(expected) == [kind |-> "INVALIDATION", predecessor |-> expected]

(* publish_decision_brief with a permitted evaluation: the evaluation      *)
(* succeeds whatever the head is, with fresh live dependencies.            *)
PublishPermittedBrief(a) ==
    /\ BriefAllowed
    /\ Write(<< Evaluation(a), Brief >>)
    /\ authority' = Consumed
    /\ UNCHANGED <<expired, waiting, changes>>

(* publish_decision_brief without permission withdraws an evaluation head. *)
WithdrawalByBrief ==
    IF Head0(log) \in All({"EVALUATION"}) THEN << Withdrawal(Head0(log)) >> ELSE <<>>

PublishDeniedBrief ==
    /\ BriefAllowed
    /\ Write(WithdrawalByBrief \o << Brief >>)
    /\ UNCHANGED <<authority, expired, waiting, changes>>

(* A defect: the head is not compared with the one the caller names.       *)
ExpectedAnyHead(expected) == expected \in All(HeadKinds)

ExpectedHead(expected) == expected \in All(HeadKinds) /\ expected = Head0(log)

(* invalidate_decision_support_evaluation: a caller withdraws the head it  *)
(* names, which may itself be an invalidation.                             *)
Invalidate(expected) ==
    /\ changes < MaxChanges
    /\ ExpectedHead(expected)
    /\ Write(<< Withdrawal(expected) >>)
    /\ changes' = changes + 1
    /\ UNCHANGED <<authority, expired, waiting>>

(* publish_decision_support_currentness_authority.                         *)
PublishAuthority(live) ==
    /\ changes < MaxChanges
    /\ All({"EVALUATION"}) # {}
    /\ live # authority
    /\ authority' = live
    /\ changes' = changes + 1
    /\ UNCHANGED <<log, expired, waiting>>

(* The clock passes the validity horizon of an evaluation.                 *)
HorizonPasses(e) ==
    /\ MinimumHorizon(log[e].horizons) # NO_EXPIRY
    /\ ~Late(e)
    /\ expired' = expired \cup {<<e, Len(log)>>}
    /\ UNCHANGED <<log, authority, waiting, changes>>

-----------------------------------------------------------------------------
(* Currentness checks.  An operation is what its key covers.  Renders and  *)
(* matches are checked at the time their caller gives, the others now.     *)

Operation(use, e, claim, subject, at) ==
    [use |-> use, evaluation |-> e, claim |-> claim, subject |-> subject, at |-> at]

(* The clock is before or after the horizon of an evaluation.              *)
Now(e) == IF Late(e) THEN MinimumHorizon(log[e].horizons) + 1 ELSE 0

ChecksOf(op) == {i \in All({"CHECK"}) : log[i].operation = op}

(* _stored_currentness_authority: none is no answer about consumed records.*)
AuthorityAvailable == Consumed = {} \/ authority # {}

(* A defect: the horizon of the advice is not consulted.                   *)
DependencyReasonsOnly(op) == DependencyReasons(Consumed, authority)

Reasons(op) ==
    DependencyReasons(Consumed, authority)
    \cup HorizonReasons(log[op.evaluation].horizons, op.at)

(* A defect: the check looks at the dependencies and not at the head.      *)
FreshOutcomeOfAnyHead(op) == IF Reasons(op) # {} THEN "INVALIDATED" ELSE "PROVEN"

(* _check_currentness_locked for an operation without a terminal claim.    *)
FreshOutcome(op) ==
    IF Head0(log) # op.evaluation THEN "NOT_AUTHORITATIVE_HEAD"
    ELSE IF Reasons(op) # {} THEN "INVALIDATED" ELSE "PROVEN"

(* _replay_terminal_locked: a terminal claim answers for ever.             *)
OutcomeOf(op) ==
    IF ChecksOf(op) = {} THEN FreshOutcome(op) ELSE log[Max(ChecksOf(op))].outcome

Check(op, outcome, result) ==
    [kind |-> "CHECK", operation |-> op, outcome |-> outcome, result |-> result]

(* The invalidation a failed check installs against the head it observed.  *)
WithdrawalByCheck(op) == Withdrawal(op.evaluation)

(* A fresh check with its terminal claim, followed by the invalidation it  *)
(* installs or by what a proof lets its consumer write.                    *)
CheckThen(op, result, consumed) ==
    IF ChecksOf(op) # {} THEN <<>>
    ELSE LET outcome == FreshOutcome(op) IN
         << Check(op, outcome, result) >>
         \o CASE outcome = "INVALIDATED" -> << WithdrawalByCheck(op) >>
              [] outcome = "PROVEN"      -> consumed
              [] OTHER                   -> <<>>

(* A fresh check of the head needs the authority.                          *)
Checkable(op) ==
    ChecksOf(op) = {} /\ Head0(log) = op.evaluation => AuthorityAvailable

NoResult == [code |-> "NONE", candidate |-> "NONE"]

-----------------------------------------------------------------------------
(* Renders, selection and monitoring.                                      *)

Renders ==
    {Operation("RENDER", e, c, <<>>, t) : e \in All({"EVALUATION"}),
                                    c \in {0} \cup All({"SELECTION_CLAIM"}),
                                    t \in Instants}

(* The claim a render names is the one of its evaluation.                  *)
Renderable(op) == op.claim \in {0, ClaimOf(log, op.evaluation, Len(log))}

RenderAdvice(op) ==
    /\ Renderable(op)
    /\ ChecksOf(op) = {}
    /\ Checkable(op)
    /\ Write(CheckThen(op, NoResult, <<>>))
    /\ UNCHANGED <<authority, expired, waiting, changes>>

(* A defect: an earlier claim of the evaluation is not looked up.          *)
ClaimedNever(e) == 0

Claimed(e) == ClaimOf(log, e, Len(log))

(* _write_tradeoff_selection_result_locked; a candidate stands for the one *)
(* selection a manager published of it.                                    *)
SelectionResult(op, candidate) ==
    LET e == op.evaluation IN
    IF FreshOutcome(op) # "PROVEN" THEN "STALE"
    ELSE IF log[e].advice # "TRADEOFF" THEN "TARGET_NOT_TRADEOFF"
    ELSE IF candidate \notin Candidates THEN "INVALID_CANDIDATE"
    ELSE IF Claimed(e) # 0
    THEN IF log[Claimed(e)].candidate = candidate
         THEN "ACCEPTED_IDEMPOTENT" ELSE "CONFLICT_ALREADY_RESOLVED"
    ELSE IF SelectedRecommendationExists(Consumed, candidate, TriggerMode)
    THEN "ACCEPTED" ELSE "INVALID_CANDIDATE"

SelectionClaim(e, candidate) ==
    [kind |-> "SELECTION_CLAIM", evaluation |-> e, candidate |-> candidate]

(* A delivery attempt is sealed and stored once; attempts are named by     *)
(* their order.                                                            *)
NewAttempt == <<Cardinality({i \in All({"CHECK"}) : log[i].operation.use = "SELECT"})>>

(* accept_tradeoff_selection for a new delivery attempt.                   *)
AcceptSelection(e, candidate) ==
    LET op == Operation("SELECT", e, 0, NewAttempt, Now(e))
        result == SelectionResult(op, candidate)
    IN /\ Checkable(op)
       /\ Write(CheckThen(op, [code |-> result, candidate |-> candidate],
                          IF result = "ACCEPTED" THEN << SelectionClaim(e, candidate) >>
                          ELSE <<>>))
       /\ UNCHANGED <<authority, expired, waiting, changes>>

(* The consuming result of a match: a review is requested, or not.         *)
Match(e, o) ==
    [kind |-> "MATCH", evaluation |-> e, observation |-> o.ref, review |-> RequestsReview(o)]

(* match_monitoring_observation: the operation names the head, which must  *)
(* advise monitoring, and is checked when the observation became available.*)
MatchMonitoring(o) ==
    LET e == Head0(log)
        op == Operation("MONITOR", e, 0, <<o.ref>>, o.available)
    IN /\ e \in All({"EVALUATION"})
       /\ log[e].advice = "MONITOR"
       /\ Matchable(o)
       /\ ChecksOf(op) = {}
       /\ Checkable(op)
       /\ Write(CheckThen(op, NoResult, << Match(e, o) >>))
       /\ UNCHANGED <<authority, expired, waiting, changes>>

-----------------------------------------------------------------------------
(* Drafts.                                                                 *)

KeyUsed(k) == \E i \in All({"DRAFT"}) : log[i].key = k

Version(k, d, n, p, op, actor, disposition) ==
    [kind |-> "DRAFT", key |-> k, draft |-> d, version |-> n, predecessor |-> p,
     evaluation |-> op.evaluation, claim |-> op.claim, actor |-> actor,
     disposition |-> disposition]

(* prepare_draft_from_current_advice: a proof and one recommendation.      *)
Draftable(op) ==
    /\ OutcomeOf(op) = "PROVEN"
    /\ (log[op.evaluation].advice = "TRADEOFF") <=> (op.claim # 0)

(* prepare_decision_support_draft_context up to the provider's answer.     *)
BeginDraft(r, k, actor, op) ==
    /\ waiting[r] = NoRequest
    /\ ~KeyUsed(k)
    /\ Renderable(op)
    /\ Checkable(op)
    /\ Draftable(op)
    /\ Write(CheckThen(op, NoResult, <<>>))
    /\ waiting' = [waiting EXCEPT ![r] =
                     [key |-> k, actor |-> actor,
                      evaluation |-> op.evaluation, claim |-> op.claim]]
    /\ UNCHANGED <<authority, expired, changes>>

(* A defect: the key is not looked up again after the provider's answer.   *)
StoredNever(k) == FALSE

Stored(k) == KeyUsed(k)

(* persist_prepared_draft with the checked prose or the fallback; a stored *)
(* answer or a conflict writes nothing.                                    *)
FinishDraft(r) ==
    LET w == waiting[r]
    IN /\ w # NoRequest
       /\ Write(IF Stored(w.key) THEN <<>>
                ELSE << Version(w.key, w.key, 1, 0, w, w.actor, "NOT_DISPOSED") >>)
       /\ waiting' = [waiting EXCEPT ![r] = NoRequest]
       /\ UNCHANGED <<authority, expired, changes>>

(* The client hangs up, a quota refuses the draft, or the process dies.    *)
DropRequest(r) ==
    /\ waiting[r] # NoRequest
    /\ waiting' = [waiting EXCEPT ![r] = NoRequest]
    /\ UNCHANGED <<log, authority, expired, changes>>

AtHead(v) == v = DraftHead(log, log[v].draft)

Succeed(v, k, actor, disposition) ==
    /\ AtHead(v)
    /\ ~KeyUsed(k)
    /\ Write(<< Version(k, log[v].draft, log[v].version + 1, v, log[v], actor, disposition) >>)
    /\ UNCHANGED <<authority, expired, waiting, changes>>

EditDraft(v, k, actor) == Succeed(v, k, actor, log[v].disposition)

DisposeDraft(v, k, actor, disposition) == Succeed(v, k, actor, disposition)

-----------------------------------------------------------------------------
(* Manager decisions.                                                      *)

Decided(v) ==
    << [kind |-> "DECISION_SNAPSHOT", draft |-> log[v].draft, head |-> v,
        history |-> Versions(log, log[v].draft, Len(log)),
        evaluation |-> log[v].evaluation, disposition |-> log[v].disposition,
        actor |-> log[v].actor],
       [kind |-> "DECISION"] >>

(* Every attempt is its own operation.                                     *)
Authorization(v) == 
    Operation("AUTHORIZE", log[v].evaluation, 0, <<v, Len(log)>>, Now(log[v].evaluation))

MayDecide(v) ==
    /\ Cardinality(All({"DECISION"})) < MaxDecisions
    /\ v = DraftHead(log, log[v].draft)

(* record_manager_decision by the actor of the draft's head.  A manager's  *)
(* own trade-off selection is not found in the terminal result.            *)
MayApprove(v) ==
    /\ MayDecide(v)
    /\ log[v].disposition = "APPROVE_INTENT"
    /\ log[v].claim = 0
    /\ Checkable(Authorization(v))

RecordApproval(v) ==
    LET op == Authorization(v)
    IN /\ MayApprove(v)
       /\ Write(CheckThen(op, NoResult, <<>>)
                \o IF OutcomeOf(op) = "PROVEN" THEN Decided(v) ELSE <<>>)
       /\ UNCHANGED <<authority, expired, waiting, changes>>

RecordOther(v) ==
    /\ MayDecide(v)
    /\ log[v].disposition \in {"REJECTED", "INVESTIGATE_FURTHER"}
    /\ Write(Decided(v))
    /\ UNCHANGED <<authority, expired, waiting, changes>>

-----------------------------------------------------------------------------
Publishing ==
    \/ \E a \in Advices : PublishPermittedBrief(a)
    \/ PublishDeniedBrief
    \/ \E h \in All(HeadKinds) : Invalidate(h)
    \/ \E live \in Authorities : PublishAuthority(live)
    \/ \E e \in All({"EVALUATION"}) : HorizonPasses(e)

Consuming ==
    \/ \E op \in Renders : RenderAdvice(op)
    \/ \E e \in All({"EVALUATION"}), c \in Offered : AcceptSelection(e, c)
    \/ \E o \in Observations : MatchMonitoring(o)

Drafting ==
    \/ \E r \in Requests, k \in Keys, a \in Actors, op \in Renders : BeginDraft(r, k, a, op)
    \/ \E r \in Requests : FinishDraft(r)
    \/ \E r \in Requests : DropRequest(r)
    \/ \E v \in All({"DRAFT"}), k \in Keys, a \in Actors : EditDraft(v, k, a)
    \/ \E v \in All({"DRAFT"}), k \in Keys, a \in Actors, d \in Intents :
          DisposeDraft(v, k, a, d)

Deciding == \E v \in All({"DRAFT"}) : RecordApproval(v) \/ RecordOther(v)

Acting == Publishing \/ Consuming \/ Drafting \/ Deciding

(* _active_row_locked under _record_mutation_locked: the workspace of a     *)
(* call has lapsed.  Its retirement is committed with the rows that the     *)
(* call has written by then, and the call is refused.                       *)
Lapse(written) ==
    /\ Write(written)
    /\ retired' = TRUE
    /\ UNCHANGED <<expired, waiting, changes>>

(* A brief has published or withdrawn an evaluation, but is not stored.     *)
LapsePermittedBrief(a) ==
    /\ BriefAllowed
    /\ Lapse(<< Evaluation(a) >>)
    /\ authority' = Consumed

LapseDeniedBrief ==
    /\ BriefAllowed
    /\ Lapse(WithdrawalByBrief)
    /\ UNCHANGED authority

(* An approval has been proven current, but is not stored; one that is not  *)
(* proven does not get as far.                                              *)
LapseApproval(v) ==
    LET op == Authorization(v)
    IN /\ MayApprove(v)
       /\ OutcomeOf(op) = "PROVEN"
       /\ Lapse(CheckThen(op, NoResult, <<>>))
       /\ UNCHANGED authority

(* Every other call looks its workspace up before it writes.                *)
LapseElsewhere == Lapse(<<>>) /\ UNCHANGED authority

Lapsing ==
    \/ \E a \in Advices : LapsePermittedBrief(a)
    \/ LapseDeniedBrief
    \/ \E v \in All({"DRAFT"}) : LapseApproval(v)
    \/ LapseElsewhere

Next ==
    /\ ~retired
    /\ \/ Acting /\ UNCHANGED retired
       \/ Lapsing

Spec == Init /\ [][Next]_vars

-----------------------------------------------------------------------------
(* Properties.                                                             *)

Outcomes == {"PROVEN", "INVALIDATED", "NOT_AUTHORITATIVE_HEAD"}

Codes == {"NONE", "STALE", "TARGET_NOT_TRADEOFF", "INVALID_CANDIDATE", "ACCEPTED",
          "ACCEPTED_IDEMPOTENT", "CONFLICT_ALREADY_RESOLVED"}

Operations ==
    [use : {"RENDER", "SELECT", "MONITOR", "AUTHORIZE"}, evaluation : Nat, claim : Nat,
     subject : Seq(Nat \cup {o.ref : o \in Observations}),
     at : Nat \cup Instants \cup {o.available : o \in Observations}]

Rows ==
    [kind : {"BRIEF", "DECISION"}]
    \cup [kind : {"EVALUATION"}, predecessor : Nat, advice : Verdicts,
          horizons : SUBSET (Nat \cup {NO_EXPIRY})]
    \cup [kind : {"INVALIDATION"}, predecessor : Nat]
    \cup [kind : {"CHECK"}, operation : Operations, outcome : Outcomes,
          result : [code : Codes, candidate : Offered \cup {"NONE"}]]
    \cup [kind : {"SELECTION_CLAIM"}, evaluation : Nat, candidate : Candidates]
    \cup [kind : {"MATCH"}, evaluation : Nat,
          observation : {o.ref : o \in Observations}, review : BOOLEAN]
    \cup [kind : {"DRAFT"}, key : Keys, draft : Keys, version : Nat, predecessor : Nat,
          evaluation : Nat, claim : Nat, actor : Actors, disposition : Dispositions]
    \cup [kind : {"DECISION_SNAPSHOT"}, draft : Keys, head : Nat, history : SUBSET Nat,
          evaluation : Nat, disposition : Dispositions, actor : Actors]

(* Every variable keeps its type, and every row of the log the form of its *)
(* kind.                                                                   *)
TypeOK ==
    /\ log \in Seq(Rows)
    /\ authority \in {{}, Consumed} \cup Authorities
    /\ expired \subseteq Nat \X Nat
    /\ waiting \in [Requests -> {NoRequest}
                      \cup [key : Keys, actor : Actors, evaluation : Nat, claim : Nat]]
    /\ retired \in BOOLEAN
    /\ changes \in Nat

(* Evaluations and invalidations form one chain: each follows the head it  *)
(* was made against, whoever installs it (a brief, a caller, a check).     *)
HeadsFormChain ==
    \A i \in All(HeadKinds) : log[i].predecessor = HeadAt(log, i - 1)

(* Only the head is ever proven current, an operation has one answer for   *)
(* ever, and however many selections of one evaluation are delivered, the  *)
(* accepted ones name one candidate.                                       *)
ChecksAnswerOnce ==
    \A i \in All({"CHECK"}) :
        /\ log[i].outcome = "PROVEN" => HeadAt(log, i - 1) = log[i].operation.evaluation
        /\ \A j \in All({"CHECK"}) :
             /\ log[j].operation = log[i].operation => j = i
             /\ log[j].operation.evaluation = log[i].operation.evaluation
                  /\ {log[i].result.code, log[j].result.code}
                       \subseteq {"ACCEPTED", "ACCEPTED_IDEMPOTENT"}
                => log[i].result.candidate = log[j].result.candidate

(* What rests on a proof happens only while the evaluation it rests on is  *)
(* the head and unexpired: an approval, for the newest version of its      *)
(* draft; an accepted selection; and a monitoring match, by an observation *)
(* made known before any approved trigger replaced the recommended one.    *)
ActedWhileCurrent ==
    /\ \A i \in All({"DECISION_SNAPSHOT"}) :
        log[i].disposition = "APPROVE_INTENT" =>
            /\ HeadAt(log, i) = log[i].evaluation
            /\ \A x \in expired : x[1] = log[i].evaluation => i <= x[2]
            /\ log[i].head = Max(Versions(log, log[i].draft, i))
            /\ log[i].actor = log[log[i].head].actor
    /\ \A i \in All({"SELECTION_CLAIM", "MATCH"}) : HeadAt(log, i) = log[i].evaluation
    /\ \A i \in All({"SELECTION_CLAIM"}) :
        \A x \in expired : x[1] = log[i].evaluation => i <= x[2]
    /\ \A i \in All({"MATCH"}) :
        \A o \in Observations, t \in Registry :
            /\ o.ref = log[i].observation
            /\ t \in Candidates0 /\ t.predecessor = RecommendedTrigger
            /\ t.ref # RecommendedTrigger
            => ~PublishedBy(t, o.available)

(* The versions of a draft are numbered without a gap, each follows the    *)
(* one before, and one key stands for one version.                         *)
DraftsFormChains ==
    \A i \in All({"DRAFT"}) :
        /\ log[i].predecessor = Max({0} \cup Versions(log, log[i].draft, i - 1))
        /\ log[i].version = Cardinality(Versions(log, log[i].draft, i))
        /\ \A j \in All({"DRAFT"}) : log[j].key = log[i].key => j = i

(* What the replay shows at a cutoff never changes: nothing that happens   *)
(* later can add to it, take from it or make it unavailable.               *)
ReplayIsStable ==
    [][\A c \in 1 .. Len(log) : Replay(log', c) = Replay(log, c)]_log

=============================================================================
