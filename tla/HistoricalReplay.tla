--------------------------- MODULE HistoricalReplay ---------------------------
(***************************************************************************)
(* What the audit log of one investigation request says: the head of its   *)
(* advice, the versions of its drafts, and the historical replay of        *)
(* backend/app/historical_replay.py at a cutoff.                           *)
(*                                                                         *)
(* The log is the table audit_events together with the immutable rows that *)
(* are written in the transaction of each event; an occurrence is named by *)
(* its position, which is the event_seq of the code.  Position 0 stands    *)
(* for "none".  Contents and hashes are abstracted: a row that is there is *)
(* intact, which is the case the replay is for.                            *)
(***************************************************************************)
EXTENDS Naturals, Sequences, FiniteSets, FiniteSetsExt

HeadKinds == {"EVALUATION", "INVALIDATION"}

Positions(l, kinds, c) == {i \in DOMAIN l : i <= c /\ l[i].kind \in kinds}

Newest(l, kinds, c) == Max({0} \cup Positions(l, kinds, c))

(* The head row of the series: the last evaluation or invalidation.        *)
HeadAt(l, c) == Newest(l, HeadKinds, c)
Head0(l) == HeadAt(l, Len(l))

(* A defect: versions are read without the cutoff.                         *)
VersionsOfAnyTime(l, d, c) == {i \in Positions(l, {"DRAFT"}, Len(l)) : l[i].draft = d}

Versions(l, d, c) == {i \in Positions(l, {"DRAFT"}, c) : l[i].draft = d}
DraftHead(l, d) == Max({0} \cup Versions(l, d, Len(l)))

ClaimOf(l, e, c) ==
    Max({0} \cup {i \in Positions(l, {"SELECTION_CLAIM"}, c) : l[i].evaluation = e})

-----------------------------------------------------------------------------
(* project_historical_replay: every part is selected by the cutoff, and    *)
(* any two parts that disagree make the whole replay unavailable.          *)

Unavailable == [status |-> "REPLAY_UNAVAILABLE"]

ShownEvaluation(l, c) == Newest(l, {"EVALUATION"}, c)

(* A predecessor that is not among the shown evaluations is looked up as   *)
(* an evaluation occurrence.                                               *)
PredecessorsAreEvaluations(l, c) ==
    \A e \in Positions(l, {"EVALUATION"}, c) :
        LET p == l[e].predecessor IN p # 0 => l[p].kind = "EVALUATION"

ShownSelection(l, c) ==
    IF ShownEvaluation(l, c) = 0 THEN 0 ELSE ClaimOf(l, ShownEvaluation(l, c), c)

(* Manager decisions of the request: those of the shown evaluation, and    *)
(* every approval, which embeds the identity binding of its evaluation.    *)
RelatedDecisions(l, c) ==
    LET e == ShownEvaluation(l, c) IN
    {i \in Positions(l, {"DECISION_SNAPSHOT"}, c) :
        l[i].evaluation = e \/ l[i].disposition = "APPROVE_INTENT"}

(* The snapshot is the event before its decision.                          *)
DecisionsAreComplete(l, c) == \A i \in RelatedDecisions(l, c) : i + 1 <= c

ShownDecision(l, c) == Max({0} \cup RelatedDecisions(l, c))

(* Versions of the drafts of the shown decision m and evaluation e.        *)
ShownVersions(l, c) ==
    LET e == ShownEvaluation(l, c)
        m == ShownDecision(l, c)
    IN {i \in Positions(l, {"DRAFT"}, c) :
           \/ l[i].evaluation = e
           \/ m # 0 /\ l[i].draft = l[m].draft}

(* The draft with the latest version, and its history.                     *)
ShownHistory(l, c) ==
    LET vs == ShownVersions(l, c)
    IN IF vs = {} THEN {} ELSE Versions(l, l[Max(vs)].draft, c)

DraftsAgree(l, c) ==
    LET vs == ShownVersions(l, c) IN
    vs # {} =>
      LET e == ShownEvaluation(l, c)
          m == ShownDecision(l, c)
      IN /\ \A i \in vs : l[i].evaluation = e
         /\ m # 0 => l[m].history = ShownHistory(l, c) /\ l[m].evaluation = e

Replay(l, c) ==
    IF \/ Newest(l, {"BRIEF"}, c) = 0
       \/ ~PredecessorsAreEvaluations(l, c)
       \/ ~DecisionsAreComplete(l, c)
       \/ ~DraftsAgree(l, c)
    THEN Unavailable
    ELSE [status     |-> "REPLAYED",
          brief      |-> Newest(l, {"BRIEF"}, c),
          evaluation |-> ShownEvaluation(l, c),
          selection  |-> ShownSelection(l, c),
          history    |-> ShownHistory(l, c),
          decision   |-> ShownDecision(l, c)]
=============================================================================
