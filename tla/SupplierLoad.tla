---------------------------- MODULE SupplierLoad ----------------------------
(***************************************************************************)
(* The bi-temporal record of a supplier's order lines and the point-in-    *)
(* time readings backend/app/risk.py takes of it: the commitment of a line *)
(* (its cutoff), the load of its supplier at that cutoff, whether the load *)
(* was high against the supplier's own earlier lines, the promise frozen   *)
(* at the cutoff, and whether the milestone slipped past it.               *)
(*                                                                         *)
(* A fact has two clocks: when it occurred and when it became known.       *)
(* Recording is the world's part (imports of a customer's data); every     *)
(* reading is a function of the whole record and of a cutoff, and must     *)
(* use only what was known then.                                           *)
(*                                                                         *)
(* Abstractions.  Days stand for calendar days of one precision, so no two *)
(* clocks are incomparable and every slippage has one duration basis.  The *)
(* only milestone is the target.  A line's supplier and project are fixed  *)
(* when the line is first seen.  Facts that become known at one instant    *)
(* are recorded in line order, since the readings depend only on the order *)
(* of the facts of one line.  A fact is never known before it occurs,      *)
(* except a commitment, which may be for a coming day.  No fact is         *)
(* malformed: a supersession names an earlier fact of its own line and     *)
(* kind, so the chain errors of the code are exactly its forks.            *)
(***************************************************************************)
EXTENDS Integers, Sequences, FiniteSets

CONSTANTS
    MaxLines,        \* bound: order lines in the record
    Suppliers,
    Projects,
    None,            \* no project, no promised day
    MaxTime,         \* bound: days of the record
    MaxFacts,        \* bound: facts recorded
    MaxDeviations,   \* bound: departures from the plain course, shared by all parts
    Horizon,         \* follow-up days a line needs after its promised day
    MinHistory       \* earlier lines each exposure rule needs

VARIABLES
    now,             \* the current day
    lines,           \* order lines in the order they were first seen
    facts,           \* order line events in the order they became known
    deviations       \* departures from the plain course so far

lineageVars == <<now, lines, facts, deviations>>

\* Leaked covariates, known only after the cutoff, are unusable.
CovariateStates == {"present", "missing", "unusable"}

Line == [supplier : Suppliers, project : Projects \cup {None},
         covariates : CovariateStates]

CommitmentKinds == {"committed"}
PromiseKinds == {"promise_recorded", "promise_revised"}
TerminalKinds == {"milestone_reached", "cancelled"}

(***************************************************************************)
(* Readings.  F is the record of facts, L the order lines.                 *)
(***************************************************************************)

EventsOf(F, l, kinds) == {e \in DOMAIN F : F[e].line = l /\ F[e].kind \in kinds}

Superseded(F, E) == {F[e].parent : e \in E}

HeadsOf(F, E) == E \ Superseded(F, E)

\* _resolve_commitment_event: the one head of an unforked chain, all of it
\* known by the cutoff, the head known no later than it occurred.  0 when
\* the commitment is unusable.
CommitmentOf(F, l, knownCutoff) ==
    LET chain == EventsOf(F, l, CommitmentKinds)
        heads == HeadsOf(F, chain)
        usable == {e \in heads : /\ heads = {e}
                                 /\ \A c \in chain : F[c].known <= knownCutoff
                                 /\ F[e].known <= F[e].occurred}
    IN  IF usable = {} THEN 0 ELSE CHOOSE e \in usable : TRUE

\* _has_commitment_at_or_before, over the other lines.
CandidateLines(F, L, i, cutoff) ==
    {l \in DOMAIN L \ {i} : \E e \in EventsOf(F, l, CommitmentKinds) :
                                F[e].occurred <= cutoff}

\* A defect: ends count whenever they became known.
VisibleEndsOfAnyTime(F, l, cutoff) == HeadsOf(F, EventsOf(F, l, TerminalKinds))

\* _visible_terminal_events.
VisibleEnds(F, l, cutoff) ==
    HeadsOf(F, {e \in EventsOf(F, l, TerminalKinds) : F[e].known <= cutoff})

\* A visible end that does not follow its commitment, met first, leaves the
\* snapshot unresolved; met after another end it is never looked at.
EndsOutOfOrder(F, ends, committed) ==
    \E e \in ends : (\A d \in ends : e <= d) /\ F[e].occurred <= committed

Unresolved == -1

\* resolve_supplier_load_snapshot: the number of open lines of the supplier
\* committed strictly before the cutoff, or Unresolved.  The commitment of
\* every candidate of any supplier must be usable by what was known at the
\* cutoff.
Snapshot(F, L, i, cutoff) ==
    LET candidates == CandidateLines(F, L, i, cutoff)
        commitment == [l \in candidates |-> CommitmentOf(F, l, cutoff)]
        load == {l \in candidates : /\ L[l].supplier = L[i].supplier
                                    /\ F[commitment[l]].occurred < cutoff}
        ends == [l \in load |-> VisibleEnds(F, l, cutoff)]
    IN  IF \/ \E l \in candidates : commitment[l] = 0
           \/ \E l \in load : EndsOutOfOrder(F, ends[l], F[commitment[l]].occurred)
        THEN Unresolved
        ELSE Cardinality({l \in load : ends[l] = {}})

\* _nearest_rank of the loads of a history; H is what was read of each line.
NearestRank(Lines, H, percent) ==
    LET rank == (percent * Cardinality(Lines) + 99) \div 100
        UpTo(v) == {h \in Lines : H[h].load <= v}
        Below(v) == {h \in Lines : H[h].load < v}
    IN  CHOOSE v \in {H[h].load : h \in Lines} :
            Cardinality(UpTo(v)) >= rank /\ Cardinality(Below(v)) < rank

\* evaluate_supplier_load_exposure, binary rules.
HighLoad(current, Lines, H, percent) == current > NearestRank(Lines, H, percent)

(***************************************************************************)
(* The promise frozen at a line's cutoff.                                  *)
(***************************************************************************)

\* A correction, whenever it became known, must not move the promised day.
PromiseRewritten(F, l) ==
    \E e \in EventsOf(F, l, {"promise_recorded"}) :
        F[e].parent # 0 /\ F[e].promised # F[F[e].parent].promised

PromisesAt(F, l, cutoff) ==
    {e \in EventsOf(F, l, PromiseKinds) :
        F[e].occurred <= cutoff /\ F[e].known <= cutoff}

\* _resolve_frozen_promise: the day promised by the one head among the
\* promises of the cutoff, none of which may lie before it; None if there
\* is no such promise.
FrozenPromise(F, l, cutoff) ==
    LET promises == PromisesAt(F, l, cutoff)
        heads == HeadsOf(F, promises)
    IN  IF \/ PromiseRewritten(F, l)
           \/ \E e \in promises : F[e].promised < cutoff
           \/ Cardinality(heads) # 1
        THEN None
        ELSE F[CHOOSE e \in heads : TRUE].promised

(***************************************************************************)
(* The outcome of a line: resolve_supplier_milestone_slippage.             *)
(***************************************************************************)

Forked(F, E) == \E d, e \in E : d # e /\ F[d].parent = F[e].parent /\ F[d].parent # 0

\* _active_terminal_events, cut to what the observation saw.
EndsOf(F, l, kind, observation) ==
    {e \in HeadsOf(F, EventsOf(F, l, {kind})) : F[e].known <= observation}

Mature(promise, observation) == promise + Horizon <= observation

EndsInvalid(F, l, cutoff, observation) ==
    LET reached == EndsOf(F, l, "milestone_reached", observation)
        cancelled == EndsOf(F, l, "cancelled", observation)
    IN  \/ Forked(F, EventsOf(F, l, TerminalKinds))
        \/ \E e \in reached : F[e].occurred < cutoff
        \/ \E e \in cancelled : F[e].occurred <= cutoff
        \/ Cardinality(reached) > 1
        \/ Cardinality(cancelled) > 1
        \/ \E e \in reached, d \in cancelled : F[e].occurred = F[d].occurred

\* A cancellation with no earlier milestone.
Cancelled(F, l, observation) ==
    \E d \in EndsOf(F, l, "cancelled", observation) :
        \A e \in EndsOf(F, l, "milestone_reached", observation) :
            F[d].occurred < F[e].occurred

\* Days from the promise to the milestone of a line whose outcome is present.
SlippageDays(F, l, cutoff, observation) ==
    F[CHOOSE e \in EndsOf(F, l, "milestone_reached", observation) : TRUE].occurred
        - FrozenPromise(F, l, cutoff)

OutcomePresent(F, l, cutoff, observation) ==
    /\ FrozenPromise(F, l, cutoff) # None
    /\ Mature(FrozenPromise(F, l, cutoff), observation)
    /\ ~EndsInvalid(F, l, cutoff, observation)
    /\ ~Cancelled(F, l, observation)
    /\ EndsOf(F, l, "milestone_reached", observation) # {}

(***************************************************************************)
(* Recording.                                                              *)
(***************************************************************************)

Spend(cost) == deviations + cost <= MaxDeviations /\ deviations' = deviations + cost

Cost(departs) == IF departs THEN 1 ELSE 0

InLineOrder(l) == \A f \in DOMAIN facts : facts[f].known < now \/ facts[f].line <= l

Fact(l, kind, occurred, parent, promised) ==
    [line |-> l, kind |-> kind, occurred |-> occurred, known |-> now,
     parent |-> parent, promised |-> promised]

Record(l, new) ==
    /\ InLineOrder(l)
    /\ Len(facts) + Len(new) <= MaxFacts
    /\ facts' = facts \o new
    /\ UNCHANGED now

\* An order line is first seen, committed and usually promised a day.
SeeLine(line, occurred, promised) ==
    LET l == Len(lines) + 1
    IN  /\ l <= MaxLines
        /\ Spend(  Cost(lines # <<>> /\ line.supplier # lines[1].supplier)
                 + Cost(line.project = None) + Cost(line.covariates # "present")
                 + Cost(occurred # now) + Cost(promised # now + 1))
        /\ lines' = Append(lines, line)
        /\ Record(l, <<Fact(l, "committed", occurred, 0, None)>> \o
                     IF promised = None THEN <<>>
                     ELSE <<Fact(l, "promise_recorded", now, 0, promised)>>)

\* A later fact supersedes an earlier commitment of its line.
CorrectCommitment(e, occurred) ==
    /\ e \in DOMAIN facts /\ facts[e].kind = "committed"
    /\ Spend(1)
    /\ Record(facts[e].line, <<Fact(facts[e].line, "committed", occurred, e, None)>>)
    /\ UNCHANGED lines

\* A promise is revised, or a recorded promise corrected, known at once.
ChangePromise(e, kind, promised) ==
    /\ e \in DOMAIN facts /\ facts[e].kind \in PromiseKinds
    /\ kind = "promise_recorded" => facts[e].kind = kind
    /\ Spend(1)
    /\ Record(facts[e].line, <<Fact(facts[e].line, kind, now, e, promised)>>)
    /\ UNCHANGED lines

\* The milestone of a line is reached, or the line cancelled.
End(l, kind, occurred) ==
    /\ l \in DOMAIN lines
    /\ Spend(Cost(kind = "cancelled") + Cost(occurred # now)
             + Cost(EventsOf(facts, l, TerminalKinds) # {}))
    /\ Record(l, <<Fact(l, kind, occurred, 0, None)>>)
    /\ UNCHANGED lines

\* A reported end is corrected.
CorrectEnd(e, occurred) ==
    /\ e \in DOMAIN facts /\ facts[e].kind \in TerminalKinds
    /\ Spend(1)
    /\ Record(facts[e].line, <<Fact(facts[e].line, facts[e].kind, occurred, e, None)>>)
    /\ UNCHANGED lines

PassDay ==
    /\ now < MaxTime
    /\ now' = now + 1
    /\ UNCHANGED <<lines, facts, deviations>>

LineageInit == now = 0 /\ lines = <<>> /\ facts = <<>> /\ deviations = 0

Recent == {d \in (now - 1)..now : d >= 0}
Ahead == {d \in now..(now + 1) : d <= MaxTime}

LineageNext ==
    \/ PassDay
    \/ \E line \in Line, occurred \in Recent \cup Ahead,
          promised \in Recent \cup Ahead \cup {None} : SeeLine(line, occurred, promised)
    \/ \E e \in DOMAIN facts, occurred \in Recent \cup Ahead : CorrectCommitment(e, occurred)
    \/ \E e \in DOMAIN facts, kind \in PromiseKinds, promised \in Ahead :
          ChangePromise(e, kind, promised)
    \/ \E l \in DOMAIN lines, kind \in TerminalKinds, occurred \in Recent :
          End(l, kind, occurred)
    \/ \E e \in DOMAIN facts, occurred \in Recent : CorrectEnd(e, occurred)
=============================================================================
