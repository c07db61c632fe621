--------------------------- MODULE WorkspaceLedger ---------------------------
(***************************************************************************)
(* The ledger of the anonymous demo workspaces                             *)
(* (backend/app/workspace.py, with audit.py on top of it).                 *)
(*                                                                         *)
(* Every request first resolves its workspace from a cookie, and every     *)
(* write it makes is charged to the workspace in the transaction that      *)
(* stores it.  The store has one lock and one SQLite writer, but a call    *)
(* reads the clock BEFORE it waits for the lock: calls are served in any   *)
(* order, each with the time at which it was made.  So a call is two       *)
(* steps, Call (read the clock, wait) and one of the steps that serve it.  *)
(*                                                                         *)
(* Time is a bounded counter.  The spans of the rolling quotas and the     *)
(* inactivity period are constants: only their order matters.              *)
(***************************************************************************)
EXTENDS Integers, FiniteSets

CONSTANTS
    Workspaces,       \* identities of demo workspaces
    Keys,             \* idempotency keys
    Selections,       \* identities of reference selections
    Contents,         \* contents of plain occurrences
    Callers,          \* threads that call the store
    None,
    MaxWorkspaces,    \* QuotaPolicy.max_workspaces
    MaxMutations,     \* max_workspace_mutations
    MaxBundles,       \* max_workspace_terminal_fresh_bundles
    PerMinute,        \* max_workspace_mutations_per_minute
    GlobalPerMinute,  \* max_global_mutations_per_minute
    DraftsPerHour,    \* max_gemini_draft_operations_per_workspace_hour
    AttemptsPerDay,   \* max_gemini_attempts_per_24h
    Minute, Hour, Day, InactivePeriod,
    MaxTime,          \* bound of the clock
    MaxReleases       \* bound of the deployments

(* What a call is told: it changed the tables, it was refused or replayed,  *)
(* or it found its workspace lapsed.                                         *)
Outcomes == {"served", "unchanged", "expired"}

ASSUME ValuesAssumption ==
    /\ None \notin Workspaces \cup Keys \cup Selections \cup Contents \cup Outcomes
    /\ IsFiniteSet(Workspaces) /\ IsFiniteSet(Keys)
    /\ {MaxWorkspaces, MaxMutations, MaxBundles, PerMinute, GlobalPerMinute,
        DraftsPerHour, AttemptsPerDay} \subseteq Nat \ {0}
    /\ {Minute, Hour, Day, InactivePeriod} \subseteq Nat \ {0}
    /\ MaxTime \in Nat /\ MaxReleases \in Nat

VARIABLES
    now,         \* the wall clock
    release,     \* release candidate of the running Core
    spaces,      \* table demo_workspaces
    ledger,      \* table demo_workspace_mutations, by workspace and key
    selections,  \* table workspace_selections: the owner of each selection
    results,     \* table workspace_results: <<workspace, operation>>
    occurrences, \* table audit_events: <<workspace, key>>
    calls,       \* what each caller waits for
    answer       \* what the call served by the last step was told

stored == <<release, spaces, ledger, selections, results, occurrences>>
vars ==
    <<now, release, spaces, ledger, selections, results, occurrences, calls, answer>>

(* OCCURRENCE stands for plain occurrences, decision briefs and manager      *)
(* decisions.  A brief and an approval write part of their rows (the          *)
(* evaluation or its withdrawal with the head, the check with its claim)      *)
(* before they are charged.                                                   *)
Kinds == {"OCCURRENCE", "GEMINI_DRAFT", "GEMINI_ATTEMPT",
          "WORKSPACE_SELECTION", "WORKSPACE_FRESH_RESULT"}

(* An operation gives its own identity to the key of its bundle            *)
(* ("terminal-fresh-bundle:" and the operation), so keys name operations.  *)
Charges ==
    [op : {"charge"}, space : Workspaces, key : Keys, at : 0 .. MaxTime,
     kind : Kinds, content : Contents \cup Selections \cup Keys]
Idle == [op |-> "idle"]

Spaces ==
    [release : 1 .. (MaxReleases + 1), seen : 0 .. MaxTime, retired : BOOLEAN,
     mutations : Nat, bundles : Nat]
Rows == [kind : Kinds, content : Contents \cup Selections \cup Keys,
         at : 0 .. MaxTime]

ASSUME NoneIsNoRow == None \notin Spaces /\ None \notin Rows

Init ==
    /\ now = 0 /\ release = 1
    /\ spaces = [w \in Workspaces |-> None]
    /\ ledger = [w \in Workspaces |-> [k \in Keys |-> None]]
    /\ selections = [s \in Selections |-> None]
    /\ results = {} /\ occurrences = {}
    /\ calls = [c \in Callers |-> Idle]
    /\ answer = None

----------------------------------------------------------------------------
(* Reading the tables.                                                      *)

Unretired == {w \in Workspaces : spaces[w] # None /\ ~spaces[w].retired}
Lapsed(w, t) == t - spaces[w].seen >= InactivePeriod

(* A defect: only the release of a workspace is looked at.                  *)
KnownOfRelease(w) == spaces[w] # None /\ spaces[w].release = release

Known(w) == w \in Unretired /\ spaces[w].release = release
Active(w, t) == Known(w) /\ ~Lapsed(w, t)

Mutations == {p \in Workspaces \X Keys : ledger[p[1]][p[2]] # None}
RowAt(p) == ledger[p[1]][p[2]]
Of(w) == {p \in Mutations : p[1] = w}
OfKind(kind) == {p \in Mutations : RowAt(p).kind = kind}
Since(rows, t) == {p \in rows : RowAt(p).at >= t}

(* A defect: the count ends at the caller's own clock.                      *)
SpentUntilNow(rows, t, limit) ==
    Cardinality({p \in rows : RowAt(p).at \in t .. (t + Minute)}) >= limit

Spent(rows, t, limit) == Cardinality(Since(rows, t)) >= limit

(* The quotas in the order in which they refuse a new mutation.            *)
Exhausted(w, kind, t) ==
    \/ spaces[w].mutations >= MaxMutations
    \/ Spent(Of(w), t - Minute, PerMinute)
    \/ Spent(Mutations, t - Minute, GlobalPerMinute)
    \/ /\ kind = "GEMINI_DRAFT"
       /\ Spent(Of(w) \cap OfKind(kind), t - Hour, DraftsPerHour)
    \/ /\ kind = "GEMINI_ATTEMPT"
       /\ Spent(OfKind(kind), t - Day, AttemptsPerDay)
    \/ /\ kind = "WORKSPACE_FRESH_RESULT"
       /\ spaces[w].bundles >= MaxBundles

----------------------------------------------------------------------------
(* Calls.                                                                   *)

Waiting(c, op) == calls[c].op = op
Tell(c, outcome) ==
    /\ calls' = [calls EXCEPT ![c] = Idle]
    /\ answer' = outcome

Ask(c, request) ==
    /\ calls' = [calls EXCEPT ![c] = request]
    /\ answer' = None
    /\ UNCHANGED <<now, stored>>

(* A request without a cookie asks for a workspace; one with a cookie for  *)
(* its own, any workspace that was ever issued.                             *)
AskNew(c) == Ask(c, [op |-> "new", at |-> now])
AskOwn(c, w) ==
    /\ spaces[w] # None
    /\ Ask(c, [op |-> "own", space |-> w, at |-> now])

(* The key of a Gemini charge is fresh; a client chooses the others.       *)
FreshKey(w, k) ==
    /\ ledger[w][k] = None
    /\ \A c \in Callers : Waiting(c, "charge") =>
          <<calls[c].space, calls[c].key>> # <<w, k>>
Subjects(kind, k) ==
    CASE kind = "OCCURRENCE" -> Contents
      [] kind = "WORKSPACE_SELECTION" -> Selections
      [] OTHER -> {k}
AskCharge(c, w, k, kind) ==
    /\ spaces[w] # None
    /\ kind \in {"GEMINI_DRAFT", "GEMINI_ATTEMPT"} => FreshKey(w, k)
    /\ \E content \in Subjects(kind, k) :
          Ask(c, [op |-> "charge", space |-> w, key |-> k, at |-> now,
                  kind |-> kind, content |-> content])

Swept(t) ==
    [w \in Workspaces |-> IF w \in Unretired /\ Lapsed(w, t)
                          THEN [spaces[w] EXCEPT !.retired = TRUE] ELSE spaces[w]]

(* resolve_workspace without a cookie.                                      *)
Issue(c, w) ==
    /\ Waiting(c, "new")
    /\ spaces[w] = None
    /\ LET t == calls[c].at IN
       /\ Cardinality({v \in Unretired : ~Lapsed(v, t)}) < MaxWorkspaces
       /\ spaces' = [Swept(t) EXCEPT ![w] =
             [release |-> release, seen |-> t, retired |-> FALSE,
              mutations |-> 0, bundles |-> 0]]
    /\ Tell(c, "served")
    /\ UNCHANGED <<now, release, ledger, selections, results, occurrences>>

(* The sweep is undone when the limit is reached all the same.              *)
RefuseIssue(c) ==
    /\ Waiting(c, "new")
    /\ Cardinality({v \in Unretired : ~Lapsed(v, calls[c].at)}) >= MaxWorkspaces
    /\ Tell(c, "unchanged")
    /\ UNCHANGED <<now, stored>>

(* resolve_workspace with a cookie.                                         *)
Touch(c) ==
    /\ Waiting(c, "own")
    /\ LET w == calls[c].space IN
       /\ Active(w, calls[c].at)
       /\ spaces' = [spaces EXCEPT ![w].seen = calls[c].at]
    /\ Tell(c, "served")
    /\ UNCHANGED <<now, release, ledger, selections, results, occurrences>>

(* A selection is looked for before the workspace is.                       *)
SubjectStands(c) ==
    LET call == calls[c] IN
    call.kind = "WORKSPACE_SELECTION" /\ ledger[call.space][call.key] = None =>
        selections[call.content] = None

(* append_occurrence, publish_decision_brief and record_manager_decision     *)
(* answer from their own tables before they look at the workspace.            *)
Answered(c) ==
    LET row == ledger[calls[c].space][calls[c].key] IN
    /\ calls[c].kind = "OCCURRENCE"
    /\ row # None /\ row.kind = "OCCURRENCE"

(* The workspace of a call is looked up: of a charge, once its subject      *)
(* stands.                                                                   *)
LooksUp(c) ==
    \/ Waiting(c, "own")
    \/ Waiting(c, "charge") /\ SubjectStands(c) /\ ~Answered(c)

RefuseAccess(c) ==
    /\ LooksUp(c)
    /\ ~Known(calls[c].space)
    /\ Tell(c, "unchanged")
    /\ UNCHANGED <<now, stored>>

(* A defect: the selection is stored before the workspace is looked up, so  *)
(* the commit of the retirement keeps it.                                    *)
ExpireAfterInsert(c) ==
    /\ LooksUp(c)
    /\ LET w == calls[c].space IN
       /\ Known(w) /\ Lapsed(w, calls[c].at)
       /\ spaces' = [spaces EXCEPT ![w].retired = TRUE]
       /\ selections' = IF Waiting(c, "charge") /\ calls[c].kind = "WORKSPACE_SELECTION"
                        THEN [selections EXCEPT ![calls[c].content] = w] ELSE selections
    /\ Tell(c, "expired")
    /\ UNCHANGED <<now, release, ledger, results, occurrences>>

(* What a call may have written when its workspace is looked up: a brief or *)
(* an approval some of its rows, the others nothing.                          *)
WrittenAhead(c) ==
    IF Waiting(c, "charge") /\ calls[c].kind = "OCCURRENCE"
    THEN {{}, {<<calls[c].space, calls[c].key>>}} ELSE {{}}

(* The retirement of a lapsed workspace is committed although its caller    *)
(* is refused, and with it what the caller wrote in the same transaction:    *)
(* the rollback that follows has nothing left to undo.                        *)
Expire(c) ==
    /\ LooksUp(c)
    /\ LET w == calls[c].space IN
       /\ Known(w) /\ Lapsed(w, calls[c].at)
       /\ spaces' = [spaces EXCEPT ![w].retired = TRUE]
    /\ \E rows \in WrittenAhead(c) : occurrences' = occurrences \cup rows
    /\ Tell(c, "expired")
    /\ UNCHANGED <<now, release, ledger, selections, results>>

SameAsRow(c, row) == row.kind = calls[c].kind /\ row.content = calls[c].content

(* _record_mutation_locked and the insert of its caller, one transaction.   *)
Admissible(c) ==
    /\ Waiting(c, "charge") /\ LooksUp(c)
    /\ Active(calls[c].space, calls[c].at)

Record(c) ==
    /\ Admissible(c)
    /\ LET call == calls[c]  w == call.space  k == call.key
           bundle == IF call.kind = "WORKSPACE_FRESH_RESULT" THEN 1 ELSE 0
       IN  /\ ledger[w][k] = None
           /\ ~Exhausted(w, call.kind, call.at)
           /\ ledger' = [ledger EXCEPT ![w][k] =
                 [kind |-> call.kind, content |-> call.content, at |-> call.at]]
           /\ spaces' = [spaces EXCEPT ![w].mutations = @ + 1,
                                       ![w].bundles = @ + bundle]
           /\ selections' = IF call.kind = "WORKSPACE_SELECTION"
                            THEN [selections EXCEPT ![call.content] = w]
                            ELSE selections
           /\ results' = IF bundle = 1 THEN results \cup {<<w, k>>} ELSE results
           /\ occurrences' = IF call.kind = "OCCURRENCE"
                             THEN occurrences \cup {<<w, k>>} ELSE occurrences
    /\ Tell(c, "served")
    /\ UNCHANGED <<now, release>>

Replay(c) ==
    /\ Waiting(c, "charge")
    /\ Answered(c) \/ Admissible(c)
    /\ LET row == ledger[calls[c].space][calls[c].key] IN
       row # None /\ SameAsRow(c, row)
    /\ Tell(c, "unchanged")
    /\ UNCHANGED <<now, stored>>

(* The reference of a selection may not be verified, the operation of a     *)
(* bundle may not be one of the workspace that has ended, a selection may   *)
(* be taken, a brief or an approval may lose its head, a key may stand for   *)
(* something else, a quota may be used up.                                   *)
RefuseCharge(c) ==
    /\ Waiting(c, "charge")
    /\ LET call == calls[c]  row == ledger[call.space][call.key] IN
       \/ call.kind \in {"WORKSPACE_SELECTION", "WORKSPACE_FRESH_RESULT", "OCCURRENCE"}
       \/ ~SubjectStands(c)
       \/ (Answered(c) \/ Admissible(c)) /\ row # None /\ ~SameAsRow(c, row)
       \/ Admissible(c) /\ row = None /\ Exhausted(call.space, call.kind, call.at)
    /\ Tell(c, "unchanged")
    /\ UNCHANGED <<now, stored>>

----------------------------------------------------------------------------
(* The environment.                                                          *)

Tick ==
    /\ now < MaxTime /\ now' = now + 1
    /\ answer' = None
    /\ UNCHANGED <<calls, stored>>

(* The Core is restarted, with the same or with the next release: the       *)
(* calls in flight are gone, the rows stay.                                  *)
Restart ==
    /\ release' \in {release, release + 1} /\ release' <= MaxReleases
    /\ calls' = [c \in Callers |-> Idle]
    /\ answer' = None
    /\ UNCHANGED <<now, spaces, ledger, selections, results, occurrences>>

Serve(c) ==
    \/ \E w \in Workspaces : Issue(c, w)
    \/ RefuseIssue(c) \/ Touch(c) \/ RefuseAccess(c) \/ Expire(c)
    \/ Record(c) \/ Replay(c) \/ RefuseCharge(c)

Request(c) ==
    /\ calls[c] = Idle
    /\ \/ AskNew(c)
       \/ \E w \in Workspaces : AskOwn(c, w)
       \/ \E w \in Workspaces, k \in Keys, kind \in Kinds : AskCharge(c, w, k, kind)

Next ==
    \/ \E c \in Callers : Request(c) \/ Serve(c)
    \/ Tick \/ Restart

Spec == Init /\ [][Next]_vars

----------------------------------------------------------------------------
(* Properties.                                                               *)

(* Every variable keeps its type.                                            *)
TypeOK ==
    /\ now \in 0 .. MaxTime /\ release \in 1 .. (MaxReleases + 1)
    /\ spaces \in [Workspaces -> Spaces \cup {None}]
    /\ ledger \in [Workspaces -> [Keys -> Rows \cup {None}]]
    /\ selections \in [Selections -> Workspaces \cup {None}]
    /\ results \subseteq Workspaces \X Keys /\ occurrences \subseteq Workspaces \X Keys
    /\ calls \in [Callers ->
          {Idle}
          \cup [op : {"new"}, at : 0 .. MaxTime]
          \cup [op : {"own"}, space : Workspaces, at : 0 .. MaxTime]
          \cup Charges]
    /\ answer \in Outcomes \cup {None}

(* No stretch of time of the span of a quota, wherever it begins, holds     *)
(* more mutations than the quota allows, although calls are served in       *)
(* another order than that of their clocks; and no more workspaces are      *)
(* unretired than the store may hold.                                        *)
Within(rows, t, span) == {p \in rows : RowAt(p).at \in t .. (t + span)}
LimitsRespected ==
    LET all == Mutations
        attempts == OfKind("GEMINI_ATTEMPT")
        drafts == OfKind("GEMINI_DRAFT")
    IN  /\ Cardinality(Unretired) <= MaxWorkspaces
        /\ \A t \in 0 .. MaxTime :
              /\ Cardinality(Within(all, t, Minute)) <= GlobalPerMinute
              /\ Cardinality(Within(attempts, t, Day)) <= AttemptsPerDay
        /\ \A w \in Workspaces :
              LET own == {p \in all : p[1] = w} IN
              \A t \in 0 .. MaxTime :
                 /\ Cardinality(Within(own, t, Minute)) <= PerMinute
                 /\ Cardinality(Within(own \cap drafts, t, Hour)) <= DraftsPerHour

(* Charges and what they pay for are stored together: the counters of a     *)
(* workspace count its rows and stay within its limits, every selection     *)
(* and every bundle was charged, once, to the workspace that holds it, and   *)
(* rows of an occurrence that nobody paid for stand only in a workspace that *)
(* is retired.                                                                *)
ChargesMatchRows ==
    /\ \A w \in Workspaces : spaces[w] # None =>
          /\ spaces[w].mutations = Cardinality(Of(w))
          /\ spaces[w].mutations <= MaxMutations
          /\ spaces[w].bundles = Cardinality({p \in results : p[1] = w})
          /\ spaces[w].bundles <= MaxBundles
    /\ OfKind("WORKSPACE_FRESH_RESULT") = results
    /\ \A p \in OfKind("WORKSPACE_SELECTION") : selections[RowAt(p).content] = p[1]
    /\ \A s \in Selections : selections[s] # None =>
          Cardinality({p \in OfKind("WORKSPACE_SELECTION") : RowAt(p).content = s}) = 1
    /\ OfKind("OCCURRENCE") \subseteq occurrences
    /\ \A p \in occurrences \ OfKind("OCCURRENCE") :
          spaces[p[1]] # None /\ spaces[p[1]].retired

OccurrencesOf(w) == {p \in occurrences : p[1] = w}

(* A call that is refused, and one that only replays, leaves every table as *)
(* it was.  A call that finds its workspace lapsed retires it, and the only  *)
(* rows it may leave are those of an occurrence it had begun to write there.  *)
(* What a retired workspace holds never changes again: no refusal leaves a    *)
(* trace in a workspace that anyone can still use.                            *)
RefusalLeavesNoLiveTrace ==
    [][/\ answer' = "unchanged" => UNCHANGED stored
       /\ answer' = "expired" =>
             /\ UNCHANGED <<release, ledger, selections, results>>
             /\ \E w \in Unretired :
                   /\ spaces' = [spaces EXCEPT ![w].retired = TRUE]
                   /\ occurrences \subseteq occurrences'
                   /\ occurrences' \ occurrences \subseteq {w} \X Keys
       /\ \A w \in Workspaces : spaces[w] # None /\ spaces[w].retired =>
             /\ spaces'[w] = spaces[w] /\ ledger'[w] = ledger[w]
             /\ OccurrencesOf(w)' = OccurrencesOf(w)]_vars

=============================================================================
