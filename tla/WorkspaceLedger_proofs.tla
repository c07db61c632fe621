----------------------- MODULE WorkspaceLedger_proofs -----------------------
(***************************************************************************)
(* Proofs about WorkspaceLedger: the quotas hold whatever the order in     *)
(* which calls are served, and the counters, selections and bundles are    *)
(* those that were charged.                                                *)
(*                                                                         *)
(* Only Record adds a row.  It counts every row from one span before its   *)
(* own clock on, with no upper end, so a stretch of time that contains the *)
(* new row holds, beside it, no row that was not counted: that is why a    *)
(* stale clock does no harm.                                               *)
(***************************************************************************)
EXTENDS WorkspaceLedger, FiniteSetTheorems, TLAPS

(* A workspace that was never issued has no rows.                           *)
RowsOfIssued == \A w \in Workspaces : spaces[w] = None => Of(w) = {}

(* What is charged as a selection is a selection, in the rows and in the    *)
(* calls that wait.                                                         *)
SelectionsNamed ==
    /\ \A p \in OfKind("WORKSPACE_SELECTION") : RowAt(p).content \in Selections
    /\ \A c \in Callers :
          Waiting(c, "charge") /\ calls[c].kind = "WORKSPACE_SELECTION" =>
             calls[c].content \in Selections

IInv ==
    /\ TypeOK /\ RowsOfIssued /\ SelectionsNamed
    /\ ChargesMatchRows /\ LimitsRespected

(* The parts of the two invariants: the rates count the rows alone, what    *)
(* was paid for relates rows to selections and bundles, the occurrences are  *)
(* charged or stand in a retired workspace, and the counters relate           *)
(* workspaces to rows.                                                        *)
Rates ==
    \A t \in 0 .. MaxTime :
        /\ Cardinality(Within(Mutations, t, Minute)) <= GlobalPerMinute
        /\ Cardinality(Within(OfKind("GEMINI_ATTEMPT"), t, Day)) <= AttemptsPerDay
        /\ \A w \in Workspaces :
              /\ Cardinality(Within(Of(w), t, Minute)) <= PerMinute
              /\ Cardinality(Within(Of(w) \cap OfKind("GEMINI_DRAFT"), t, Hour))
                    <= DraftsPerHour
Bundled == OfKind("WORKSPACE_FRESH_RESULT") = results
Paid ==
    /\ Bundled
    /\ \A p \in OfKind("WORKSPACE_SELECTION") : selections[RowAt(p).content] = p[1]
    /\ \A s \in Selections : selections[s] # None =>
          Cardinality({p \in OfKind("WORKSPACE_SELECTION") : RowAt(p).content = s}) = 1
Accounted ==
    /\ OfKind("OCCURRENCE") \subseteq occurrences
    /\ \A p \in occurrences \ OfKind("OCCURRENCE") :
          spaces[p[1]] # None /\ spaces[p[1]].retired
Counted ==
    \A w \in Workspaces : spaces[w] # None =>
        /\ spaces[w].mutations = Cardinality(Of(w))
        /\ spaces[w].mutations <= MaxMutations
        /\ spaces[w].bundles = Cardinality({p \in results : p[1] = w})
        /\ spaces[w].bundles <= MaxBundles

-----------------------------------------------------------------------------
(* Counting.                                                                 *)

(* A set with at most one element beside those of a set with fewer than     *)
(* limit members has at most limit of them.                                   *)
LEMMA OneMore ==
    ASSUME NEW R, NEW V, NEW x, NEW limit \in Nat,
           IsFiniteSet(R), Cardinality(R) < limit, V \subseteq R \cup {x}
    PROVE  Cardinality(V) <= limit
<1>1. /\ IsFiniteSet(R \cup {x})
      /\ Cardinality(R \cup {x}) <= Cardinality(R) + 1
  <2>1. Cardinality(R) \in Nat
    BY FS_CardinalityType
  <2>2. /\ IsFiniteSet(R \cup {x})
        /\ \/ Cardinality(R \cup {x}) = Cardinality(R)
           \/ Cardinality(R \cup {x}) = Cardinality(R) + 1
    BY FS_AddElement
  <2> QED BY <2>1, <2>2
<1>2. Cardinality(V) <= Cardinality(R \cup {x}) /\ IsFiniteSet(V)
  BY <1>1, FS_Subset
<1>3. /\ Cardinality(V) \in Nat /\ Cardinality(R) \in Nat
      /\ Cardinality(R \cup {x}) \in Nat
  BY <1>1, <1>2, FS_CardinalityType
<1> QED BY <1>1, <1>2, <1>3

(* The rows of the ledger are finitely many, and so are the workspaces that *)
(* are not retired.                                                          *)
LEMMA RowsFinite ==
    /\ IsFiniteSet(Workspaces \X Keys)
    /\ \A S : S \subseteq Workspaces \X Keys => IsFiniteSet(S)
    /\ IsFiniteSet(Unretired)
<1>1. IsFiniteSet(Workspaces) /\ IsFiniteSet(Keys)
  BY ValuesAssumption
<1>2. IsFiniteSet(Workspaces \X Keys)
  BY <1>1, FS_Product
<1>3. Unretired \subseteq Workspaces
  BY DEF Unretired
<1> QED BY <1>1, <1>2, <1>3, FS_Subset

-----------------------------------------------------------------------------
(* Types.                                                                    *)

(* The initial state is typed.                                               *)
LEMMA InitTyped == Init => TypeOK
BY ValuesAssumption DEF Init, TypeOK

Requests ==
    {Idle} \cup [op : {"new"}, at : 0 .. MaxTime]
           \cup [op : {"own"}, space : Workspaces, at : 0 .. MaxTime]
           \cup Charges

(* A call that waits has the fields of its kind.                             *)
LEMMA WaitingTyped ==
    ASSUME TypeOK, NEW c \in Callers
    PROVE  /\ calls[c] \in Requests
           /\ Waiting(c, "new") => calls[c].at \in 0 .. MaxTime
           /\ Waiting(c, "own") =>
                 calls[c].at \in 0 .. MaxTime /\ calls[c].space \in Workspaces
           /\ Waiting(c, "charge") => calls[c] \in Charges
BY DEF TypeOK, Waiting, Requests, Charges, Idle

(* What Record leaves of the workspace it charges.                           *)
Fresh(c) == IF calls[c].kind = "WORKSPACE_FRESH_RESULT" THEN 1 ELSE 0
Charged(c) ==
    [spaces[calls[c].space] EXCEPT !.mutations = @ + 1, !.bundles = @ + Fresh(c)]

(* Record changes the counters of the workspace it charges, and nothing      *)
(* else of any workspace.                                                     *)
LEMMA RecordSpace ==
    ASSUME TypeOK, NEW c \in Callers, Record(c)
    PROVE  /\ calls[c].space \in Workspaces /\ spaces[calls[c].space] \in Spaces
           /\ Fresh(c) \in {0, 1} /\ Charged(c) \in Spaces
           /\ Charged(c).mutations = spaces[calls[c].space].mutations + 1
           /\ Charged(c).bundles = spaces[calls[c].space].bundles + Fresh(c)
           /\ spaces' = [spaces EXCEPT ![calls[c].space] = Charged(c)]
<1> DEFINE w == calls[c].space
<1>1. w \in Workspaces
  BY WaitingTyped DEF Record, Admissible, Charges
<1>2. spaces[w] \in Spaces
  BY <1>1 DEF Record, Admissible, Active, Known, Unretired, TypeOK
<1>3. Fresh(c) \in {0, 1}
  BY DEF Fresh
<1>4. /\ Charged(c) \in Spaces
      /\ Charged(c).mutations = spaces[w].mutations + 1
      /\ Charged(c).bundles = spaces[w].bundles + Fresh(c)
  <2>1. ASSUME NEW s \in Spaces, NEW b \in {0, 1}
        PROVE  LET n == [s EXCEPT !.mutations = @ + 1, !.bundles = @ + b] IN
               /\ n \in Spaces
               /\ n.mutations = s.mutations + 1 /\ n.bundles = s.bundles + b
    <3>1. s.mutations \in Nat /\ s.bundles \in Nat
      BY DEF Spaces
    <3>2. s.mutations + 1 \in Nat /\ s.bundles + b \in Nat
      BY <3>1
    <3>3. ASSUME NEW i \in Nat, NEW j \in Nat
          PROVE  LET n == [s EXCEPT !.mutations = i, !.bundles = j] IN
                 n \in Spaces /\ n.mutations = i /\ n.bundles = j
      BY DEF Spaces
    <3> QED BY <3>2, <3>3
  <2> QED BY <1>2, <1>3, <2>1 DEF Charged
<1>5. spaces' = [spaces EXCEPT ![w] = Charged(c)]
  <2>1. spaces \in [Workspaces -> Spaces \cup {None}]
    BY DEF TypeOK
  <2> QED BY <1>1, <1>2, <2>1 DEF Record, Spaces, Charged, Fresh
<1> QED BY <1>1, <1>2, <1>3, <1>4, <1>5

(* A step keeps the types.                                                   *)
LEMMA NextTyped == TypeOK /\ [Next]_vars => TypeOK'
<1> SUFFICES ASSUME TypeOK, [Next]_vars PROVE TypeOK'
  OBVIOUS
<1>1. ASSUME NEW c \in Callers, Request(c) PROVE TypeOK'
  <2>1. ASSUME NEW r \in Requests, Ask(c, r) PROVE TypeOK'
    BY <2>1 DEF Ask, TypeOK, stored, Requests
  <2>2. ASSUME AskNew(c) PROVE TypeOK'
    <3>1. [op |-> "new", at |-> now] \in Requests
      BY DEF Requests, TypeOK
    <3> QED BY <2>1, <2>2, <3>1 DEF AskNew
  <2>3. ASSUME NEW w \in Workspaces, AskOwn(c, w) PROVE TypeOK'
    <3>1. [op |-> "own", space |-> w, at |-> now] \in Requests
      BY DEF Requests, TypeOK
    <3> QED BY <2>1, <2>3, <3>1 DEF AskOwn
  <2>4. ASSUME NEW w \in Workspaces, NEW k \in Keys, NEW kind \in Kinds,
               AskCharge(c, w, k, kind)
        PROVE  TypeOK'
    <3>1. PICK content \in Subjects(kind, k) :
             Ask(c, [op |-> "charge", space |-> w, key |-> k, at |-> now,
                     kind |-> kind, content |-> content])
      BY <2>4 DEF AskCharge
    <3>2. content \in Contents \cup Selections \cup Keys
      BY DEF Subjects, Kinds
    <3>3. [op |-> "charge", space |-> w, key |-> k, at |-> now,
           kind |-> kind, content |-> content] \in Requests
      BY <3>2 DEF Requests, Charges, TypeOK
    <3> QED BY <2>1, <3>1, <3>3
  <2> QED BY <1>1, <2>2, <2>3, <2>4 DEF Request
<1>2. ASSUME NEW c \in Callers, Serve(c) PROVE TypeOK'
  <2>1. ASSUME NEW outcome \in Outcomes, Tell(c, outcome)
        PROVE  /\ calls' \in [Callers -> Requests]
               /\ answer' \in Outcomes \cup {None}
    BY <2>1 DEF Tell, TypeOK, Requests
  <2>2. ASSUME NEW w \in Workspaces, Issue(c, w) PROVE TypeOK'
    <3>1. calls[c].at \in 0 .. MaxTime
      BY <2>2, WaitingTyped DEF Issue
    <3>2. Swept(calls[c].at) \in [Workspaces -> Spaces \cup {None}]
      BY DEF TypeOK, Swept, Unretired, Spaces
    <3>3. spaces' \in [Workspaces -> Spaces \cup {None}]
      BY <2>2, <3>1, <3>2 DEF Issue, TypeOK, Spaces
    <3> QED BY <2>1, <2>2, <3>3 DEF Issue, TypeOK, Outcomes, Requests
  <2>3. ASSUME Touch(c) PROVE TypeOK'
    <3>1. calls[c].at \in 0 .. MaxTime /\ calls[c].space \in Workspaces
      BY <2>3, WaitingTyped DEF Touch
    <3>2. spaces' \in [Workspaces -> Spaces \cup {None}]
      BY <2>3, <3>1 DEF Touch, TypeOK, Spaces, Active, Known, Unretired
    <3> QED BY <2>1, <2>3, <3>2 DEF Touch, TypeOK, Outcomes, Requests
  <2>4. ASSUME Expire(c) PROVE TypeOK'
    <3>1. calls[c].space \in Workspaces
      BY <2>4, WaitingTyped DEF Expire, LooksUp, Charges
    <3>2. spaces' \in [Workspaces -> Spaces \cup {None}]
      BY <2>4, <3>1 DEF Expire, TypeOK, Spaces, Known, Unretired
    <3>3. occurrences' \subseteq Workspaces \X Keys
      <4>1. ASSUME NEW rows \in WrittenAhead(c) PROVE rows \subseteq Workspaces \X Keys
        BY <4>1, WaitingTyped DEF WrittenAhead, Charges
      <4> QED BY <2>4, <4>1 DEF Expire, TypeOK
    <3>4. UNCHANGED <<now, release, ledger, selections, results>>
      BY <2>4 DEF Expire
    <3>5. Tell(c, "expired")
      BY <2>4 DEF Expire
    <3>6. calls' \in [Callers -> Requests] /\ answer' \in Outcomes \cup {None}
      BY <2>1, <3>5 DEF Outcomes
    <3> QED BY <3>2, <3>3, <3>4, <3>6 DEF TypeOK, Requests
  <2>5. ASSUME Record(c) PROVE TypeOK'
    <3>1. calls[c] \in Charges
      BY <2>5, WaitingTyped DEF Record, Admissible
    <3> DEFINE w == calls[c].space  k == calls[c].key
               row == [kind |-> calls[c].kind, content |-> calls[c].content,
                       at |-> calls[c].at]
    <3>2. w \in Workspaces /\ k \in Keys /\ row \in Rows
      BY <3>1 DEF Charges, Rows
    <3>3. ledger' = [ledger EXCEPT ![w][k] = row]
      BY <2>5 DEF Record
    <3>4. ledger' \in [Workspaces -> [Keys -> Rows \cup {None}]]
      BY <3>2, <3>3 DEF TypeOK
    <3>5. Charged(c) \in Spaces /\ spaces' = [spaces EXCEPT ![w] = Charged(c)]
      BY <2>5, RecordSpace
    <3>6. spaces' \in [Workspaces -> Spaces \cup {None}]
      BY <3>2, <3>5 DEF TypeOK
    <3>7. selections' \in [Selections -> Workspaces \cup {None}]
      BY <2>5, <3>2 DEF Record, TypeOK
    <3>8. results' \subseteq Workspaces \X Keys /\ occurrences' \subseteq Workspaces \X Keys
      BY <2>5, <3>2 DEF Record, TypeOK
    <3>9. /\ calls' \in [Callers -> Requests]
          /\ answer' \in Outcomes \cup {None}
      BY <2>1, <2>5 DEF Record, Outcomes
    <3>10. UNCHANGED <<now, release>>
      BY <2>5 DEF Record
    <3> QED BY <3>4, <3>6, <3>7, <3>8, <3>9, <3>10 DEF TypeOK, Requests
  <2>6. ASSUME RefuseIssue(c) \/ RefuseAccess(c) \/ Replay(c) \/ RefuseCharge(c)
        PROVE  TypeOK'
    <3>1. Tell(c, "unchanged") /\ UNCHANGED <<now, stored>>
      BY <2>6 DEF RefuseIssue, RefuseAccess, Replay, RefuseCharge
    <3> QED BY <2>1, <3>1 DEF TypeOK, stored, Outcomes, Requests
  <2> QED BY <1>2, <2>2, <2>3, <2>4, <2>5, <2>6 DEF Serve
<1>3. CASE Tick
  BY <1>3, ValuesAssumption DEF Tick, TypeOK, stored
<1>4. CASE Restart
  BY <1>4, ValuesAssumption DEF Restart, TypeOK
<1>5. CASE UNCHANGED vars
  BY <1>5 DEF vars, stored, TypeOK
<1> QED BY <1>1, <1>2, <1>3, <1>4, <1>5 DEF Next

-----------------------------------------------------------------------------
(* What Record does to the rows.                                             *)

RowOf(c) == [kind |-> calls[c].kind, content |-> calls[c].content, at |-> calls[c].at]
Place(c) == <<calls[c].space, calls[c].key>>

\* Of some rows after a step, those in a stretch of time.
WithinNext(rows, t, span) == {p \in rows : ledger'[p[1]][p[2]].at \in t .. (t + span)}

(* Record adds the row of its call in a place that was empty, and leaves    *)
(* every other row.                                                          *)
LEMMA RecordRow ==
    ASSUME TypeOK, NEW c \in Callers, Record(c)
    PROVE  /\ calls[c] \in Charges /\ RowOf(c) \in Rows /\ RowOf(c) # None
           /\ Place(c) \in Workspaces \X Keys /\ Place(c) \notin Mutations
           /\ \A p \in Workspaces \X Keys :
                 ledger'[p[1]][p[2]] =
                    IF p = Place(c) THEN RowOf(c) ELSE ledger[p[1]][p[2]]
<1>1. calls[c] \in Charges
  BY WaitingTyped DEF Record, Admissible
<1>2. RowOf(c) \in Rows /\ Place(c) \in Workspaces \X Keys
  BY <1>1 DEF Charges, Rows, RowOf, Place
<1>3. RowOf(c) # None
  BY <1>2, NoneIsNoRow
<1>4. Place(c) \notin Mutations
  BY <1>1 DEF Record, Mutations, Place, Charges
<1>5. ledger' = [ledger EXCEPT ![calls[c].space][calls[c].key] = RowOf(c)]
  BY DEF Record, RowOf
<1>6. ASSUME NEW w \in Workspaces, NEW k \in Keys
      PROVE  ledger'[w][k] =
                IF <<w, k>> = Place(c) THEN RowOf(c) ELSE ledger[w][k]
  BY <1>1, <1>5 DEF TypeOK, Place, Charges
<1>7. ASSUME NEW p \in Workspaces \X Keys
      PROVE  ledger'[p[1]][p[2]] =
                IF p = Place(c) THEN RowOf(c) ELSE ledger[p[1]][p[2]]
  <2>1. p[1] \in Workspaces /\ p[2] \in Keys /\ p = <<p[1], p[2]>>
    OBVIOUS
  <2> QED BY <1>6, <2>1
<1> QED BY <1>1, <1>2, <1>3, <1>4, <1>7

(* So the rows, those of a workspace and those of a kind gain its place or  *)
(* nothing.                                                                  *)
LEMMA RecordSets ==
    ASSUME TypeOK, NEW c \in Callers, Record(c)
    PROVE  /\ Mutations' = Mutations \cup {Place(c)}
           /\ \A p \in Mutations : ledger'[p[1]][p[2]] = RowAt(p)
           /\ ledger'[Place(c)[1]][Place(c)[2]] = RowOf(c)
<1>1. \A p \in Workspaces \X Keys :
         ledger'[p[1]][p[2]] = IF p = Place(c) THEN RowOf(c) ELSE ledger[p[1]][p[2]]
  BY RecordRow
<1>2. /\ Place(c) \in Workspaces \X Keys /\ Place(c) \notin Mutations
      /\ RowOf(c) # None
  BY RecordRow
<1>3. ASSUME NEW p \in Workspaces \X Keys
      PROVE  p \in Mutations' <=> p \in Mutations \cup {Place(c)}
  BY <1>1, <1>2 DEF Mutations
<1>4. Mutations \subseteq Workspaces \X Keys /\ Mutations' \subseteq Workspaces \X Keys
  BY DEF Mutations
<1>5. Mutations' = Mutations \cup {Place(c)}
  BY <1>2, <1>3, <1>4
<1>6. ASSUME NEW p \in Mutations PROVE ledger'[p[1]][p[2]] = RowAt(p)
  BY <1>1, <1>2, <1>4 DEF RowAt
<1> QED BY <1>1, <1>2, <1>5, <1>6

(* A stretch that gains the new row holds, beside it, only rows that the    *)
(* quota counted; another one gains nothing.                                 *)
LEMMA StretchGrows ==
    ASSUME TypeOK, NEW c \in Callers, Record(c),
           NEW S, NEW S1, S \subseteq Mutations, S1 \subseteq S \cup {Place(c)},
           NEW t \in Int, NEW span \in Nat
    PROVE  LET V == {p \in S1 : ledger'[p[1]][p[2]].at \in t .. (t + span)} IN
           \/ V \subseteq Within(S, t, span)
           \/ /\ V \subseteq Since(S, calls[c].at - span) \cup {Place(c)}
              /\ Place(c) \in S1
<1> DEFINE V == {p \in S1 : ledger'[p[1]][p[2]].at \in t .. (t + span)}
           a == calls[c].at
<1>1. /\ \A p \in S : ledger'[p[1]][p[2]] = RowAt(p)
      /\ ledger'[Place(c)[1]][Place(c)[2]] = RowOf(c)
  BY RecordSets
<1>2. RowOf(c).at = a
  BY DEF RowOf
<1>3. \A p \in S : RowAt(p).at \in 0 .. MaxTime
  BY NoneIsNoRow DEF Mutations, RowAt, TypeOK, Rows
<1>4. a \in 0 .. MaxTime
  BY RecordRow DEF Charges
<1>5. CASE Place(c) \in V
  <2>1. a \in t .. (t + span) /\ Place(c) \in S1
    BY <1>1, <1>2, <1>5
  <2>2. ASSUME NEW p \in V, p # Place(c) PROVE p \in Since(S, a - span)
    <3>1. p \in S /\ RowAt(p).at \in t .. (t + span)
      BY <1>1, <2>2
    <3>2. RowAt(p).at >= a - span
      BY <1>3, <1>4, <2>1, <3>1
    <3> QED BY <3>1, <3>2 DEF Since
  <2> QED BY <2>1, <2>2
<1>6. CASE Place(c) \notin V
  <2>1. ASSUME NEW p \in V PROVE p \in Within(S, t, span)
    <3>1. p \in S
      BY <1>6
    <3>2. RowAt(p).at \in t .. (t + span)
      BY <1>1, <3>1
    <3> QED BY <3>1, <3>2 DEF Within
  <2> QED BY <2>1
<1> QED BY <1>5, <1>6

(* A quota that holds of a set of rows holds after Record, if Record        *)
(* counted it whenever its own row belongs to the set.                        *)
LEMMA QuotaKept ==
    ASSUME TypeOK, NEW c \in Callers, Record(c),
           NEW S, NEW S1, S \subseteq Mutations, S1 \subseteq S \cup {Place(c)},
           NEW t \in Int, NEW span \in Nat, NEW limit \in Nat,
           Cardinality(Within(S, t, span)) <= limit,
           Place(c) \in S1 => ~Spent(S, calls[c].at - span, limit)
    PROVE  Cardinality(WithinNext(S1, t, span)) <= limit
<1> DEFINE V == WithinNext(S1, t, span)
           W == Within(S, t, span)
           R == Since(S, calls[c].at - span)
<1>1. \/ V \subseteq W
      \/ V \subseteq R \cup {Place(c)} /\ Place(c) \in S1
  BY StretchGrows DEF WithinNext
<1>2. IsFiniteSet(W) /\ IsFiniteSet(R)
  <2>1. W \subseteq Workspaces \X Keys /\ R \subseteq Workspaces \X Keys
    BY DEF Within, Since, Mutations
  <2> QED BY <2>1, RowsFinite
<1>3. Cardinality(W) \in Nat /\ Cardinality(R) \in Nat
  BY <1>2, FS_CardinalityType
<1>4. Cardinality(W) <= limit
  OBVIOUS
<1>5. Place(c) \in S1 => Cardinality(R) < limit
  BY <1>3 DEF Spent
<1>6. Cardinality(V) <= limit
  <2> HIDE DEF V, W, R
  <2>1. CASE V \subseteq W
    <3>1. Cardinality(V) <= Cardinality(W) /\ IsFiniteSet(V)
      BY <1>2, <2>1, FS_Subset
    <3>2. Cardinality(V) \in Nat
      BY <3>1, FS_CardinalityType
    <3> QED BY <1>3, <1>4, <3>1, <3>2
  <2>2. CASE V \subseteq R \cup {Place(c)} /\ Place(c) \in S1
    <3>1. Cardinality(R) < limit
      BY <1>5, <2>2
    <3>2. V \subseteq R \cup {Place(c)} /\ IsFiniteSet(R)
      BY <1>2, <2>2
    <3> QED BY <3>1, <3>2, OneMore
  <2> QED BY <1>1, <2>1, <2>2
<1> QED BY <1>6

(* The rates of the quotas survive a row.                                    *)
LEMMA RecordRates ==
    ASSUME TypeOK, Rates, NEW c \in Callers, Record(c)
    PROVE  Rates'
<1>1. /\ Mutations' = Mutations \cup {Place(c)}
      /\ \A p \in Mutations : ledger'[p[1]][p[2]] = RowAt(p)
      /\ ledger'[Place(c)[1]][Place(c)[2]] = RowOf(c)
  BY RecordSets
<1>2. ~Exhausted(calls[c].space, calls[c].kind, calls[c].at)
  BY DEF Record
<1>3. {Minute, Hour, Day, PerMinute, GlobalPerMinute, DraftsPerHour, AttemptsPerDay}
         \subseteq Nat
  BY ValuesAssumption
<1>9. /\ Minute \in Nat /\ Hour \in Nat /\ Day \in Nat /\ PerMinute \in Nat
      /\ GlobalPerMinute \in Nat /\ DraftsPerHour \in Nat /\ AttemptsPerDay \in Nat
  BY <1>3
<1> SUFFICES ASSUME NEW t \in 0 .. MaxTime
             PROVE  /\ Cardinality(Within(Mutations, t, Minute)') <= GlobalPerMinute
                    /\ Cardinality(Within(OfKind("GEMINI_ATTEMPT"), t, Day)')
                          <= AttemptsPerDay
                    /\ \A w \in Workspaces :
                        /\ Cardinality(Within(Of(w), t, Minute)') <= PerMinute
                        /\ Cardinality(Within(Of(w) \cap OfKind("GEMINI_DRAFT"), t, Hour)')
                              <= DraftsPerHour
  BY DEF Rates
<1>4. t \in Int
  OBVIOUS
<1>5. Cardinality(Within(Mutations, t, Minute)') <= GlobalPerMinute
  <2>1. Cardinality(WithinNext(Mutations', t, Minute)) <= GlobalPerMinute
    BY <1>1, <1>2, <1>9, <1>4, QuotaKept DEF Exhausted, Rates
  <2> QED BY <2>1 DEF Within, WithinNext, RowAt
<1>6. Cardinality(Within(OfKind("GEMINI_ATTEMPT"), t, Day)') <= AttemptsPerDay
  <2> DEFINE S == OfKind("GEMINI_ATTEMPT")
             S1 == {p \in Mutations' : ledger'[p[1]][p[2]].kind = "GEMINI_ATTEMPT"}
  <2>1. S \subseteq Mutations /\ S1 \subseteq S \cup {Place(c)}
    BY <1>1 DEF OfKind
  <2>2. Place(c) \in S1 => calls[c].kind = "GEMINI_ATTEMPT"
    BY <1>1 DEF RowOf
  <2>3. Place(c) \in S1 => ~Spent(S, calls[c].at - Day, AttemptsPerDay)
    BY <1>2, <2>2 DEF Exhausted
  <2>4. Cardinality(Within(S, t, Day)) <= AttemptsPerDay
    BY DEF Rates
  <2>5. Cardinality(WithinNext(S1, t, Day)) <= AttemptsPerDay
    <3>1. Day \in Nat /\ AttemptsPerDay \in Nat
      BY <1>9
    <3> HIDE DEF S, S1
    <3> QED BY <1>4, <2>1, <2>3, <2>4, <3>1, QuotaKept
  <2> QED BY <2>5 DEF Within, WithinNext, RowAt, OfKind
<1>7. ASSUME NEW w \in Workspaces
      PROVE  Cardinality(Within(Of(w), t, Minute)') <= PerMinute
  <2> DEFINE S == Of(w)
             S1 == {p \in Mutations' : p[1] = w}
  <2>1. S \subseteq Mutations /\ S1 \subseteq S \cup {Place(c)}
    BY <1>1 DEF Of
  <2>2. Place(c) \in S1 => calls[c].space = w
    BY DEF Place
  <2>3. Place(c) \in S1 => ~Spent(S, calls[c].at - Minute, PerMinute)
    BY <1>2, <2>2 DEF Exhausted
  <2>4. Cardinality(Within(S, t, Minute)) <= PerMinute
    BY DEF Rates
  <2>5. Cardinality(WithinNext(S1, t, Minute)) <= PerMinute
    <3>1. Minute \in Nat /\ PerMinute \in Nat
      BY <1>9
    <3> HIDE DEF S, S1
    <3> QED BY <1>4, <2>1, <2>3, <2>4, <3>1, QuotaKept
  <2> QED BY <2>5 DEF Within, WithinNext, RowAt, Of
<1>8. ASSUME NEW w \in Workspaces
      PROVE  Cardinality(Within(Of(w) \cap OfKind("GEMINI_DRAFT"), t, Hour)')
                <= DraftsPerHour
  <2> DEFINE S == Of(w) \cap OfKind("GEMINI_DRAFT")
             S1 == {p \in Mutations' : p[1] = w}
                   \cap {p \in Mutations' : ledger'[p[1]][p[2]].kind = "GEMINI_DRAFT"}
  <2>1. S \subseteq Mutations /\ S1 \subseteq S \cup {Place(c)}
    BY <1>1 DEF Of, OfKind
  <2>2. Place(c) \in S1 => calls[c].space = w /\ calls[c].kind = "GEMINI_DRAFT"
    BY <1>1 DEF Place, RowOf
  <2>3. Place(c) \in S1 => ~Spent(S, calls[c].at - Hour, DraftsPerHour)
    BY <1>2, <2>2 DEF Exhausted
  <2>4. Cardinality(Within(S, t, Hour)) <= DraftsPerHour
    BY DEF Rates
  <2>5. Cardinality(WithinNext(S1, t, Hour)) <= DraftsPerHour
    <3>1. Hour \in Nat /\ DraftsPerHour \in Nat
      BY <1>9
    <3> HIDE DEF S, S1
    <3> QED BY <1>4, <2>1, <2>3, <2>4, <3>1, QuotaKept
  <2> QED BY <2>5 DEF Within, WithinNext, RowAt, Of, OfKind
<1> QED BY <1>5, <1>6, <1>7, <1>8

(* A selection and a bundle are stored with the row that charges them.       *)
LEMMA RecordPaid ==
    ASSUME TypeOK, Paid, SelectionsNamed, NEW c \in Callers, Record(c)
    PROVE  Paid'
<1>1. /\ Mutations' = Mutations \cup {Place(c)}
      /\ \A p \in Mutations : ledger'[p[1]][p[2]] = RowAt(p)
      /\ ledger'[Place(c)[1]][Place(c)[2]] = RowOf(c)
  BY RecordSets
<1>2. Place(c) \notin Mutations /\ calls[c] \in Charges
  BY RecordRow
<1> DEFINE s0 == calls[c].content
           Sel == OfKind("WORKSPACE_SELECTION")
           Sel1 == {p \in Mutations' : ledger'[p[1]][p[2]].kind = "WORKSPACE_SELECTION"}
<1>3. Bundled'
  <2>1. results' = IF calls[c].kind = "WORKSPACE_FRESH_RESULT"
                   THEN results \cup {Place(c)} ELSE results
    BY DEF Record, Place
  <2>2. results = {p \in Mutations : RowAt(p).kind = "WORKSPACE_FRESH_RESULT"}
    BY DEF Paid, Bundled, OfKind
  <2>3. {p \in Mutations' : ledger'[p[1]][p[2]].kind = "WORKSPACE_FRESH_RESULT"} =
        IF calls[c].kind = "WORKSPACE_FRESH_RESULT"
        THEN results \cup {Place(c)} ELSE results
    BY <1>1, <1>2, <2>2 DEF RowOf
  <2> QED BY <2>1, <2>3 DEF Bundled, OfKind, RowAt
<1>4. CASE calls[c].kind # "WORKSPACE_SELECTION"
  <2>1. Sel1 = Sel
    BY <1>1, <1>2, <1>4 DEF OfKind, RowOf
  <2>2. selections' = selections
    BY <1>4 DEF Record
  <2>3. \A p \in Sel : ledger'[p[1]][p[2]] = RowAt(p)
    BY <1>1 DEF OfKind
  <2>4. \A p \in Sel1 : selections'[ledger'[p[1]][p[2]].content] = p[1]
    BY <2>1, <2>2, <2>3 DEF Paid
  <2>5. \A s \in Selections : {p \in Sel1 : ledger'[p[1]][p[2]].content = s}
                                 = {p \in Sel : RowAt(p).content = s}
    BY <2>1, <2>3
  <2>6. \A s \in Selections : selections'[s] # None =>
           Cardinality({p \in Sel1 : ledger'[p[1]][p[2]].content = s}) = 1
    BY <2>2, <2>5 DEF Paid
  <2> QED BY <1>3, <2>4, <2>6 DEF Paid, OfKind, RowAt
<1>5. CASE calls[c].kind = "WORKSPACE_SELECTION"
  <2>1. Sel1 = Sel \cup {Place(c)}
    BY <1>1, <1>2, <1>5 DEF OfKind, RowOf
  <2>2. s0 \in Selections
    BY <1>5 DEF SelectionsNamed, Record, Admissible
  <2>3. selections[s0] = None
    BY <1>5 DEF Record, Admissible, LooksUp, SubjectStands, Waiting
  <2>4. selections' = [selections EXCEPT ![s0] = calls[c].space]
    BY <1>5 DEF Record
  <2>5. \A p \in Sel : /\ ledger'[p[1]][p[2]] = RowAt(p)
                       /\ RowAt(p).content \in Selections
                       /\ RowAt(p).content # s0
    <3>1. \A p \in Sel : ledger'[p[1]][p[2]] = RowAt(p)
      BY <1>1 DEF OfKind
    <3>2. \A p \in Sel : RowAt(p).content \in Selections
      BY DEF SelectionsNamed
    <3>3. \A p \in Sel : selections[RowAt(p).content] = p[1] /\ p[1] \in Workspaces
      BY DEF Paid, OfKind, Mutations
    <3> QED BY <2>3, <3>1, <3>2, <3>3, ValuesAssumption
  <2>6. ledger'[Place(c)[1]][Place(c)[2]].content = s0
    BY <1>1 DEF RowOf
  <2>7. \A s \in Selections :
           selections'[s] = IF s = s0 THEN calls[c].space ELSE selections[s]
    BY <2>4 DEF TypeOK
  <2>8. ASSUME NEW p \in Sel1
        PROVE  selections'[ledger'[p[1]][p[2]].content] = p[1]
    <3>1. CASE p \in Sel
      BY <2>5, <2>7, <3>1 DEF Paid
    <3>2. CASE p = Place(c)
      BY <2>2, <2>6, <2>7, <3>2 DEF Place
    <3> QED BY <2>1, <3>1, <3>2
  <2>9. ASSUME NEW s \in Selections, selections'[s] # None
        PROVE  Cardinality({p \in Sel1 : ledger'[p[1]][p[2]].content = s}) = 1
    <3>1. CASE s = s0
      <4>1. {p \in Sel1 : ledger'[p[1]][p[2]].content = s} = {Place(c)}
        BY <2>1, <2>5, <2>6, <3>1
      <4> QED BY <4>1, FS_Singleton
    <3>2. CASE s # s0
      <4>1. {p \in Sel1 : ledger'[p[1]][p[2]].content = s}
               = {p \in Sel : RowAt(p).content = s}
        BY <2>1, <2>5, <2>6, <3>2
      <4>2. selections[s] # None
        BY <2>7, <2>9, <3>2
      <4> QED BY <4>1, <4>2 DEF Paid
    <3> QED BY <3>1, <3>2
  <2> QED BY <1>3, <2>8, <2>9 DEF Paid, OfKind, RowAt
<1> QED BY <1>4, <1>5

(* The counters of the charged workspace grow with its rows and bundles,    *)
(* within their limits; the others stay.                                      *)
LEMMA RecordCounted ==
    ASSUME TypeOK, Counted, Paid, RowsOfIssued, NEW c \in Callers, Record(c)
    PROVE  Counted' /\ RowsOfIssued'
<1> DEFINE w == calls[c].space
           fresh == calls[c].kind = "WORKSPACE_FRESH_RESULT"
           Mine(v) == {p \in results : p[1] = v}
           Mine1(v) == {p \in results' : p[1] = v}
           Of1(v) == {p \in Mutations' : p[1] = v}
<1>1. Mutations' = Mutations \cup {Place(c)}
  BY RecordSets
<1>2. /\ Place(c) \notin Mutations /\ w \in Workspaces
      /\ Place(c)[1] = w
  BY RecordRow DEF Charges, Place
<1>3. /\ results' = IF fresh THEN results \cup {Place(c)} ELSE results
      /\ Place(c) \notin results
  BY <1>2 DEF Record, Place, Paid, Bundled, OfKind
<1>4. /\ spaces[w] \in Spaces /\ spaces[w] # None
      /\ spaces[w].mutations < MaxMutations
      /\ fresh => spaces[w].bundles < MaxBundles
  BY <1>2, ValuesAssumption
     DEF Record, Admissible, Active, Known, Unretired, TypeOK, Exhausted, Spaces
<1>5. /\ spaces' = [spaces EXCEPT ![w] = Charged(c)]
      /\ Charged(c) \in Spaces /\ Fresh(c) = IF fresh THEN 1 ELSE 0
      /\ Charged(c).mutations = spaces[w].mutations + 1
      /\ Charged(c).bundles = spaces[w].bundles + Fresh(c)
  BY RecordSpace DEF Fresh
<1>6. /\ spaces'[w] # None
      /\ spaces'[w].mutations = spaces[w].mutations + 1
      /\ spaces'[w].bundles = spaces[w].bundles + (IF fresh THEN 1 ELSE 0)
  <2>1. spaces'[w] = Charged(c)
    BY <1>2, <1>5 DEF TypeOK
  <2> QED BY <1>5, <2>1, NoneIsNoRow
<1>7. \A v \in Workspaces \ {w} : spaces'[v] = spaces[v]
  BY <1>2, <1>5 DEF TypeOK
<1>8. \A v \in Workspaces : IsFiniteSet(Of(v)) /\ IsFiniteSet(Mine(v))
  <2>1. \A v \in Workspaces :
           Of(v) \subseteq Workspaces \X Keys /\ Mine(v) \subseteq Workspaces \X Keys
    BY DEF Of, Mutations, TypeOK
  <2> QED BY <2>1, RowsFinite
<1>9. ASSUME NEW v \in Workspaces, v # w
      PROVE  Of1(v) = Of(v) /\ Mine1(v) = Mine(v)
  BY <1>1, <1>2, <1>3, <1>9 DEF Of
<1>10. /\ Of1(w) = Of(w) \cup {Place(c)} /\ Place(c) \notin Of(w)
       /\ Mine1(w) = IF fresh THEN Mine(w) \cup {Place(c)} ELSE Mine(w)
       /\ Place(c) \notin Mine(w)
  BY <1>1, <1>2, <1>3 DEF Of
<1>11. /\ Cardinality(Of1(w)) = Cardinality(Of(w)) + 1
       /\ Cardinality(Mine1(w)) = Cardinality(Mine(w)) + (IF fresh THEN 1 ELSE 0)
  <2>1. Cardinality(Mine(w)) \in Nat
    BY <1>2, <1>8, FS_CardinalityType
  <2>2. Cardinality(Of1(w)) = Cardinality(Of(w)) + 1
    BY <1>2, <1>8, <1>10, FS_AddElement
  <2>3. CASE fresh
    BY <1>2, <1>8, <1>10, <2>2, <2>3, FS_AddElement
  <2>4. CASE ~fresh
    <3>1. Mine1(w) = Mine(w)
      BY <1>10, <2>4
    <3> HIDE DEF Mine, Mine1, Of1
    <3> QED BY <2>1, <2>2, <2>4, <3>1
  <2> QED BY <2>3, <2>4
<1>12. ASSUME NEW v \in Workspaces, spaces'[v] # None
       PROVE  /\ spaces'[v].mutations = Cardinality(Of1(v))
              /\ spaces'[v].mutations <= MaxMutations
              /\ spaces'[v].bundles = Cardinality(Mine1(v))
              /\ spaces'[v].bundles <= MaxBundles
  <2>1. CASE v = w
    <3>1. /\ spaces[w].mutations = Cardinality(Of(w))
          /\ spaces[w].bundles = Cardinality(Mine(w))
          /\ spaces[w].bundles <= MaxBundles
      BY <1>2, <1>4 DEF Counted
    <3>2. /\ spaces[w].mutations \in Nat /\ spaces[w].bundles \in Nat
          /\ MaxMutations \in Nat /\ MaxBundles \in Nat
      BY <1>4, ValuesAssumption DEF Spaces
    <3> HIDE DEF w, fresh, Mine, Mine1, Of1
    <3> QED BY <1>4, <1>6, <1>11, <2>1, <3>1, <3>2
  <2>2. CASE v # w
    <3>1. spaces[v] # None /\ spaces'[v] = spaces[v]
      BY <1>7, <1>12, <2>2
    <3>2. Of1(v) = Of(v) /\ Mine1(v) = Mine(v)
      BY <1>9, <2>2
    <3> QED BY <3>1, <3>2 DEF Counted
  <2> QED BY <2>1, <2>2
<1>13. Counted'
  BY <1>12 DEF Counted, Of
<1>14. ASSUME NEW v \in Workspaces, spaces'[v] = None PROVE Of1(v) = {}
  BY <1>6, <1>7, <1>9, <1>14 DEF RowsOfIssued
<1> QED BY <1>13, <1>14 DEF RowsOfIssued, Of

-----------------------------------------------------------------------------
(* The invariant.                                                            *)

(* The rows and what they pay for, in one conjunction.                       *)
LedgerInv == Rates /\ Paid /\ Counted /\ RowsOfIssued

(* The parts make up the invariants.                                         *)
LEMMA Parts ==
    /\ LimitsRespected <=> Cardinality(Unretired) <= MaxWorkspaces /\ Rates
    /\ ChargesMatchRows <=> Counted /\ Paid /\ Accounted
<1>1. LimitsRespected <=> Cardinality(Unretired) <= MaxWorkspaces /\ Rates
  BY DEF LimitsRespected, Rates, Of
<1>2. ChargesMatchRows <=> Counted /\ Paid /\ Accounted
  BY DEF ChargesMatchRows, Counted, Paid, Bundled, Accounted
<1> QED BY <1>1, <1>2

(* A step that leaves the rows, selections and bundles, and the counters of *)
(* the workspaces, keeps the ledger; a workspace issued by it has none.      *)
LEMMA LedgerFrame ==
    ASSUME LedgerInv, UNCHANGED <<ledger, selections, results>>,
           \A w \in Workspaces : spaces[w] # None =>
              /\ spaces'[w] # None
              /\ spaces'[w].mutations = spaces[w].mutations
              /\ spaces'[w].bundles = spaces[w].bundles,
           \A w \in Workspaces : spaces[w] = None /\ spaces'[w] # None =>
              spaces'[w].mutations = 0 /\ spaces'[w].bundles = 0
    PROVE  LedgerInv'
<1>1. Mutations' = Mutations
  BY DEF Mutations
<1>2. Rates'
  BY <1>1 DEF LedgerInv, Rates, Within, OfKind, Of, RowAt
<1>3. Paid'
  BY <1>1 DEF LedgerInv, Paid, Bundled, OfKind, RowAt
<1>4. RowsOfIssued'
  BY <1>1 DEF LedgerInv, RowsOfIssued, Of
<1>5. Counted'
  <2>1. ASSUME NEW w \in Workspaces, spaces'[w] # None
        PROVE  /\ spaces'[w].mutations = Cardinality(Of(w))
               /\ spaces'[w].mutations <= MaxMutations
               /\ spaces'[w].bundles = Cardinality({p \in results : p[1] = w})
               /\ spaces'[w].bundles <= MaxBundles
    <3>1. CASE spaces[w] # None
      BY <3>1 DEF LedgerInv, Counted
    <3>2. CASE spaces[w] = None
      <4>1. Of(w) = {}
        BY <3>2 DEF LedgerInv, RowsOfIssued
      <4>2. {p \in results : p[1] = w} = {}
        BY <4>1 DEF LedgerInv, Paid, Bundled, OfKind, Of
      <4>3. Cardinality({}) = 0
        BY FS_EmptySet
      <4>4. MaxMutations >= 0 /\ MaxBundles >= 0
        BY ValuesAssumption
      <4>5. spaces'[w].mutations = 0 /\ spaces'[w].bundles = 0
        BY <2>1, <3>2
      <4> QED BY <4>1, <4>2, <4>3, <4>4, <4>5
    <3> QED BY <3>1, <3>2
  <2> QED BY <1>1, <2>1 DEF Counted, Of
<1> QED BY <1>2, <1>3, <1>4, <1>5 DEF LedgerInv

(* No step issues a workspace beyond the limit, and every step keeps the    *)
(* ledger.                                                                    *)
LEMMA LedgerKept ==
    ASSUME TypeOK, LedgerInv, SelectionsNamed, [Next]_vars
    PROVE  LedgerInv'
<1>1. ASSUME UNCHANGED <<spaces, ledger, selections, results>> PROVE LedgerInv'
  BY <1>1, LedgerFrame
<1>2. ASSUME NEW c \in Callers, Request(c) PROVE LedgerInv'
  BY <1>1, <1>2 DEF Request, AskNew, AskOwn, AskCharge, Ask, stored
<1>3. ASSUME NEW c \in Callers, Serve(c) PROVE LedgerInv'
  <2>1. ASSUME NEW w \in Workspaces, Issue(c, w) PROVE LedgerInv'
    <3>1. /\ UNCHANGED <<ledger, selections, results>>
          /\ spaces[w] = None
          /\ spaces' = [Swept(calls[c].at) EXCEPT ![w] =
                [release |-> release, seen |-> calls[c].at, retired |-> FALSE,
                 mutations |-> 0, bundles |-> 0]]
      BY <2>1 DEF Issue
    <3>2. \A v \in Workspaces \ {w} : spaces'[v] = Swept(calls[c].at)[v]
      BY <3>1 DEF Swept
    <3>3. ASSUME NEW v \in Workspaces, spaces[v] # None
          PROVE  /\ spaces'[v] # None
                 /\ spaces'[v].mutations = spaces[v].mutations
                 /\ spaces'[v].bundles = spaces[v].bundles
      <4>1. spaces[v] \in Spaces /\ v # w
        BY <3>1, <3>3 DEF TypeOK
      <4>2. spaces'[v] \in Spaces
        BY <3>2, <4>1 DEF Swept, Spaces
      <4> QED BY <3>2, <4>1, <4>2, NoneIsNoRow DEF Swept, Spaces
    <3>4. ASSUME NEW v \in Workspaces, spaces[v] = None, spaces'[v] # None
          PROVE  spaces'[v].mutations = 0 /\ spaces'[v].bundles = 0
      <4>1. v = w
        BY <3>2, <3>4 DEF Swept, Unretired
      <4> QED BY <3>1, <4>1 DEF Swept
    <3> QED BY <3>1, <3>3, <3>4, LedgerFrame
  <2>2. ASSUME Touch(c) \/ Expire(c) PROVE LedgerInv'
    <3> DEFINE w == calls[c].space
    <3>1. /\ UNCHANGED <<ledger, selections, results>>
          /\ w \in Workspaces /\ spaces[w] \in Spaces
          /\ \/ /\ spaces' = [spaces EXCEPT ![w].seen = calls[c].at]
                /\ calls[c].at \in 0 .. MaxTime
             \/ spaces' = [spaces EXCEPT ![w].retired = TRUE]
      BY <2>2, WaitingTyped
         DEF Touch, Expire, Active, Known, Unretired, TypeOK, LooksUp, Charges
    <3>2. \A v \in Workspaces \ {w} : spaces'[v] = spaces[v]
      BY <3>1 DEF TypeOK
    <3>3. /\ spaces'[w] \in Spaces
          /\ spaces'[w].mutations = spaces[w].mutations
          /\ spaces'[w].bundles = spaces[w].bundles
      <4>1. \/ /\ spaces'[w] = [spaces[w] EXCEPT !.seen = calls[c].at]
               /\ calls[c].at \in 0 .. MaxTime
            \/ spaces'[w] = [spaces[w] EXCEPT !.retired = TRUE]
        BY <3>1 DEF TypeOK
      <4> QED BY <3>1, <4>1 DEF Spaces
    <3>4. spaces[w] # None /\ spaces'[w] # None
      BY <3>1, <3>3, NoneIsNoRow
    <3> QED BY <3>1, <3>2, <3>3, <3>4, LedgerFrame
  <2>3. ASSUME Record(c) PROVE LedgerInv'
    BY <2>3, RecordRates, RecordPaid, RecordCounted DEF LedgerInv
  <2>4. ASSUME RefuseIssue(c) \/ RefuseAccess(c) \/ Replay(c) \/ RefuseCharge(c)
        PROVE  LedgerInv'
    BY <1>1, <2>4 DEF RefuseIssue, RefuseAccess, Replay, RefuseCharge, stored
  <2> QED BY <1>3, <2>1, <2>2, <2>3, <2>4 DEF Serve
<1>4. CASE Tick \/ Restart
  BY <1>1, <1>4 DEF Tick, Restart, stored
<1>5. CASE UNCHANGED vars
  BY <1>1, <1>5 DEF vars, stored
<1> QED BY <1>2, <1>3, <1>4, <1>5 DEF Next

(* A step that adds no occurrence, takes no row away and brings no workspace *)
(* back keeps the occurrences accounted for.                                  *)
LEMMA AccountedFrame ==
    ASSUME Accounted, UNCHANGED <<ledger, occurrences>>,
           \A w \in Workspaces : spaces[w] # None /\ spaces[w].retired =>
              spaces'[w] # None /\ spaces'[w].retired,
           occurrences \subseteq Workspaces \X Keys
    PROVE  Accounted'
<1>1. OfKind("OCCURRENCE")' = OfKind("OCCURRENCE")
  BY DEF OfKind, Mutations, RowAt
<1>2. \A p \in occurrences : p[1] \in Workspaces
  OBVIOUS
<1> QED BY <1>1, <1>2 DEF Accounted

(* Every step keeps the occurrences accounted for: Record charges the one it *)
(* adds, and Expire retires the workspace of the one it adds.                  *)
LEMMA AccountedKept ==
    ASSUME TypeOK, Accounted, [Next]_vars
    PROVE  Accounted'
<1>1. ASSUME UNCHANGED <<spaces, ledger, occurrences>> PROVE Accounted'
  BY <1>1, AccountedFrame DEF TypeOK
<1>2. ASSUME NEW c \in Callers, Request(c) PROVE Accounted'
  BY <1>1, <1>2 DEF Request, AskNew, AskOwn, AskCharge, Ask, stored
<1>3. ASSUME NEW c \in Callers, NEW w \in Workspaces, Issue(c, w) PROVE Accounted'
  <2>1. UNCHANGED <<ledger, occurrences>> /\ spaces[w] = None
    BY <1>3 DEF Issue
  <2>2. \A v \in Workspaces \ {w} : spaces'[v] = Swept(calls[c].at)[v]
    BY <1>3 DEF Issue, Swept
  <2>3. \A v \in Workspaces : spaces[v] # None /\ spaces[v].retired =>
           spaces'[v] = spaces[v]
    BY <2>1, <2>2 DEF Swept, Unretired
  <2> QED BY <2>1, <2>3, AccountedFrame DEF TypeOK
<1>4. ASSUME NEW c \in Callers, Touch(c) PROVE Accounted'
  <2>1. /\ UNCHANGED <<ledger, occurrences>> /\ calls[c].space \in Unretired
        /\ spaces' = [spaces EXCEPT ![calls[c].space].seen = calls[c].at]
    BY <1>4 DEF Touch, Active, Known
  <2>2. \A v \in Workspaces : spaces[v] # None /\ spaces[v].retired =>
           spaces'[v] = spaces[v]
    BY <2>1 DEF Unretired, TypeOK
  <2> QED BY <2>1, <2>2, AccountedFrame DEF TypeOK
<1>5. ASSUME NEW c \in Callers, Expire(c) PROVE Accounted'
  <2> DEFINE w == calls[c].space
  <2>1. /\ w \in Workspaces /\ spaces[w] \in Spaces /\ ledger' = ledger
        /\ spaces' = [spaces EXCEPT ![w].retired = TRUE]
    BY <1>5, WaitingTyped DEF Expire, LooksUp, Charges, Known, Unretired, TypeOK
  <2>2. /\ spaces'[w] # None /\ spaces'[w].retired
        /\ \A v \in Workspaces \ {w} : spaces'[v] = spaces[v]
    <3>1. spaces'[w] = [spaces[w] EXCEPT !.retired = TRUE]
          /\ \A v \in Workspaces \ {w} : spaces'[v] = spaces[v]
      BY <2>1 DEF TypeOK
    <3>2. spaces'[w] \in Spaces /\ spaces'[w].retired
      <4>1. ASSUME NEW s \in Spaces
            PROVE  LET n == [s EXCEPT !.retired = TRUE] IN n \in Spaces /\ n.retired
        BY DEF Spaces
      <4> HIDE DEF w
      <4> QED BY <2>1, <3>1, <4>1
    <3> QED BY <3>1, <3>2, NoneIsNoRow
  <2>3. PICK rows \in WrittenAhead(c) : occurrences' = occurrences \cup rows
    BY <1>5 DEF Expire
  <2>4. \A p \in rows : p[1] = w
    BY <2>3 DEF WrittenAhead
  <2>5. OfKind("OCCURRENCE")' = OfKind("OCCURRENCE")
    BY <2>1 DEF OfKind, Mutations, RowAt
  <2>6. \A p \in occurrences : p[1] \in Workspaces
    BY DEF TypeOK
  <2> QED BY <2>2, <2>3, <2>4, <2>5, <2>6 DEF Accounted
<1>6. ASSUME NEW c \in Callers, Record(c) PROVE Accounted'
  <2>1. /\ Mutations' = Mutations \cup {Place(c)}
        /\ \A p \in Mutations : ledger'[p[1]][p[2]] = RowAt(p)
        /\ ledger'[Place(c)[1]][Place(c)[2]] = RowOf(c)
    BY <1>6, RecordSets
  <2>2. Place(c) \notin Mutations
    BY <1>6, RecordRow
  <2>3. OfKind("OCCURRENCE")' =
           IF calls[c].kind = "OCCURRENCE"
           THEN OfKind("OCCURRENCE") \cup {Place(c)} ELSE OfKind("OCCURRENCE")
    BY <2>1, <2>2 DEF OfKind, RowOf, RowAt
  <2>4. occurrences' = IF calls[c].kind = "OCCURRENCE"
                       THEN occurrences \cup {Place(c)} ELSE occurrences
    BY <1>6 DEF Record, Place
  <2>5. /\ calls[c].space \in Workspaces /\ calls[c].space \in Unretired
        /\ spaces' = [spaces EXCEPT ![calls[c].space] = Charged(c)]
    BY <1>6, RecordSpace DEF Record, Admissible, Active, Known
  <2>6. \A v \in Workspaces : spaces[v] # None /\ spaces[v].retired =>
           spaces'[v] = spaces[v]
    BY <2>5 DEF Unretired, TypeOK
  <2>7. \A p \in occurrences : p[1] \in Workspaces
    BY DEF TypeOK
  <2> QED BY <2>3, <2>4, <2>6, <2>7 DEF Accounted
<1>7. ASSUME NEW c \in Callers,
             RefuseIssue(c) \/ RefuseAccess(c) \/ Replay(c) \/ RefuseCharge(c)
      PROVE  Accounted'
  BY <1>1, <1>7 DEF RefuseIssue, RefuseAccess, Replay, RefuseCharge, stored
<1>8. CASE Tick \/ Restart \/ UNCHANGED vars
  BY <1>1, <1>8 DEF Tick, Restart, vars, stored
<1> QED BY <1>2, <1>3, <1>4, <1>5, <1>6, <1>7, <1>8 DEF Next, Serve

(* Rows and waiting calls name selections by selections.                     *)
LEMMA NamedKept ==
    ASSUME TypeOK, SelectionsNamed, [Next]_vars
    PROVE  SelectionsNamed'
<1> DEFINE Good(call) ==
      call.op = "charge" /\ call.kind = "WORKSPACE_SELECTION" =>
         call.content \in Selections
<1>1. ASSUME ledger' = ledger, \A c \in Callers : Good(calls'[c])
      PROVE  SelectionsNamed'
  BY <1>1 DEF SelectionsNamed, OfKind, Mutations, RowAt, Waiting
<1>2. \A c \in Callers : Good(calls[c])
  BY DEF SelectionsNamed, Waiting
<1>3. ASSUME NEW c \in Callers, NEW outcome, Tell(c, outcome)
      PROVE  \A d \in Callers : Good(calls'[d])
  BY <1>2, <1>3 DEF Tell, TypeOK, Idle
<1>4. ASSUME NEW c \in Callers, NEW r, Good(r), Ask(c, r) PROVE SelectionsNamed'
  <2>1. ledger' = ledger /\ \A d \in Callers : Good(calls'[d])
    BY <1>2, <1>4 DEF Ask, stored, TypeOK
  <2> QED BY <1>1, <2>1
<1>5. ASSUME NEW c \in Callers, Request(c) PROVE SelectionsNamed'
  <2>1. ASSUME AskNew(c) PROVE SelectionsNamed'
    BY <1>4, <2>1 DEF AskNew
  <2>2. ASSUME NEW w \in Workspaces, AskOwn(c, w) PROVE SelectionsNamed'
    BY <1>4, <2>2 DEF AskOwn
  <2>3. ASSUME NEW w \in Workspaces, NEW k \in Keys, NEW kind \in Kinds,
               AskCharge(c, w, k, kind)
        PROVE  SelectionsNamed'
    <3> DEFINE r(x) == [op |-> "charge", space |-> w, key |-> k, at |-> now,
                        kind |-> kind, content |-> x]
    <3>1. PICK x \in Subjects(kind, k) : Ask(c, r(x))
      BY <2>3 DEF AskCharge
    <3>2. kind = "WORKSPACE_SELECTION" => x \in Selections
      BY DEF Subjects
    <3>3. Good(r(x))
      BY <3>2
    <3> QED BY <1>4, <3>1, <3>3
  <2> QED BY <1>5, <2>1, <2>2, <2>3 DEF Request
<1>6. ASSUME NEW c \in Callers, Serve(c) PROVE SelectionsNamed'
  <2>1. PICK outcome : Tell(c, outcome)
    BY <1>6 DEF Serve, Issue, RefuseIssue, Touch, RefuseAccess, Expire, Record,
                Replay, RefuseCharge
  <2>2. \A d \in Callers : Good(calls'[d])
    BY <1>3, <2>1
  <2>3. CASE Record(c)
    <3>1. /\ Mutations' = Mutations \cup {Place(c)}
          /\ \A p \in Mutations : ledger'[p[1]][p[2]] = RowAt(p)
          /\ ledger'[Place(c)[1]][Place(c)[2]] = RowOf(c)
      BY <2>3, RecordSets
    <3>2. RowOf(c).kind = "WORKSPACE_SELECTION" => RowOf(c).content \in Selections
      BY <2>3 DEF SelectionsNamed, RowOf, Record, Admissible
    <3>3. \A p \in Mutations' : ledger'[p[1]][p[2]].kind = "WORKSPACE_SELECTION" =>
                                   ledger'[p[1]][p[2]].content \in Selections
      BY <3>1, <3>2 DEF SelectionsNamed, OfKind
    <3> QED BY <2>2, <3>3 DEF SelectionsNamed, OfKind, RowAt, Waiting
  <2>4. CASE ~Record(c)
    <3>1. ledger' = ledger
      BY <1>6, <2>4 DEF Serve, Issue, RefuseIssue, Touch, RefuseAccess, Expire,
                        Replay, RefuseCharge, stored
    <3> QED BY <1>1, <2>2, <3>1
  <2> QED BY <2>3, <2>4
<1>7. CASE Tick
  BY <1>1, <1>2, <1>7 DEF Tick, stored
<1>8. CASE Restart
  <2>1. ledger' = ledger /\ \A c \in Callers : Good(calls'[c])
    BY <1>8 DEF Restart, Idle
  <2> QED BY <1>1, <2>1
<1>9. CASE UNCHANGED vars
  BY <1>1, <1>2, <1>9 DEF vars, stored
<1> QED BY <1>5, <1>6, <1>7, <1>8, <1>9 DEF Next

(* No step leaves more workspaces unretired than the store may hold: only   *)
(* Issue adds one, and it counts those that its sweep leaves.                 *)
LEMMA UnretiredKept ==
    ASSUME TypeOK, Cardinality(Unretired) <= MaxWorkspaces, [Next]_vars
    PROVE  Cardinality(Unretired') <= MaxWorkspaces
<1>1. ASSUME Unretired' \subseteq Unretired
      PROVE  Cardinality(Unretired') <= MaxWorkspaces
  <2>1. IsFiniteSet(Unretired) /\ MaxWorkspaces \in Nat
    BY RowsFinite, ValuesAssumption
  <2>2. Cardinality(Unretired') <= Cardinality(Unretired) /\ IsFiniteSet(Unretired')
    BY <1>1, <2>1, FS_Subset
  <2>3. Cardinality(Unretired') \in Nat /\ Cardinality(Unretired) \in Nat
    BY <2>1, <2>2, FS_CardinalityType
  <2> QED BY <2>1, <2>2, <2>3
<1>2. ASSUME NEW c \in Callers, NEW w \in Workspaces, Issue(c, w)
      PROVE  Cardinality(Unretired') <= MaxWorkspaces
  <2> DEFINE R == {v \in Unretired : ~Lapsed(v, calls[c].at)}
  <2>1. Cardinality(R) < MaxWorkspaces /\ IsFiniteSet(R) /\ IsFiniteSet(Unretired)
    <3>1. R \subseteq Unretired
      OBVIOUS
    <3>2. IsFiniteSet(Unretired)
      BY RowsFinite
    <3> QED BY <1>2, <3>1, <3>2, FS_Subset DEF Issue
  <2>2. Unretired' \subseteq R \cup {w}
    <3>1. ASSUME NEW v \in Unretired', v # w PROVE v \in R
      <4>1. v \in Workspaces /\ spaces'[v] = Swept(calls[c].at)[v]
        BY <1>2, <3>1 DEF Issue, Swept, Unretired
      <4>2. spaces'[v] # None /\ ~spaces'[v].retired
        BY <3>1 DEF Unretired
      <4>3. spaces'[v] = IF v \in Unretired /\ Lapsed(v, calls[c].at)
                         THEN [spaces[v] EXCEPT !.retired = TRUE] ELSE spaces[v]
        BY <4>1 DEF Swept
      <4>4. spaces[v] \in Spaces \cup {None}
        BY <4>1 DEF TypeOK
      <4>5. ~(v \in Unretired /\ Lapsed(v, calls[c].at))
        <5>1. SUFFICES ASSUME v \in Unretired, Lapsed(v, calls[c].at) PROVE FALSE
          OBVIOUS
        <5>2. spaces[v] \in Spaces
          BY <4>4, <5>1 DEF Unretired
        <5> QED BY <4>2, <4>3, <5>1, <5>2 DEF Spaces
      <4> QED BY <4>1, <4>2, <4>3, <4>5 DEF Unretired
    <3> QED BY <3>1
  <2>3. MaxWorkspaces \in Nat
    BY ValuesAssumption
  <2> HIDE DEF R
  <2> QED BY <2>1, <2>2, <2>3, OneMore
<1>3. ASSUME NEW c \in Callers, Touch(c) \/ Expire(c) \/ Record(c)
      PROVE  Unretired' \subseteq Unretired
  <2> DEFINE w == calls[c].space
  <2>1. /\ w \in Workspaces /\ w \in Unretired /\ spaces[w] \in Spaces
        /\ \A v \in Workspaces \ {w} : spaces'[v] = spaces[v]
    <3>1. w \in Workspaces
      BY <1>3, WaitingTyped DEF Touch, Expire, Record, Admissible, LooksUp, Charges
    <3>2. w \in Unretired
      BY <1>3 DEF Touch, Expire, Record, Admissible, Active, Known
    <3>3. spaces[w] \in Spaces
      BY <3>1, <3>2 DEF Unretired, TypeOK
    <3>4. \A v \in Workspaces \ {w} : spaces'[v] = spaces[v]
      BY <1>3, <3>1 DEF Touch, Expire, Record, TypeOK
    <3> QED BY <3>1, <3>2, <3>3, <3>4
  <2> QED BY <2>1 DEF Unretired
<1>4. ASSUME spaces' = spaces PROVE Unretired' \subseteq Unretired
  BY <1>4 DEF Unretired
<1>5. ASSUME NEW c \in Callers,
             RefuseIssue(c) \/ RefuseAccess(c) \/ Replay(c) \/ RefuseCharge(c)
      PROVE  spaces' = spaces
  BY <1>5 DEF RefuseIssue, RefuseAccess, Replay, RefuseCharge, stored
<1>6. ASSUME NEW c \in Callers, Request(c) PROVE spaces' = spaces
  BY <1>6 DEF Request, AskNew, AskOwn, AskCharge, Ask, stored
<1>7. CASE Tick \/ Restart \/ UNCHANGED vars
  BY <1>1, <1>4, <1>7 DEF Tick, Restart, vars, stored
<1> QED BY <1>1, <1>2, <1>3, <1>4, <1>5, <1>6, <1>7 DEF Next, Serve

(* The invariant holds initially.                                            *)
LEMMA InitInv == Init => IInv
<1> SUFFICES ASSUME Init PROVE IInv
  OBVIOUS
<1>1. Mutations = {}
  BY DEF Init, Mutations
<1>2. Unretired = {}
  BY DEF Init, Unretired
<1>3. Cardinality({}) = 0
  BY FS_EmptySet
<1>4. \A x : Cardinality({}) <= MaxWorkspaces /\ GlobalPerMinute >= 0 /\ PerMinute >= 0
             /\ AttemptsPerDay >= 0 /\ DraftsPerHour >= 0
  BY <1>3, ValuesAssumption
<1>7. Rates
  <2>1. OfKind("GEMINI_ATTEMPT") = {}
    BY <1>1 DEF OfKind
  <2> SUFFICES ASSUME NEW t \in 0 .. MaxTime
               PROVE  /\ Cardinality(Within(Mutations, t, Minute)) <= GlobalPerMinute
                      /\ Cardinality(Within(OfKind("GEMINI_ATTEMPT"), t, Day))
                            <= AttemptsPerDay
                      /\ \A w \in Workspaces :
                          /\ Cardinality(Within(Of(w), t, Minute)) <= PerMinute
                          /\ Cardinality(Within(Of(w) \cap OfKind("GEMINI_DRAFT"), t, Hour))
                                <= DraftsPerHour
    BY DEF Rates
  <2>2. /\ Within(Mutations, t, Minute) = {}
        /\ Within(OfKind("GEMINI_ATTEMPT"), t, Day) = {}
    BY <1>1, <2>1 DEF Within
  <2>3. ASSUME NEW w \in Workspaces
        PROVE  /\ Within(Of(w), t, Minute) = {}
               /\ Within(Of(w) \cap OfKind("GEMINI_DRAFT"), t, Hour) = {}
    BY <1>1 DEF Within, Of
  <2> QED BY <1>3, <1>4, <2>2, <2>3
<1>8. Paid /\ Counted /\ RowsOfIssued /\ SelectionsNamed /\ Accounted
  BY <1>1 DEF Init, Accounted, Paid, Bundled, Counted, RowsOfIssued, SelectionsNamed, OfKind,
              Of, Waiting, Idle
<1> QED BY <1>2, <1>4, <1>7, <1>8, InitTyped, Parts DEF IInv

(* Every step keeps the invariant.                                            *)
LEMMA NextInv == IInv /\ [Next]_vars => IInv'
<1> SUFFICES ASSUME IInv, [Next]_vars PROVE IInv'
  OBVIOUS
<1>1. TypeOK /\ SelectionsNamed /\ Cardinality(Unretired) <= MaxWorkspaces
  BY Parts DEF IInv
<1>2. LedgerInv /\ Accounted
  BY Parts DEF IInv, LedgerInv
<1>3. TypeOK'
  BY <1>1, NextTyped
<1>4. SelectionsNamed'
  BY <1>1, NamedKept
<1>5. LedgerInv'
  BY <1>1, <1>2, LedgerKept
<1>6. Cardinality(Unretired') <= MaxWorkspaces
  BY <1>1, UnretiredKept
<1>7. LimitsRespected'
  BY <1>5, <1>6 DEF LedgerInv, LimitsRespected, Rates, Of
<1>9. Accounted'
  BY <1>1, <1>2, AccountedKept
<1>8. ChargesMatchRows'
  BY <1>5, <1>9 DEF LedgerInv, ChargesMatchRows, Counted, Paid, Bundled, Accounted
<1> QED BY <1>3, <1>4, <1>5, <1>7, <1>8 DEF IInv, LedgerInv

(* The ledger's invariant holds in every reachable state.                    *)
THEOREM LedgerInvariant == Spec => []IInv
BY InitInv, NextInv, PTL DEF Spec

(* Every variable keeps its type.                                             *)
THEOREM LedgerTyped == Spec => []TypeOK
<1>1. IInv => TypeOK
  BY DEF IInv
<1> QED BY <1>1, LedgerInvariant, PTL

(* No stretch of time of the span of a quota holds more mutations than the  *)
(* quota allows, and no more workspaces are unretired than the store may     *)
(* hold, in whatever order the calls are served.                              *)
THEOREM LimitsHold == Spec => []LimitsRespected
<1>1. IInv => LimitsRespected
  BY DEF IInv
<1> QED BY <1>1, LedgerInvariant, PTL

(* The counters of a workspace count its rows, every selection and every     *)
(* bundle was charged, once, to the workspace that holds it, and what an      *)
(* occurrence left unpaid stands only in a retired workspace.                 *)
THEOREM ChargesMatch == Spec => []ChargesMatchRows
<1>1. IInv => ChargesMatchRows
  BY DEF IInv
<1> QED BY <1>1, LedgerInvariant, PTL

-----------------------------------------------------------------------------
(* What a step may do to the tables.                                          *)

Trace ==
    /\ answer' = "unchanged" => UNCHANGED stored
    /\ answer' = "expired" =>
          /\ UNCHANGED <<release, ledger, selections, results>>
          /\ \E w \in Unretired :
                /\ spaces' = [spaces EXCEPT ![w].retired = TRUE]
                /\ occurrences \subseteq occurrences'
                /\ occurrences' \ occurrences \subseteq {w} \X Keys
    /\ \A w \in Workspaces : spaces[w] # None /\ spaces[w].retired =>
          /\ spaces'[w] = spaces[w] /\ ledger'[w] = ledger[w]
          /\ OccurrencesOf(w)' = OccurrencesOf(w)

(* A step other than those that serve a call tells nothing and leaves the    *)
(* workspaces and their rows.                                                 *)
LEMMA SilentTrace ==
    ASSUME answer' = None, UNCHANGED <<spaces, ledger, occurrences>>
    PROVE  Trace
<1>1. None # "unchanged" /\ None # "expired"
  BY ValuesAssumption DEF Outcomes
<1> QED BY <1>1 DEF Trace, OccurrencesOf

(* A step that changes anything is told so, and a retired workspace never    *)
(* changes.                                                                   *)
LEMMA NextTrace == TypeOK /\ Next => Trace
<1> SUFFICES ASSUME TypeOK, Next PROVE Trace
  OBVIOUS
<1>1. ASSUME NEW c \in Callers, Request(c) PROVE Trace
  BY <1>1, SilentTrace DEF Request, AskNew, AskOwn, AskCharge, Ask, stored
<1>2. ASSUME NEW c \in Callers, Serve(c) PROVE Trace
  <2>1. ASSUME NEW w \in Workspaces, Issue(c, w) PROVE Trace
    <3>1. answer' = "served" /\ UNCHANGED <<ledger, occurrences>> /\ spaces[w] = None
      BY <2>1 DEF Issue, Tell
    <3>2. \A v \in Workspaces \ {w} : spaces'[v] = Swept(calls[c].at)[v]
      BY <2>1 DEF Issue, Swept
    <3>3. \A v \in Workspaces : spaces[v] # None /\ spaces[v].retired =>
             spaces'[v] = spaces[v]
      BY <3>1, <3>2 DEF Swept, Unretired
    <3> QED BY <3>1, <3>3 DEF Trace, OccurrencesOf
  <2>2. ASSUME Touch(c) PROVE Trace
    <3>1. answer' = "served" /\ UNCHANGED <<ledger, occurrences>>
      BY <2>2 DEF Touch, Tell
    <3>2. /\ calls[c].space \in Unretired
          /\ spaces' = [spaces EXCEPT ![calls[c].space].seen = calls[c].at]
      BY <2>2 DEF Touch, Active, Known
    <3>3. \A v \in Workspaces : spaces[v] # None /\ spaces[v].retired =>
             spaces'[v] = spaces[v]
      BY <3>2 DEF Unretired, TypeOK
    <3> QED BY <3>1, <3>3 DEF Trace, OccurrencesOf
  <2>3. ASSUME Expire(c) PROVE Trace
    <3>1. /\ answer' = "expired" /\ UNCHANGED <<release, ledger, selections, results>>
          /\ calls[c].space \in Unretired
          /\ spaces' = [spaces EXCEPT ![calls[c].space].retired = TRUE]
      BY <2>3 DEF Expire, Tell, Known
    <3>2. \A v \in Workspaces : spaces[v] # None /\ spaces[v].retired =>
             spaces'[v] = spaces[v]
      BY <3>1 DEF Unretired, TypeOK
    <3>3. PICK rows \in WrittenAhead(c) : occurrences' = occurrences \cup rows
      BY <2>3 DEF Expire
    <3>4. rows \subseteq {calls[c].space} \X Keys
      BY <2>3, <3>3, WaitingTyped DEF WrittenAhead, Charges
    <3>5. \A v \in Workspaces : spaces[v] # None /\ spaces[v].retired =>
             OccurrencesOf(v)' = OccurrencesOf(v)
      BY <3>1, <3>3, <3>4 DEF Unretired, OccurrencesOf
    <3>6. /\ occurrences \subseteq occurrences'
          /\ occurrences' \ occurrences \subseteq {calls[c].space} \X Keys
      BY <3>3, <3>4
    <3> QED BY <3>1, <3>2, <3>5, <3>6 DEF Trace
  <2>4. ASSUME Record(c) PROVE Trace
    <3>1. /\ answer' = "served" /\ calls[c].space \in Unretired
          /\ calls[c].space \in Workspaces
      BY <2>4 DEF Record, Tell, Admissible, Active, Known, Unretired
    <3>2. \A v \in Workspaces \ {calls[c].space} :
             spaces'[v] = spaces[v] /\ ledger'[v] = ledger[v]
      BY <2>4 DEF Record, TypeOK
    <3>3. \A v \in Workspaces : spaces[v] # None /\ spaces[v].retired =>
             v # calls[c].space
      BY <3>1 DEF Unretired
    <3>4. occurrences' \subseteq occurrences \cup {<<calls[c].space, calls[c].key>>}
          /\ occurrences \subseteq occurrences'
      BY <2>4 DEF Record
    <3>5. \A v \in Workspaces : spaces[v] # None /\ spaces[v].retired =>
             OccurrencesOf(v)' = OccurrencesOf(v)
      BY <3>3, <3>4 DEF OccurrencesOf
    <3> QED BY <3>1, <3>2, <3>3, <3>5 DEF Trace
  <2>5. ASSUME RefuseIssue(c) \/ RefuseAccess(c) \/ Replay(c) \/ RefuseCharge(c)
        PROVE  Trace
    BY <2>5 DEF RefuseIssue, RefuseAccess, Replay, RefuseCharge, Tell, Trace, stored, OccurrencesOf
  <2> QED BY <1>2, <2>1, <2>2, <2>3, <2>4, <2>5 DEF Serve
<1>3. CASE Tick \/ Restart
  BY <1>3, SilentTrace DEF Tick, Restart, stored
<1> QED BY <1>1, <1>2, <1>3 DEF Next

(* A refused or replayed call leaves every table; one that finds its         *)
(* workspace lapsed retires it and leaves at most rows of an occurrence there *)
(* (_active_row_locked under publish_decision_brief and                       *)
(* record_manager_decision); and what a retired workspace holds never changes.*)
THEOREM RefusalsLeaveNoLiveTrace == Spec => RefusalLeavesNoLiveTrace
<1>1. TypeOK /\ [Next]_vars => [Trace]_vars
  BY NextTrace
<1>2. Spec => [][Trace]_vars
  BY <1>1, LedgerTyped, PTL DEF Spec
<1> QED BY <1>2 DEF RefusalLeavesNoLiveTrace, Trace
=============================================================================
