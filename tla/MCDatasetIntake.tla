---------------------------- MODULE MCDatasetIntake ----------------------------
(* Small instances of DatasetIntake for TLC: one dataset at a time is       *)
(* bundled with rows that depart from ordinary ones.                        *)
EXTENDS DatasetIntake

Stated(at) == [form |-> "STATED", at |-> at, kind |-> "instant", status |-> "known",
               offset |-> TRUE, zone |-> TRUE]
Form(f) == [form |-> f]
Value(v) == [form |-> "VALUE", value |-> v]
Words(t) == [form |-> "WORDS", text |-> t]
Date(at) == [form |-> "DATE", at |-> at]
Stamp(at, offset) == [form |-> "DATETIME", at |-> at, offset |-> offset]

HeroTimes == {Stated(2), Form("ABSENT"), Form("NULL"), Form("MALFORMED"),
              [Stated(1) EXCEPT !.offset = FALSE], [Stated(1) EXCEPT !.zone = FALSE],
              [Stated(1) EXCEPT !.kind = "local_datetime", !.status = "unknown"]}

Event(key, kind, revises) ==
    [key |-> key, kind |-> kind, milestone |-> "supplier_handoff", occurred |-> Stated(1),
     known |-> Stated(1), available |-> Stated(1), promised |-> Stated(3), reason |-> None,
     revises |-> revises]

Commit == Event("c", "committed", None)
Promise == Event("p", "promise_recorded", None)
Revision == Event("r", "promise_revised", "p")

(* A commitment that departs from the ordinary one in one way.             *)
Commits ==
    {Commit, [Commit EXCEPT !.key = None], [Commit EXCEPT !.kind = "other"],
     [Commit EXCEPT !.kind = "cancelled"], [Commit EXCEPT !.reason = "late"]}
    \cup UNION {{[Commit EXCEPT !.occurred = t], [Commit EXCEPT !.known = t]} : t \in HeroTimes}

EventLists ==
    {<<>>} \cup {<<e>> : e \in Commits}
    \cup {<<Commit, Promise, Revision>>, <<Promise, Revision>>, <<Revision, Promise>>,
          <<Revision>>, <<Promise>>, <<[Promise EXCEPT !.milestone = "dock"]>>,
          <<[Promise EXCEPT !.promised = Form("NULL")]>>, <<[Revision EXCEPT !.revises = "r"]>>,
          <<Commit, [Commit EXCEPT !.key = "c2", !.known = Stated(2)]>>}

HeroBase == [line |-> "l1", supplier |-> "s1", field |-> Value(1), events |-> <<Commit>>]
HeroFields == {Value(2), Form("ABSENT"), Form("NULL"), Form("VALUELESS"), Form("UNKNOWN_STATE"),
               Form("SCALAR"), [form |-> "STATE", state |-> "redacted"]}
HeroRows ==
    {HeroBase} \cup {[HeroBase EXCEPT !.events = e] : e \in EventLists}
    \cup {[HeroBase EXCEPT !.field = f] : f \in HeroFields}
    \cup {[HeroBase EXCEPT !.supplier = "s2"], [HeroBase EXCEPT !.line = None]}
    \cup {[HeroBase EXCEPT !.line = "l2", !.events = e] :
             e \in {<<>>, <<Commit>>, <<Revision>>, <<Promise>>}}

PublicBase ==
    [line |-> "l1", supplier |-> "s1", field |-> Value(1), committed |-> Date(1),
     promised |-> Date(3), reached |-> Date(4), recorded |-> Date(4)]
PublicTimes ==
    {Date(3), Stamp(1, TRUE), Stamp(1, FALSE), Form("ABSENT"), Form("NULL"), Form("BLANK"),
     Form("NUMBER"), Form("BAD_DATE"), Words("Date Not Captured"), Words("N/A - From RDC"),
     Words("soon")}
PublicFields == {Value(2), Form("ABSENT"), Form("BLANK"), Form("NULL"), Form("WRONG_TYPE")}
Eventless == [PublicBase EXCEPT !.committed = Form("BLANK"), !.promised = Form("BAD_DATE"),
                                !.reached = Form("BLANK")]
PublicRows ==
    {PublicBase, Eventless, [PublicBase EXCEPT !.supplier = "s2"],
     [PublicBase EXCEPT !.line = None], [PublicBase EXCEPT !.line = "l2"]}
    \cup {[PublicBase EXCEPT !.field = f] : f \in PublicFields}
    \cup UNION {{[PublicBase EXCEPT ![c] = t] :
                   c \in {"committed", "promised", "reached", "recorded"}} : t \in PublicTimes}

(* One row, or two of which one is in a few. *)
Files(rows, few) == {<<r>> : r \in rows} \cup (few \X rows) \cup (rows \X few)
Source(rows) == [rows |-> rows, mapping |-> "REVIEWED"]

Ordinary ==
    [d \in Datasets |-> Source(<<IF d = HERO THEN HeroBase ELSE PublicBase>>)]

HeroFew ==
    {HeroBase, [HeroBase EXCEPT !.events = <<Commit, Promise, Revision>>],
     [HeroBase EXCEPT !.line = "l2", !.events = <<Promise>>]}
PublicFew == {PublicBase, Eventless}

MCSources ==
    {Ordinary}
    \cup {[d \in Datasets |-> [Ordinary[d] EXCEPT !.mapping = m]] : m \in {"CHANGED", "MISSHAPEN"}}
    \cup {HERO :> Source(f) : f \in Files(HeroRows, HeroFew) \cup {<<>>}}
    \cup UNION {{d :> Source(f) : f \in Files(PublicRows, PublicFew) \cup {<<>>}} :
                d \in {OLIST, SCMS}}

MCSymmetry == Permutations(Keys) \cup Permutations(Workspaces)
=============================================================================
