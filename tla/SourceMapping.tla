----------------------------- MODULE SourceMapping -----------------------------
(***************************************************************************)
(* How the adapters turn the rows of a bundled source into canonical       *)
(* order lines, events, source observations and findings                   *)
(* (backend/app/ingestion.py:374-2302).  A row names its order line, its   *)
(* supplier (with the group), one field standing for the nine, and events  *)
(* (hero) or raw timestamps (Olist, SCMS).  Ids are hashes of what they    *)
(* name, so a record is its id; rules, messages and digests are left out.  *)
(***************************************************************************)
EXTENDS Naturals, FiniteSets, SequencesExt

CONSTANT None       \* no source key

HERO == "semi-synthetic-hero"
OLIST == "olist-validation"
SCMS == "scms-rejection-vignette"
Datasets == {HERO, OLIST, SCMS}

EventKinds == {"committed", "promise_recorded", "promise_revised", "milestone_reached",
               "cancelled"}
Promises == {"promise_recorded", "promise_revised"}
SupportedMilestones == {"supplier_completion", "supplier_handoff", "customer_delivery", "other"}

Field(s) == [state |-> s]
Present(v) == [state |-> "present", value |-> v]

-----------------------------------------------------------------------------
(* Values.                                                                 *)

Zoned == {"known", "assumed"}

(* _temporal of a stated time.  MALFORMED is no mapping, no text, another  *)
(* kind or zone status, or an instant that does not parse.                 *)
Temporal(raw) ==
    CASE raw.form = "ABSENT"    -> Field("missing")
      [] raw.form = "NULL"      -> Field("unresolved")
      [] raw.form = "MALFORMED" -> Field("invalid")
      [] raw.form = "STATED"    ->
            IF raw.status \in Zoned /\ (~raw.zone \/ (raw.kind = "instant" /\ ~raw.offset))
            THEN Field("unresolved")
            ELSE Present([at |-> raw.at, kind |-> raw.kind, status |-> raw.status])

(* _typed_field.                                                           *)
TypedField(raw) ==
    CASE raw.form = "ABSENT" -> Field("missing")
      [] raw.form \in {"NULL", "VALUELESS", "UNKNOWN_STATE"} -> Field("unresolved")
      [] raw.form = "SCALAR" -> Field("invalid")
      [] raw.form = "STATE"  -> Field(raw.state)
      [] raw.form = "VALUE"  -> Present(raw.value)

(* _public_field of the price of Olist or the product group of SCMS.       *)
PublicField(raw) ==
    CASE raw.form \in {"ABSENT", "BLANK"} -> Field("missing")
      [] raw.form = "NULL"       -> Field("unknown")
      [] raw.form = "WRONG_TYPE" -> Field("invalid")
      [] raw.form = "VALUE"      -> Present(raw.value)

(* The missingness tokens of the SCMS manifest; Olist declares none.       *)
Tokens(d) ==
    IF d = SCMS
    THEN [token \in {"Date Not Captured", "N/A - From RDC"} |->
            IF token = "Date Not Captured" THEN "unknown" ELSE "not_applicable"]
    ELSE <<>>

(* _public_temporal: Olist assumes a timezone, SCMS does not.  The zone is  *)
(* always found: the locked dependencies bring the database (uv.lock:856). *)
PublicTemporal(d, raw) ==
    CASE raw.form = "ABSENT" -> Field("missing")
      [] raw.form \in {"NULL", "BLANK"} -> Field("unknown")
      [] raw.form \in {"NUMBER", "BAD_DATE"} -> Field("invalid")
      [] raw.form = "WORDS"  ->
            Field(IF raw.text \in DOMAIN Tokens(d) THEN Tokens(d)[raw.text] ELSE "invalid")
      [] raw.form = "DATE"   ->
            Present([at |-> raw.at, kind |-> "date", status |-> "not_applicable"])
      [] raw.form = "DATETIME" /\ (raw.offset \/ d = OLIST) ->
            Present([at |-> raw.at, kind |-> "instant",
                     status |-> IF raw.offset THEN "known" ELSE "assumed"])
      [] OTHER ->
            Present([at |-> raw.at, kind |-> "local_datetime", status |-> "unknown"])

(* _public_temporal_failure_code: none for what is not text.               *)
FailureCode(d, raw) ==
    CASE raw.form = "NUMBER" -> "NONE"
      [] d = SCMS /\ raw.form = "WORDS" -> "MISSINGNESS_TOKEN_UNMAPPED"
      [] OTHER -> "TIMESTAMP_INVALID"

-----------------------------------------------------------------------------
(* What a bundle collects.  Its records come first; a finding is what its  *)
(* id covers, so repeated ones are one.                                    *)

EmptyBundle == [lines |-> <<>>, events |-> <<>>, seen |-> {}, observations |-> <<>>,
                findings |-> {}]

LineRef(line) == <<line, "line">>
EventRef(key) == <<key, "event">>

Finding(code, ref, disposition) == [code |-> code, ref |-> ref, disposition |-> disposition]

Find(b, found) == [b EXCEPT !.findings = @ \cup found]

Put(f, k, v) == [x \in DOMAIN f \cup {k} |-> IF x \in DOMAIN f THEN f[x] ELSE v]

(* A defect: of two contradicting lines the first is silently kept.        *)
AddLineKeepingFirst(b, key, line) == [b EXCEPT !.lines = Put(@, key, line)]

AddLine(b, key, line) ==
    IF key \notin DOMAIN b.lines THEN [b EXCEPT !.lines = Put(@, key, line)]
    ELSE Find(b, {IF b.lines[key] = line
                  THEN Finding("SOURCE_DUPLICATE_DEDUPED", LineRef(key), "advisory")
                  ELSE Finding("IDENTITY_COLLISION", LineRef(key), "reject_run")})

(* A defect: a repeated event is taken for a conflict.                     *)
AddEventOnce(b, key, event) ==
    IF key \notin DOMAIN b.events THEN [b EXCEPT !.events = Put(@, key, event)]
    ELSE Find(b, {Finding("EVENT_ID_CONTENT_CONFLICT", key, "reject_run")})

AddEvent(b, key, event) ==
    IF key \notin DOMAIN b.events THEN [b EXCEPT !.events = Put(@, key, event)]
    ELSE Find(b, {IF b.events[key] = event
                  THEN Finding("SOURCE_DUPLICATE_DEDUPED", key, "advisory")
                  ELSE Finding("EVENT_ID_CONTENT_CONFLICT", key, "reject_run")})

(* _source_observation: its id is the target field and the place in the    *)
(* source; the first one stays, with the clocks it was seen with.          *)
Observe(b, target, paths, locator, clocks) ==
    LET ids == {<<target, p, locator>> : p \in paths}
    IN [b EXCEPT !.observations =
          [i \in DOMAIN @ \cup ids |-> IF i \in DOMAIN b.observations THEN @[i] ELSE clocks]]

Clocks(known, available) == [known |-> known, available |-> available]

LinePaths == {"order_line_id", "supplier_id"}
EventPaths == {"kind", "milestone", "occurred", "known", "available", "promised", "reason",
               "revises"}

FoundIf(condition, finding) == IF condition THEN {finding} ELSE {}

-----------------------------------------------------------------------------
(* The hero adapter.                                                       *)

(* Only an event that came before, in this row or an earlier one, or the   *)
(* event itself, is found as the promise it revises.                       *)
Revises(b, event) ==
    IF event.revises # None /\ event.revises \in b.seen THEN Present(event.revises)
    ELSE Field(IF event.kind = "promise_revised" THEN "unresolved" ELSE "not_applicable")

Milestone(event) ==
    IF event.kind \notin Promises \cup {"milestone_reached"} THEN Field("not_applicable")
    ELSE Present(IF event.milestone \in SupportedMilestones THEN event.milestone ELSE "other")

CanonicalEvent(b, row, event) ==
    [line |-> row.line, kind |-> event.kind, milestone |-> Milestone(event),
     occurred |-> Temporal(event.occurred), known |-> Temporal(event.known),
     available |-> Temporal(event.available),
     promised |-> IF event.kind \in Promises THEN Temporal(event.promised)
                  ELSE Field("not_applicable"),
     reason |-> IF event.reason = None THEN Field("missing") ELSE Present(event.reason),
     revises |-> Revises(b, event)]

EventFindings(event, canonical) ==
    FoundIf(canonical.known.state = "unresolved",
            Finding("KNOWN_AT_UNKNOWN", EventRef(event.key), "advisory"))
    \cup FoundIf(canonical.occurred.state = "present"
                   /\ canonical.occurred.value.status = "unknown",
                 Finding("TIMEZONE_UNKNOWN", EventRef(event.key), "advisory"))
    \cup FoundIf(canonical.milestone = Present("other") /\ event.milestone # "other",
                 Finding("MILESTONE_KIND_UNSUPPORTED", EventRef(event.key), "advisory"))

MapsEvent(event) == event.key # None /\ event.kind \in EventKinds

(* The loop over the events of a row.                                      *)
HeroEvent(row, b, event) ==
    IF ~MapsEvent(event)
    THEN Find(b, {Finding("ADAPTER_CONTRACT_VIOLATION", LineRef(row.line), "reject_run")})
    ELSE LET named == [b EXCEPT !.seen = @ \cup {event.key}]
             canonical == CanonicalEvent(named, row, event)
             found == Find(named, EventFindings(event, canonical))
         IN Observe(AddEvent(found, EventRef(event.key), canonical), EventRef(event.key),
                    EventPaths, row.line,
                    Clocks(canonical.known, canonical.available))

(* The clocks of the last commitment among the events of a row.            *)
Commitment(row) ==
    LET committed == SelectSeq(row.events, LAMBDA e : MapsEvent(e) /\ e.kind = "committed")
    IN IF committed = <<>> THEN Clocks(Field("unresolved"), Field("unresolved"))
       ELSE Clocks(Temporal(Last(committed).known), Temporal(Last(committed).available))

HeroLine(row) == [supplier |-> row.supplier, field |-> TypedField(row.field)]

(* A row without one of its identities leaves only a finding.              *)
HeroRow(b, row) ==
    IF row.line = None
    THEN Find(b, {Finding("REQUIRED_ID_MISSING", None, "quarantine_record")})
    ELSE LET flagged == Find(b, FoundIf(HeroLine(row).field.state = "invalid",
                                        Finding("VALUE_OUT_OF_RANGE", LineRef(row.line),
                                                "invalidate_field")))
             lined == AddLine(flagged, row.line, HeroLine(row))
             evented == FoldLeft(LAMBDA acc, e : HeroEvent(row, acc, e), lined, row.events)
         IN Observe(evented, LineRef(row.line),
                    LinePaths \cup IF row.field.form = "ABSENT" THEN {} ELSE {"field"},
                    row.line, Commitment(row))

-----------------------------------------------------------------------------
(* The adapters of the public sources.                                     *)

PublicEvent(row, kind, milestone, occurred, known, promised) ==
    [line |-> row.line, kind |-> kind, milestone |-> milestone, occurred |-> occurred,
     known |-> known, available |-> known, promised |-> promised,
     reason |-> Field("not_applicable"), revises |-> Field("not_applicable")]

(* The transport events of an Olist row.                                   *)
OlistEvents(row) ==
    LET purchase == PublicTemporal(OLIST, row.committed)
        promised == PublicTemporal(OLIST, row.promised)
        reached == PublicTemporal(OLIST, row.reached)
        none == Field("not_applicable")
        handoff == Present("supplier_handoff")
    IN {e \in {PublicEvent(row, "committed", none, purchase, purchase, none)} :
           purchase.state = "present"}
       \cup {e \in {PublicEvent(row, "promise_recorded", handoff, purchase, purchase, promised)} :
                promised.state \in {"present", "unknown", "unresolved"}}
       \cup {e \in {PublicEvent(row, "milestone_reached", handoff, reached, Field("unknown"), none)} :
                reached.state = "present"}

(* The delivery events of an SCMS row.                                     *)
ScmsEvents(row) ==
    LET po == PublicTemporal(SCMS, row.committed)
        scheduled == PublicTemporal(SCMS, row.promised)
        delivered == PublicTemporal(SCMS, row.reached)
        recorded == PublicTemporal(SCMS, row.recorded)
        none == Field("not_applicable")
        delivery == Present("customer_delivery")
    IN {e \in {PublicEvent(row, "committed", none, po, Field("unresolved"), none)} :
           po.state = "present"}
       \cup {e \in {PublicEvent(row, "promise_recorded", delivery, Field("unknown"),
                                Field("unknown"), scheduled)} : scheduled.state = "present"}
       \cup {e \in {PublicEvent(row, "milestone_reached", delivery, delivered,
                                IF recorded.state = "present" THEN recorded
                                ELSE Field("unknown"), none)} : delivered.state = "present"}

RowEvents(d, row) == IF d = OLIST THEN OlistEvents(row) ELSE ScmsEvents(row)

Columns(d) == {"committed", "promised", "reached"} \cup IF d = SCMS THEN {"recorded"} ELSE {}

Backfilled(row) ==
    LET scheduled == PublicTemporal(SCMS, row.promised)
        delivered == PublicTemporal(SCMS, row.reached)
    IN /\ scheduled.state = "present" /\ delivered.state = "present"
       /\ scheduled.value.at = delivered.value.at
       /\ scheduled.value.kind = delivered.value.kind

(* What is wrong with the timestamps of a row.                             *)
TemporalFindings(d, row) ==
    {Finding(FailureCode(d, row[c]), <<row.line, c>>, "invalidate_field") :
        c \in {c \in Columns(d) : /\ PublicTemporal(d, row[c]).state = "invalid"
                                  /\ FailureCode(d, row[c]) # "NONE"}}
    \cup FoundIf(d = SCMS /\ Backfilled(row),
                 Finding("PROMISE_ACTUAL_EQUALITY_SUSPICIOUS", LineRef(row.line), "advisory"))
    \cup FoundIf(RowEvents(d, row) = {},
                 Finding("ADAPTER_CONTRACT_VIOLATION", LineRef(row.line), "quarantine_record"))

(* A defect: the recording of a delivery is no input of its clocks.        *)
SourcedOccurrenceOnly(d, event) ==
    IF event.kind = "promise_recorded" THEN {"promised"} ELSE {"occurred"}

(* The fields of an event that its row is named as the source of.          *)
Sourced(d, event) ==
    CASE event.kind = "committed" -> {"occurred"}
      [] event.kind = "promise_recorded" ->
            {"promised"} \cup IF d = OLIST THEN {"occurred"} ELSE {}
      [] event.kind = "milestone_reached" ->
            {"occurred"} \cup IF d = SCMS THEN {"known", "available"} ELSE {}

PublicEventFindings(key, event) ==
    FoundIf(event.known.state # "present", Finding("KNOWN_AT_UNKNOWN", key, "advisory"))
    \cup FoundIf(event.occurred.state = "present" /\ event.occurred.value.status = "assumed",
                 Finding("TIMEZONE_ASSUMED", key, "advisory"))

MergeEvent(d, b, event) ==
    LET key == <<event.line, event.kind>>
        found == Find(b, PublicEventFindings(key, event))
    IN Observe(AddEvent(found, key, event), key, Sourced(d, event), event.line,
               Clocks(event.known, event.available))

(* Only an Olist purchase dates the identity and the fields of its line.   *)
PublicCommitment(d, row) ==
    LET purchase == PublicTemporal(d, row.committed)
    IN IF d = OLIST /\ purchase.state = "present" THEN Clocks(purchase, purchase)
       ELSE Clocks(Field("unresolved"), Field("unresolved"))

PublicLine(row) == [supplier |-> row.supplier, field |-> PublicField(row.field)]

PublicRow(d, b, row) ==
    IF row.line = None
    THEN Find(b, {Finding("REQUIRED_ID_MISSING", None, "quarantine_record")})
    ELSE LET invalid == FoundIf(PublicLine(row).field.state = "invalid",
                                Finding("VALUE_PARSE_FAILED", LineRef(row.line),
                                        "invalidate_field"))
             lined == AddLine(Find(b, invalid \cup TemporalFindings(d, row)), row.line,
                              PublicLine(row))
             evented == FoldSet(LAMBDA e, acc : MergeEvent(d, acc, e), lined, RowEvents(d, row))
         IN Observe(evented, LineRef(row.line),
                    LinePaths \cup IF PublicLine(row).field.state = "present"
                                   THEN {"field"} ELSE {},
                    row.line, PublicCommitment(d, row))

-----------------------------------------------------------------------------
(* Bundles.                                                                *)

(* Of a public source every reviewed column occurs in some row.            *)
PublicShape(d, rows) ==
    /\ rows # <<>>
    /\ \A c \in Columns(d) \cup {"field"} :
          \E i \in DOMAIN rows : rows[i][c].form # "ABSENT"

(* A public mapping is the reviewed one, byte for byte, and its source has *)
(* the shape.  Of the hero mapping only the shape is checked: with other   *)
(* paths it reads other rows, and these are the rows of the source here.   *)
Readable(d, source) ==
    IF d = HERO THEN source.mapping # "MISSHAPEN"
    ELSE source.mapping = "REVIEWED" /\ PublicShape(d, source.rows)

BuildBundle(source) == FoldLeft(HeroRow, EmptyBundle, source.rows)

BuildPublicBundle(d, source) ==
    FoldLeft(LAMBDA b, row : PublicRow(d, b, row), EmptyBundle, source.rows)

Bundle(d, source) ==
    IF d = HERO THEN BuildBundle(source) ELSE BuildPublicBundle(d, source)

Rejected(b) == \E f \in b.findings : f.disposition = "reject_run"

(* record_counts.quarantine_records.                                       *)
QuarantineRecords(d, b) ==
    IF d = HERO THEN 0
    ELSE Cardinality({f \in b.findings : f.disposition = "quarantine_record"})
=============================================================================
