----------------------------- MODULE DatasetIntake -----------------------------
(***************************************************************************)
(* The import of the bundled datasets and the reading of their lineage     *)
(* (backend/app/ingestion.py:2304-2909 and the handlers of                 *)
(* /api/ingestion-runs and /api/datasets in main.py).  Each import is one  *)
(* transaction under the store's lock, so it is one step; the lineage      *)
(* handler reads and then binds, and what it reads never changes.  A       *)
(* repeated key, a conflict or a wrong manifest is answered and is no step.*)
(***************************************************************************)
EXTENDS SourceMapping

CONSTANTS
    Keys,           \* idempotency keys of imports
    Workspaces,
    Sources         \* what the release may bundle: datasets to sources

(* A file lists its rows, and a row of the hero file its events.           *)
Listed(q) == q \in Seq(Range(q))

IsSource(d, source) ==
    /\ source = [rows |-> source.rows, mapping |-> source.mapping]
    /\ Listed(source.rows)
    /\ d = HERO => \A i \in DOMAIN source.rows : Listed(source.rows[i].events)

ASSUME SourcesAssumption ==
    \A s \in Sources :
        DOMAIN s \subseteq Datasets /\ \A d \in DOMAIN s : IsSource(d, s[d])

VARIABLES
    bundled,        \* the source and mapping files of each dataset
    imports,        \* ingestion_runs, in the order of their commits
    versions,       \* dataset_versions with their lineage_records
    views           \* lineage_snapshots, in the order of their audit events,
                    \* each with the run that the answer names beside it

vars == <<bundled, imports, versions, views>>

Runs == 1 .. Len(imports)
VersionOf(d, source) == [dataset |-> d, source |-> source]

Init ==
    /\ bundled \in Sources
    /\ imports = <<>>
    /\ versions = {}
    /\ views = <<>>

NoVersion == [dataset |-> None]

Answer(key, d, status, version) ==
    [key |-> key, dataset |-> d, status |-> status, version |-> version]

Fresh(key) == \A r \in Runs : imports[r].key # key

(* The mapping is not the reviewed one, or this time a file is not read:   *)
(* the failure is recorded under the key.                                  *)
FailImport(key, d) ==
    /\ Fresh(key)
    /\ imports' = Append(imports, Answer(key, d, "FAILED", NoVersion))
    /\ UNCHANGED <<bundled, versions, views>>

(* A finding rejects the run: recorded, and nothing is published.          *)
RejectImport(key, d) ==
    /\ Fresh(key)
    /\ Readable(d, bundled[d])
    /\ Rejected(Bundle(d, bundled[d]))
    /\ imports' = Append(imports, Answer(key, d, "FAILED", NoVersion))
    /\ UNCHANGED <<bundled, versions, views>>

Published(id, by) ==
    [id |-> id, by |-> by, content |-> Bundle(id.dataset, id.source),
     quarantined |-> QuarantineRecords(id.dataset, Bundle(id.dataset, id.source))]

(* A defect: a repeated import replaces the metadata of the version.       *)
StoreReplacing(id, by) == {v \in versions : v.id # id} \cup {Published(id, by)}

(* The version is named by its content; one that exists is reused.         *)
Store(id, by) ==
    IF \E v \in versions : v.id = id THEN versions ELSE versions \cup {Published(id, by)}

PublishImport(key, d) ==
    LET id == VersionOf(d, bundled[d])
    IN /\ Fresh(key)
       /\ Readable(d, bundled[d])
       /\ ~Rejected(Bundle(d, bundled[d]))
       /\ imports' = Append(imports, Answer(key, d, "SUCCEEDED", id))
       /\ versions' = Store(id, Len(imports) + 1)
       /\ UNCHANGED <<bundled, views>>

Bound(w, id) == \E i \in DOMAIN views : views[i].workspace = w /\ views[i].version = id

(* get_dataset_lineage: the first reading by a workspace binds a snapshot. *)
(* The run it names is of the version and the earliest by its start, not   *)
(* by its commit; starts are wall clock readings, so it may be any.        *)
ViewLineage(w, v, r) ==
    /\ imports[r].version = v.id
    /\ ~Bound(w, v.id)
    /\ views' = Append(views, [workspace |-> w, version |-> v.id, run |-> r, content |-> v])
    /\ UNCHANGED <<bundled, imports, versions>>

Next ==
    \/ \E k \in Keys, d \in DOMAIN bundled :
          FailImport(k, d) \/ RejectImport(k, d) \/ PublishImport(k, d)
    \/ \E w \in Workspaces, v \in versions, r \in Runs : ViewLineage(w, v, r)

Spec == Init /\ [][Next]_vars

-----------------------------------------------------------------------------
(* Properties.                                                             *)

Mapped(rows) == {i \in DOMAIN rows : rows[i].line # None}

(* No observation wins over a contradicting one: what is published agrees  *)
(* with every mapped row of its source, so that rows that contradict each  *)
(* other publish nothing (ingestion.py:972-996, 1143-1163, 1615-1650,      *)
(* 2017-2047).  The link of a revision alone depends on the place in the   *)
(* file.                                                                   *)
ContradictionsRejectRun ==
    \A v \in versions :
        LET b == v.content
            d == v.id.dataset
            rows == v.id.source.rows
            Unlinked(e) == [e EXCEPT !.revises = Field("not_applicable")]
        IN \A i \in Mapped(rows) :
              /\ b.lines[rows[i].line] = IF d = HERO THEN HeroLine(rows[i]) ELSE PublicLine(rows[i])
              /\ IF d = HERO
                 THEN \A j \in DOMAIN rows[i].events :
                         LET e == rows[i].events[j]
                         IN Unlinked(b.events[EventRef(e.key)]) = Unlinked(CanonicalEvent(b, rows[i], e))
                 ELSE \A e \in RowEvents(d, rows[i]) : b.events[<<e.line, e.kind>>] = e

EventPlaces(rows) == UNION {{<<i, j>> : j \in DOMAIN rows[i].events} : i \in Mapped(rows)}

(* Some event revises a promise that stands only later in the file.        *)
LooksAhead(rows) ==
    \E x \in EventPlaces(rows) :
        LET targets == {y \in EventPlaces(rows) :
                          rows[y[1]].events[y[2]].key = rows[x[1]].events[x[2]].revises}
        IN /\ rows[x[1]].events[x[2]].revises # None
           /\ targets # {}
           /\ \A y \in targets : y[1] > x[1] \/ (y[1] = x[1] /\ y[2] > x[2])

(* What is published would have been published from a source that repeats  *)
(* one of its rows, with the same records, as long as promises stand       *)
(* before their revisions (ingestion.py:997-1013, 1164-1180, 1651-1664,    *)
(* 2048-2062).                                                             *)
RepeatedRowsDeduplicate ==
    \A v \in versions :
        LET rows == v.id.source.rows
            Twice(i) == Bundle(v.id.dataset, [v.id.source EXCEPT !.rows = Append(@, rows[i])])
        IN ~(v.id.dataset = HERO /\ LooksAhead(rows)) =>
              \A i \in DOMAIN rows :
                  /\ ~Rejected(Twice(i))
                  /\ Twice(i).lines = v.content.lines
                  /\ Twice(i).events = v.content.events

Populated(event) == {"kind"} \cup {p \in EventPaths \ {"kind"} : event[p].state = "present"}

Observed(b, target, path) == \E o \in DOMAIN b.observations : o[1] = target /\ o[2] = path

(* Every populated field of what is published is observed in the source,   *)
(* but for the kinds that a public adapter's mapping fixes and the clocks  *)
(* that Olist copies from another column (ingestion.py:1182-1245,          *)
(* 2083-2107).                                                             *)
FieldsAreObserved ==
    \A v \in versions :
        LET b == v.content
            d == v.id.dataset
        IN /\ \A l \in DOMAIN b.lines :
                 b.lines[l].field.state = "present" => Observed(b, LineRef(l), "field")
           /\ \A e \in DOMAIN b.events : \A p \in Populated(b.events[e]) :
                 \/ Observed(b, e, p)
                 \/ d # HERO /\ p \in {"kind", "milestone"}
                 \/ d = OLIST /\ p \in {"known", "available"} /\ Observed(b, e, "occurred")

(* A version is published once: it keeps the run that published it, the    *)
(* first that succeeded with it, and what a workspace was shown of it is   *)
(* what stands, whichever later run the lineage names beside it            *)
(* (ingestion.py:2529-2598, 2700-2735, 2764-2909).                         *)
PublicationIsFirst ==
    /\ \A r \in Runs : imports[r].status = "SUCCEEDED" =>
          \E v \in versions :
              /\ v.id = imports[r].version
              /\ v.by = Min({q \in Runs : imports[q].version = v.id})
    /\ \A i \in DOMAIN views : views[i].content \in versions
=============================================================================
