------------------------------ MODULE Evidence ------------------------------
(***************************************************************************)
(* The evidence records of domain/evidence.py: what each record class      *)
(* admits, how a caller builds requests, runs, assessments and the other   *)
(* records one after the other, composes an envelope of them, and maps a   *)
(* legacy snapshot into an envelope and back.                              *)
(*                                                                         *)
(* A record is a value; its class is the operator that says which field    *)
(* values it admits.  A child is always a value of the class its field     *)
(* declares (the Python guards refuse anything else, JSON reconstructs     *)
(* it), and a lexeme that fits its grammar is a model value.  Every tuple  *)
(* field has a bound of its own in the code; here they share MaxEntries.   *)
(***************************************************************************)
EXTENDS Integers, Sequences, FiniteSets, FiniteSetsExt, SequencesExt

CONSTANTS
    None,           \* the absent optional value
    RequestIds,     \* retrieval request ids, [run |-> ..., ordinal |-> ...]
    Times,          \* instants: zero-offset times, normalized to UTC
    Keys,           \* ids of relations and of assessments
    Requirements,   \* ids of requirements
    Records,        \* durable evidence record references
    Snapshots,      \* legacy artifact snapshots
    Publications,   \* the publications a caller tries to state
    MaxEntries,     \* the bound of every tuple field
    MaxDesk         \* bound of the model: records a caller holds at once

ASSUME EvidenceAssumption ==
    /\ None \notin Times \cup Records \cup Snapshots
    /\ \A s \in Snapshots : None # <<s>>
    /\ RequestIds \subseteq [run : {i.run : i \in RequestIds}, ordinal : Nat \ {0}]
    /\ Times \subseteq Nat
    /\ MaxEntries \in Nat \ {0}
    /\ MaxDesk \in Nat

RunIds == {i.run : i \in RequestIds}
Optional(S) == S \cup {None}
TuplesOf(S, least, most) == UNION {[1..n -> S] : n \in least..most}
Distinct(s) == \A i, j \in DOMAIN s : s[i] = s[j] => i = j
Values(s) == {s[i] : i \in DOMAIN s}
Bounded(s, least) == Len(s) \in least..MaxEntries

(***************************************************************************)
(* Requests and acquisition runs                                           *)
(***************************************************************************)
ReferenceOK(reference) == reference.role = "retrieval"

\* A parameter with a value has its own delimiter, and parameters follow a "?".
ControlsOK(controls) ==
    /\ \A p \in Values(controls.parameters) : p.value => p.delimited
    /\ controls.parameters # <<>> => controls.delimited
    /\ Bounded(controls.parameters, 0)

\* Parameters of a media type need the media type.
ResponseOK(response) == response.parameters => response.media_type

MembershipOK(id, reference, response, artifacts) ==
    /\ reference # None => reference.request = id
    /\ response # None => response.request = id
    /\ artifacts # None => /\ \A i \in DOMAIN artifacts : artifacts[i].request = id
                           /\ Distinct([i \in DOMAIN artifacts |-> artifacts[i].identity])
                           /\ Bounded(artifacts, 0)

References ==
    {r \in [request : RequestIds, role : {"navigation", "retrieval"}, started : Times] :
        ReferenceOK(r)}
Responses ==
    {r \in [request : RequestIds, media_type : BOOLEAN, parameters : BOOLEAN,
            completed : Times] : ResponseOK(r)}
Controls ==
    {c \in [delimited : BOOLEAN,
            parameters : TuplesOf([value : BOOLEAN, delimited : BOOLEAN], 0, 1)] :
        ControlsOK(c)}
ArtifactTuples ==
    TuplesOf([request : RequestIds, identity : {"first", "second"}], 0, 2)

\* What the records that hold a membership look at: its id, the times it
\* carries, and the request ids its parts name.
Membership(id, reference, response, artifacts) ==
    [key |-> id,
     started |-> IF reference = None THEN None ELSE reference.started,
     completed |-> IF response = None THEN None ELSE response.completed,
     names |-> {p.request : p \in ({reference, response} \ {None})
                   \cup (IF artifacts = None THEN {} ELSE Values(artifacts))}]

Memberships ==
    LET parts == {p \in RequestIds \X Optional(References) \X Optional(Controls)
                        \X Optional(Responses) \X Optional(ArtifactTuples) :
                    MembershipOK(p[1], p[2], p[4], p[5])}
    IN  {Membership(p[1], p[2], p[4], p[5]) : p \in parts}

\* As if the previous start were forgotten at a request without a reference.
AdjacentStart(requests, i) == IF i = 1 THEN None ELSE requests[i - 1].started

\* The start of the last request before i that has a reference.
PreviousStart(requests, i) ==
    LET earlier == {j \in 1..(i - 1) : requests[j].started # None}
    IN  IF earlier = {} THEN None ELSE requests[Max(earlier)].started

RunOK(run) ==
    LET during(t) == run.started <= t /\ t <= run.sealed IN
    /\ run.started <= run.sealed
    /\ run.count = Len(run.requests) /\ Bounded(run.requests, 0)
    /\ \A i \in DOMAIN run.requests :
        LET m == run.requests[i]
            previous == PreviousStart(run.requests, i) IN
        /\ m.key.run = run.key /\ m.key.ordinal = i
        /\ m.started # None => during(m.started)
        /\ m.started # None /\ previous # None => previous <= m.started
        /\ m.completed # None => during(m.completed)
        /\ m.started # None /\ m.completed # None => m.started <= m.completed

(***************************************************************************)
(* Transformations and relationships of records                            *)
(***************************************************************************)
\* A subject is an exact artifact or a durable record, never both.
SubjectOK(s) ==
    IF s.kind = "exact_artifact" THEN s.artifact # None /\ s.record = None
                                 ELSE s.record # None /\ s.artifact = None
Subjects ==
    {s \in [kind : {"exact_artifact", "durable_record"}, artifact : {None, "bytes"},
            record : Optional(Records)] : SubjectOK(s)}

TransformationOK(t) ==
    /\ Distinct(t.inputs) /\ Distinct(t.outputs)
    /\ Values(t.inputs) # Values(t.outputs)
    /\ Bounded(t.inputs, 1) /\ Bounded(t.outputs, 1)
\* What an envelope looks at.
Transformations ==
    {[key |-> t.key] : t \in {t \in [key : Keys, inputs : TuplesOf(Subjects, 0, 2),
                                    outputs : TuplesOf(Subjects, 0, 1)] : TransformationOK(t)}}

\* A correction or a supersession relates two different records.
RelationshipOK(r) == r.old # r.new
Relationships ==
    {r \in [key : {"correction", "supersession"} \X Keys, old : Records, new : Records] :
        RelationshipOK(r)}

(***************************************************************************)
(* Requirements and completeness                                           *)
(***************************************************************************)
OmissionOutcomes ==
    {"intentionally_omitted", "unavailable", "inaccessible", "unknown", "unsupported"}
PartialOutcomes == {"unavailable", "inaccessible", "unsupported"}
Outcomes == OmissionOutcomes \cup {"satisfied", "not_applicable"}

OmissionOK(o) ==
    /\ o.outcome \in OmissionOutcomes
    /\ Distinct(o.sources) /\ Bounded(o.sources, 1)
Omissions ==
    {o \in [requirement : Requirements, outcome : Outcomes, sources : TuplesOf(Records, 0, 1)] :
        OmissionOK(o)}

ResultOK(r) ==
    /\ r.records # None => Distinct(r.records) /\ Bounded(r.records, 1)
    /\ r.outcome = "satisfied" => r.records # None /\ r.omission = None
    /\ r.outcome \in OmissionOutcomes =>
        /\ r.records = None /\ r.omission # None
        /\ r.omission.requirement = r.key /\ r.omission.outcome = r.outcome
    /\ r.outcome = "not_applicable" => r.records = None /\ r.omission = None
\* What an assessment looks at.
Results ==
    LET admitted == {r \in [key : Requirements, outcome : Outcomes, omission : Optional(Omissions),
                            records : Optional(TuplesOf(Records, 0, 1))] : ResultOK(r)}
    IN  {[key |-> r.key, outcome |-> r.outcome] : r \in admitted}

\* As if a declared omission were looked for first.
OmissionFirst(outcomes) ==
    IF "unknown" \in outcomes THEN "scope_unknown"
    ELSE IF "intentionally_omitted" \in outcomes
         THEN "scope_satisfied_with_declared_omissions"
    ELSE IF outcomes \cap PartialOutcomes # {} THEN "scope_partial"
    ELSE "scope_satisfied"

\* The one status the outcomes allow.
ExpectedStatus(outcomes) ==
    IF "unknown" \in outcomes THEN "scope_unknown"
    ELSE IF outcomes \cap PartialOutcomes # {} THEN "scope_partial"
    ELSE IF "intentionally_omitted" \in outcomes
         THEN "scope_satisfied_with_declared_omissions"
    ELSE "scope_satisfied"

Statuses == {"scope_unknown", "scope_partial",
             "scope_satisfied_with_declared_omissions", "scope_satisfied"}
AssessmentOK(a) ==
    /\ Distinct([i \in DOMAIN a.requirements |-> a.requirements[i].key])
    /\ a.status = ExpectedStatus({r.outcome : r \in Values(a.requirements)})
    /\ Bounded(a.requirements, 1)
Assessments ==
    {a \in [key : Keys, status : Statuses,
            requirements : {SetToSeq({p[1], p[2]}) : p \in Results \X Results}] : AssessmentOK(a)}

(***************************************************************************)
(* Publication of a record by a protected pull request                     *)
(***************************************************************************)
CheckOK(check) == check.role = "retrieval"

PublicationOK(p) ==
    /\ CheckOK(p.pr_check) /\ CheckOK(p.main_check)
    /\ p.kind = "pull_request" /\ p.pr_repository = p.repository
    /\ p.pr_check.provider = p.repository.provider
    /\ p.main_check.provider = p.repository.provider
    /\ p.pr_check.event = "pull_request" /\ p.main_check.event = "push"
    /\ p.pr_check.run # p.main_check.run /\ p.pr_check.job # p.main_check.job
    /\ p.pr_check.head = p.reviewed /\ p.main_check.head = p.published
    /\ p.reviewed # p.published /\ p.reviewed_tree = p.published_tree
    /\ Cardinality({o.algorithm : o \in {p.reviewed, p.published,
                                         p.reviewed_tree, p.published_tree}}) = 1
AdmittedPublications == {p \in Publications : PublicationOK(p)}

(***************************************************************************)
(* The envelope: each family of records is unknown (None) or stated, and   *)
(* a stated family may be empty.                                           *)
(***************************************************************************)
Modern == {"request_memberships", "acquisition_runs", "transformations",
           "record_relationships", "completeness_assessments", "publications"}
Families == {"legacy_snapshots"} \cup Modern

Stated(component) == IF component = None THEN <<>> ELSE component
KeysOf(records) == {r.key : r \in Values(records)}
NestedIds(runs) == UNION {KeysOf(run.requests) : run \in Values(Stated(runs))}

\* As if the two sides were compared as records: never in common.
ApartAsRecords(e) ==
    Values(Stated(e["request_memberships"])) \cap Values(Stated(e["acquisition_runs"])) = {}

\* No request is both standalone and inside a run.
RequestsApart(e) ==
    KeysOf(Stated(e["request_memberships"])) \cap NestedIds(e["acquisition_runs"]) = {}

EnvelopeOK(e) ==
    /\ \E f \in Families : Stated(e[f]) # <<>>
    /\ \A f \in Families : Bounded(Stated(e[f]), 0)
    /\ Distinct(Stated(e["legacy_snapshots"]))
    /\ \A f \in Modern : Distinct([i \in DOMAIN Stated(e[f]) |-> e[f][i].key])
    /\ RequestsApart(e)

WrapLegacy(snapshot) ==
    [f \in Families |-> IF f = "legacy_snapshots" THEN <<snapshot>> ELSE None]

\* As if a family that is stated to be empty counted as unknown.
LooksLegacy(e) == \A f \in Modern : Stated(e[f]) = <<>>

LegacyOnly(e) == \A f \in Modern : e[f] = None

MappingOK(source, e) == e["legacy_snapshots"] = <<source>> /\ LegacyOnly(e)

Projection(e) ==
    LET legacy == Stated(e["legacy_snapshots"])
        answer(status, snapshot) == [status |-> status, snapshot |-> snapshot] IN
    IF Len(legacy) # 1 THEN answer("not_mappable", None)
    ELSE IF ~LegacyOnly(e) THEN answer("partially_mappable", None)
    ELSE answer("losslessly_mappable", legacy[1])

-----------------------------------------------------------------------------
VARIABLES
    desk,           \* family -> the records of it the caller holds
    envelope,       \* the envelope composed last, or None
    projection      \* the projection of that envelope, or None
vars == <<desk, envelope, projection>>

Init == /\ desk = [f \in Families |-> {}]
        /\ envelope = None
        /\ projection = None

\* The bounds of the model: a few records, or the requests of one run.
Fits(d) ==
    LET nested == MapThenSumSet(LAMBDA run : Len(run.requests), d["acquisition_runs"])
        size == MapThenSumSet(LAMBDA f : Cardinality(d[f]), Families) IN
    \/ size <= MaxDesk /\ nested <= MaxDesk
    \/ nested + Cardinality(d["request_memberships"]) <= MaxEntries
       /\ \A f \in Families \ {"request_memberships"} : d[f] = {} \/ size = 1

\* The caller builds a record of family f and holds it.
Hold(f, records) ==
    /\ envelope = None
    /\ \E r \in records \ desk[f] : desk' = [desk EXCEPT ![f] = @ \cup {r}]
    /\ Fits(desk')
    /\ UNCHANGED <<envelope, projection>>

Retain == Hold("legacy_snapshots", Snapshots)
Request == Hold("request_memberships", Memberships)
Transform == Hold("transformations", Transformations)
Relate == Hold("record_relationships", Relationships)
Assess == Hold("completeness_assessments", Assessments)
Publish == Hold("publications", AdmittedPublications)

\* Requests the caller holds become the requests of a run.
SealRun ==
    /\ envelope = None
    /\ \E members \in SUBSET desk["request_memberships"] :
       \E requests \in SetToSeqs(members), key \in RunIds, started, sealed \in Times,
          count \in {0, Cardinality(members)} :
        LET run == [key |-> key, started |-> started, sealed |-> sealed,
                    count |-> count, requests |-> requests] IN
        /\ RunOK(run)
        /\ run \notin desk["acquisition_runs"]
        /\ desk' = [desk EXCEPT !["acquisition_runs"] = @ \cup {run},
                                !["request_memberships"] = @ \ members]
        /\ Fits(desk')
    /\ UNCHANGED <<envelope, projection>>

\* An envelope of all the caller holds; some families may be stated empty.
Compose ==
    /\ envelope = None
    /\ \E empty \in {{}, Families} :
        LET e == [f \in Families |-> IF desk[f] = {} /\ f \notin empty
                                     THEN None ELSE SetToSeq(desk[f])] IN
        EnvelopeOK(e) /\ envelope' = e
    /\ desk' = [f \in Families |-> {}]
    /\ UNCHANGED projection

WrapSnapshot ==
    /\ envelope = None
    /\ \E s \in desk["legacy_snapshots"] :
        LET e == WrapLegacy(s) IN EnvelopeOK(e) /\ MappingOK(s, e) /\ envelope' = e
    /\ desk' = [f \in Families |-> {}]
    /\ UNCHANGED projection

Project ==
    /\ envelope # None /\ projection = None
    /\ projection' = Projection(envelope)
    /\ UNCHANGED <<desk, envelope>>

Next == Retain \/ Request \/ Transform \/ Relate \/ Publish \/ Assess \/ SealRun
        \/ Compose \/ WrapSnapshot \/ Project
Spec == Init /\ [][Next]_vars

-----------------------------------------------------------------------------
Component(f) == Values(Stated(envelope[f]))
EveryMembership ==
    Component("request_memberships")
        \cup UNION {Values(run.requests) : run \in Component("acquisition_runs")}

\* Whatever an envelope is composed of, a request id has one place in it: all
\* that names the id (reference, response, artifact) sits in that one
\* membership, and a membership inside a run is of that run (evidence.py
\* AcquisitionRequestMembership, AcquisitionRun and EvidenceEnvelope together).
OneHomePerRequest ==
    envelope # None =>
        /\ \A id \in RequestIds :
              Cardinality({m \in EveryMembership : id \in m.names \cup {m.key}}) <= 1
        /\ \A m \in Component("request_memberships"), run \in Component("acquisition_runs") :
              m.key \notin KeysOf(run.requests)
        /\ \A run \in Component("acquisition_runs") : \A m \in Values(run.requests) :
              \A id \in m.names : id.run = run.key

\* In every run, of any two requests with a known start the later one did not
\* start earlier, also across requests whose start is not known, and each
\* answer came between its request and the seal (AcquisitionRun).
RunChronology ==
    \A run \in desk["acquisition_runs"] :
        LET started(i) == run.requests[i].started
            completed(i) == run.requests[i].completed IN
        /\ \A i, j \in DOMAIN run.requests :
              i < j /\ started(i) # None /\ started(j) # None => started(i) <= started(j)
        /\ \A i \in DOMAIN run.requests : completed(i) # None =>
              /\ completed(i) <= run.sealed
              /\ started(i) # None => run.started <= started(i) /\ started(i) <= completed(i)

\* The status of an assessment is the worst its results earn: one unknown
\* result, or one that could not be obtained, is never covered by declared
\* omissions beside it (EvidenceCompletenessAssessment).
CompletenessEarned ==
    LET rank(outcome) == CASE outcome = "unknown" -> 3
                           [] outcome \in PartialOutcomes -> 2
                           [] outcome = "intentionally_omitted" -> 1
                           [] OTHER -> 0
        standing(status) == CASE status = "scope_unknown" -> 3
                              [] status = "scope_partial" -> 2
                              [] status = "scope_satisfied_with_declared_omissions" -> 1
                              [] OTHER -> 0
    IN  \A a \in desk["completeness_assessments"] :
            standing(a.status) = Max({rank(r.outcome) : r \in Values(a.requirements)})

\* A projection hands back a snapshot exactly when wrapping that snapshot
\* gives the envelope again, so nothing the envelope states, not even that a
\* family is empty, is lost silently (project_evidence_envelope_to_legacy_
\* artifact_snapshot against wrap_legacy_artifact_snapshot).
ProjectionExact ==
    projection # None =>
        /\ \A s \in Snapshots : projection.snapshot = s <=> envelope = WrapLegacy(s)
        /\ projection.status = "losslessly_mappable" <=> projection.snapshot # None
=============================================================================
