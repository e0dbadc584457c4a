-------------------------- MODULE FaultComposition --------------------------
(***************************************************************************)
(* The fault records of domain/fault*.py, pattern*.py and invariant*.py,   *)
(* and the three compositions over them: the case (FaultInstance), the     *)
(* evidence link, and the pattern (FaultPatternComposition).               *)
(*                                                                         *)
(* Records are immutable values that embed the records they are about as   *)
(* whole values: nothing is looked up by name.  So two copies of "the same"*)
(* record may disagree, and what keeps a composition coherent are local    *)
(* membership checks only.                                                 *)
(*                                                                         *)
(* A statement is a member of a small set, two of them for a name making   *)
(* two records that contradict each other.  A collection is the set of its *)
(* records: an identical duplicate, which the code refuses for named       *)
(* records and keeps for the others, changes nothing here.                 *)
(***************************************************************************)
EXTENDS Integers, Sequences, FiniteSets, TLC

CONSTANTS
    None,               \* the absent value
    Faults,             \* fault identities
    Universe,           \* the fault records callers may have built
    Patterns,           \* supplied patterns, [id, statement]
    Invariants,         \* supplied invariants, [id, statement]
    EvidenceRecords,    \* durable evidence record references
    MaxMembers,         \* the bound of every collection
    MaxTips,            \* bound of the model: records a case is built around
    MaxPatternCase      \* bound of the model: records in a case of a pattern

Values(s) == {s[i] : i \in DOMAIN s}

(***************************************************************************)
(* The records: a kind, a name (records without one have None), whom or    *)
(* what a report is about, the records embedded, and what is said.         *)
(***************************************************************************)
Record(kind, id, about, on, said) ==
    [kind |-> kind, id |-> id, about |-> about, on |-> on, said |-> said]

Report(id, fault, said) == Record("report", id, fault, <<>>, said)
Scenario(id, report, said) == Record("scenario", id, None, <<report>>, said)
Occurrence(id, scenario, said) == Record("occurrence", id, None, <<scenario>>, said)

SourceObjectAssociation(report, object) ==
    Record("source_object_association", None, None, <<report>>, object)
HistoryFactAssociation(report, fact) ==
    Record("history_fact_association", None, None, <<report>>, fact)

RepairCandidate(id, report, said) == Record("repair_candidate", id, None, <<report>>, said)
RepairRevision(candidate, revision) ==
    Record("repair_revision_association", None, None, <<candidate>>, revision)
RepairChangeSet(candidate, changeSet) ==
    Record("repair_change_set_association", None, None, <<candidate>>, changeSet)

TestMaterial(id, report, said) == Record("test_material", id, None, <<report>>, said)
TestRun(id, material, said) == Record("test_run", id, None, <<material>>, said)
TestOutcome(run, outcome) == Record("test_outcome", None, None, <<run>>, outcome)
TestRunRevision(run, revision) ==
    Record("test_run_revision_association", None, None, <<run>>, revision)
TestComparison(before, after, said) ==
    Record("test_comparison", None, None, <<before, after>>, said)

Explanation(id, report, said) == Record("explanation", id, None, <<report>>, said)
Hypothesis(id, report, said) == Record("hypothesis", id, None, <<report>>, said)
ExpectedProperty(id, report, said) == Record("expected_property", id, None, <<report>>, said)

\* The kind of record a record embeds, as the two reference checks pair them.
Anchor ==
    [kind \in {"scenario", "source_object_association", "history_fact_association",
               "repair_candidate", "test_material", "explanation", "hypothesis",
               "expected_property"} |-> "report"]
    @@ [occurrence |-> "scenario",
        repair_revision_association |-> "repair_candidate",
        repair_change_set_association |-> "repair_candidate",
        test_run |-> "test_material", test_outcome |-> "test_run",
        test_run_revision_association |-> "test_run", test_comparison |-> "test_outcome"]

NamedKinds ==
    {"report", "scenario", "occurrence", "repair_candidate", "test_material", "test_run",
     "explanation", "hypothesis", "expected_property"}

\* Two outcomes of different runs of one and the same test material.
ComparisonOK(r) ==
    LET before == r.on[1].on[1]
        after == r.on[2].on[1]
    IN  before.id # after.id /\ before.on = after.on

Embeds(r, kinds) ==
    r.kind \in kinds => \A i \in DOMAIN r.on : r.on[i].kind = Anchor[r.kind]

\* What the record classes admit, file by file: the kinds of the records embedded and,
\* for a comparison, which two; a report embeds no record.
ReportedOK(r) ==
    (r.kind = "report" => r.on = <<>>) /\ Embeds(r, {"scenario", "occurrence"})
RelatedOK(r) == Embeds(r, {"source_object_association", "history_fact_association"})
RepairOK(r) ==
    Embeds(r, {"repair_candidate", "repair_revision_association",
               "repair_change_set_association"})
InterpretedOK(r) == Embeds(r, {"explanation", "hypothesis", "expected_property"})
TestedOK(r) ==
    /\ Embeds(r, {"test_material", "test_run", "test_outcome", "test_run_revision_association",
                  "test_comparison"})
    /\ r.kind = "test_comparison" => ComparisonOK(r)

RecordOK(r) ==
    ReportedOK(r) /\ RelatedOK(r) /\ RepairOK(r) /\ InterpretedOK(r) /\ TestedOK(r)

\* The values a record stands on, down to the reports (a comparison is deepest).
Within(S) == UNION {{r} \cup Values(r.on) : r \in S}
Whole(S) == Within(Within(Within(Within(S))))

ASSUME CompositionAssumption == \A r \in Whole(Universe) : RecordOK(r)

(***************************************************************************)
(* The case                                                                *)
(***************************************************************************)
OfKind(members, kind) == {r \in members : r.kind = kind}

\* As if one report about the fault were enough.
SomeReportNamesFault(members, fault) ==
    \E r \in OfKind(members, "report") : r.about = fault

ReportsNameFault(members, fault) ==
    \A r \in OfKind(members, "report") : r.about = fault

\* As if a member were found by its name.
MemberByName(r, members) == \E m \in members : m.kind = r.kind /\ m.id = r.id

Member(r, members) == r \in members

ReferencesAreMembers(members) ==
    \A r \in members : \A i \in DOMAIN r.on :
        Member(r.on[i], OfKind(members, Anchor[r.kind]))

NamesUnique(members) ==
    \A kind \in NamedKinds : \A r, s \in OfKind(members, kind) : r.id = s.id => r = s

FaultInstanceOK(fault, members) ==
    /\ ReferencesAreMembers(members)
    /\ OfKind(members, "report") # {}
    /\ ReportsNameFault(members, fault)
    /\ NamesUnique(members)
    /\ \A r \in members : Cardinality(OfKind(members, r.kind)) <= MaxMembers

(***************************************************************************)
(* The evidence link                                                       *)
(***************************************************************************)
LinkableKinds == NamedKinds \cup {"test_outcome", "test_comparison"}

\* As if the subject were looked up by its name.
LinkByName(theCase, subject) ==
    subject.kind \in LinkableKinds /\ MemberByName(subject, theCase.members)

LinkOK(theCase, subject) ==
    subject.kind \in LinkableKinds /\ subject \in OfKind(theCase.members, subject.kind)

(***************************************************************************)
(* The pattern: its exemplar cases, its invariants, which invariants are   *)
(* attached to it, and expectations of a case an invariant stands for.     *)
(***************************************************************************)
Pattern(id, statement) == [id |-> id, statement |-> statement]
Invariant(id, statement) == [id |-> id, statement |-> statement]
Exemplar(pattern, theCase) == [pattern |-> pattern, case |-> theCase]
Attachment(pattern, invariant) == [pattern |-> pattern, invariant |-> invariant]
Expectation(invariant, theCase, property) ==
    [invariant |-> invariant, case |-> theCase, property |-> property]

ExpectationOK(e) == e.property \in OfKind(e.case.members, "expected_property")

Attachments == {Attachment(p, i) : p \in Patterns, i \in Invariants}
ExpectationsOf(theCase) ==
    {e \in {Expectation(i, theCase, r) : i \in Invariants, r \in Universe} : ExpectationOK(e)}

\* As if an invariant were known by its name.
InvariantNamed(invariant, invariants) == \E i \in invariants : i.id = invariant.id

InvariantKnown(invariant, invariants) == invariant \in invariants

PatternCompositionOK(c) ==
    /\ \A i, j \in c.invariants : i.id = j.id => i = j
    /\ \A x \in c.exemplars : x.pattern = c.pattern
    /\ \A a \in c.attachments : a.pattern = c.pattern
                                /\ InvariantKnown(a.invariant, c.invariants)
    /\ \A i \in c.invariants : \E a \in c.attachments : a.invariant.id = i.id
    /\ \A e \in c.expectations : InvariantKnown(e.invariant, c.invariants)
    /\ \A s \in {c.invariants, c.exemplars, c.attachments, c.expectations} :
          Cardinality(s) <= MaxMembers

-----------------------------------------------------------------------------
VARIABLES
    case,           \* the case composed, [fault, members], or None
    link,           \* the last evidence link of the case, or None
    composition     \* the pattern composed with the case, or None
vars == <<case, link, composition>>

Init == case = None /\ link = None /\ composition = None

SmallSubsets(S, n) == {{}} \cup {Values(s) : s \in [1..n -> S]}

\* A case is offered with all its records stand on, or with one of them missing.
ComposeCase ==
    /\ case = None
    /\ \E tips \in SmallSubsets(Universe, MaxTips), fault \in Faults :
       \E members \in {Whole(tips) \ missing : missing \in SmallSubsets(Whole(tips), 1)} :
        /\ FaultInstanceOK(fault, members)
        /\ case' = [fault |-> fault, members |-> members]
    /\ UNCHANGED <<link, composition>>

LinkEvidence ==
    /\ case # None /\ composition = None
    /\ \E subject \in Universe, evidence \in EvidenceRecords :
        /\ LinkOK(case, subject)
        /\ link' = [subject |-> subject, evidence_record |-> evidence]
    /\ UNCHANGED <<case, composition>>

\* The two small bounds keep the choice of collections small.
ComposePattern ==
    /\ case # None /\ link = None /\ composition = None
    /\ Cardinality(case.members) <= MaxPatternCase
    /\ \E pattern \in Patterns, invariants \in SmallSubsets(Invariants, 2),
          some \in SmallSubsets({Exemplar(p, case) : p \in Patterns}, 1),
          attached \in SmallSubsets(Attachments, 2),
          expected \in SmallSubsets(ExpectationsOf(case), 1) :
        LET c == [pattern |-> pattern, invariants |-> invariants, exemplars |-> some,
                  attachments |-> attached, expectations |-> expected] IN
        PatternCompositionOK(c) /\ composition' = c
    /\ UNCHANGED <<case, link>>

Next == ComposeCase \/ LinkEvidence \/ ComposePattern
Spec == Init /\ [][Next]_vars

-----------------------------------------------------------------------------
\* A case speaks of one fault only: every report, also those embedded several
\* records deep (a comparison's outcomes' runs' material's report), names the
\* fault of the case (FaultInstance).
OneFault ==
    case # None => \A r \in OfKind(Whole(case.members), "report") : r.about = case.fault

\* Inside a case a name has one value: all copies of a record, whichever record
\* embeds them and however deep, agree in everything (FaultInstance: names are
\* unique among the members, references are members as whole values).
OneValuePerName ==
    case # None =>
        \A r, s \in Whole(case.members) :
            r.kind \in NamedKinds /\ r.kind = s.kind /\ r.id = s.id => r = s

\* What evidence is linked to is carried by the case exactly as it was linked,
\* with all it stands on (FaultInstanceEvidenceLink over FaultInstance).
EvidenceStaysAttached ==
    link # None => Whole({link.subject}) \subseteq case.members

\* Wherever a composition speaks of its pattern or of an invariant, it says the
\* same; each of its invariants is attached to the pattern, and a case it takes
\* an expectation from carries that expectation about its own fault
\* (FaultPatternComposition over its associations).
PatternSpeaksOnce ==
    composition # None =>
        LET spoken == composition.invariants
                        \cup {a.invariant : a \in composition.attachments}
                        \cup {e.invariant : e \in composition.expectations} IN
        /\ \A i, j \in spoken : i.id = j.id => i = j
        /\ \A x \in composition.exemplars \cup composition.attachments :
              x.pattern = composition.pattern
        /\ \A i \in spoken : \E a \in composition.attachments : a.invariant = i
        /\ \A e \in composition.expectations :
              \A r \in OfKind(Whole({e.property}), "report") : r.about = e.case.fault
=============================================================================
