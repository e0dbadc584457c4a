-------------------------- MODULE SuppliedAssessment --------------------------
(***************************************************************************)
(* A supplied assessment, its reviews and their attributions as values     *)
(* (domain/assessment*.py), and the budgets of the documents they are      *)
(* written to (assessment_file.py, assessment_review_document.py).         *)
(*                                                                         *)
(* An assessment embeds its conditions again in every opinion, a review    *)
(* embeds the assessment and each attribution the review: what keeps the   *)
(* copies together are comparisons of whole values.  Of the contents, the  *)
(* keys and what they stand for are here; the source, the rationales and   *)
(* the other texts count in the size of the assessment only.               *)
(*                                                                         *)
(* A size counts what the budgets count in a normalized JSON value: nodes  *)
(* with keys among them, objects, characters of strings and keys, and      *)
(* containers on the deepest path.                                         *)
(***************************************************************************)
EXTENDS Integers, Sequences, FiniteSets

CONSTANTS
    None,               \* the absent value
    ConditionKeys,      \* keys of conditions
    MaterialKeys,       \* keys of materials
    OpinionKeys,        \* keys of opinions
    Statements,         \* what a condition may state
    Snapshots,          \* repository snapshots
    GitHubSnapshots,    \* those of repositories of github
    Sizes               \* sizes an assessment may be of

Size == [nodes : Nat, objects : Nat, characters : Nat, depth : Nat]

ASSUME AssessmentAssumption ==
    /\ GitHubSnapshots \subseteq Snapshots
    /\ Sizes \subseteq Size
    /\ None \notin {"saved", "RESOURCE_LIMIT"}

Unrepeated(s) == \A i, j \in DOMAIN s : s[i] = s[j] => i = j
KeysUnrepeated(s) == Unrepeated([i \in DOMAIN s |-> s[i].key])
KeysOf(s) == {s[i].key : i \in DOMAIN s}

(***************************************************************************)
(* Sizes                                                                   *)
(***************************************************************************)
Larger(m, n) == IF m >= n THEN m ELSE n

Beside(a, b) == [nodes |-> a.nodes + b.nodes, objects |-> a.objects + b.objects,
                 characters |-> a.characters + b.characters, depth |-> Larger(a.depth, b.depth)]

Nothing == [nodes |-> 0, objects |-> 0, characters |-> 0, depth |-> 0]
Scalar == [nodes |-> 1, objects |-> 0, characters |-> 0, depth |-> 0]
Text(length) == [nodes |-> 1, objects |-> 0, characters |-> length, depth |-> 0]

\* A member of an object: its key, of some length, is a node too.
Member(keyLength, value) == Beside(Text(keyLength), value)

List(items) == [nodes |-> items.nodes + 1, objects |-> items.objects,
                characters |-> items.characters, depth |-> items.depth + 1]
Object(members) == [nodes |-> members.nodes + 1, objects |-> members.objects + 1,
                    characters |-> members.characters, depth |-> members.depth + 1]

Within(size, limits) ==
    /\ size.nodes <= limits.nodes /\ size.objects <= limits.objects
    /\ size.characters <= limits.characters /\ size.depth <= limits.depth

DomainLimits == [nodes |-> 8192, objects |-> 512, characters |-> 131072, depth |-> 32]

\* As if the keys of the envelope were not counted.
LimitsWithoutKeys == [nodes |-> 8195, objects |-> 513, characters |-> 131102, depth |-> 33]

FileLimits == [nodes |-> 8198, objects |-> 513, characters |-> 131125, depth |-> 33]

\* As if the list of attributions were no node.
LimitsWithoutList == [nodes |-> 74035, objects |-> 4651, characters |-> 1331268, depth |-> 36]

DocumentLimits == [nodes |-> 74036, objects |-> 4651, characters |-> 1331268, depth |-> 36]

MaxText == 4096
MaxLabel == 128
MaxPathBytes == 4096
MaxReviews == 32
MaxAttributions == 8
MiB == 1048576

\* format, version and assessment.
Envelope(assessment) ==
    Object(Beside(Member(6, Text(30)), Beside(Member(7, Scalar), Member(10, assessment))))

\* supplier and rationale.
Attribution(t) == Object(Beside(Member(8, Text(t.supplier)), Member(9, Text(t.rationale))))

\* assessment, scope, judgment and attribution.
ReviewSize(assessment, t) ==
    Object(Beside(Beside(Member(10, assessment), Member(5, Text(t.scope))),
                  Beside(Member(8, Text(t.judgment)), Member(11, Attribution(t)))))

\* A durable record reference: four labels and the lengths of six keys.
Reference(t) ==
    Object(Beside(Beside(Beside(Member(14, Scalar), Member(11, Text(t.format))),
                         Beside(Member(14, Text(t.version)), Member(16, Text(t.canonical)))),
                  Beside(Member(6, Text(64)), Member(11, Scalar))))

\* review, reviewer, source and attribution; reviewer and source may be null.
AssertionSize(review, t) ==
    Object(Beside(Beside(Member(6, review),
                         Member(8, IF t.reviewer = None THEN Scalar ELSE Text(t.reviewer))),
                  Beside(Member(6, IF t.source = None THEN Scalar ELSE Reference(t.source)),
                         Member(11, Attribution(t)))))

\* The document around a review and the assertions: format, version, review and
\* attributions.
DocumentSize(review, assertions) ==
    Object(Beside(Beside(Member(6, Text(26)), Member(7, Scalar)),
                  Beside(Member(6, review), Member(12, List(assertions)))))

\* The most bytes of canonical JSON: a character is escaped to six bytes at most
\* and a node has a number, or quotes, and delimiters.
MostBytes(size) == 6 * size.characters + 24 * size.nodes + 1

\* The most bytes of the view of an assessment: a character is quoted as two
\* escapes at most, and a record has its labels and lines.
MostViewBytes(size) == 12 * size.characters + 24 * size.nodes + 256 * size.objects + 4096

\* The same for reviews and for attributions, around the view within.
ReviewsViewBytes(view, count) == view + count * 12 * (3 * MaxText + MaxLabel) + 8192
AttributionsViewBytes(view, count) ==
    view + count * (12 * (MaxText + 2 * MaxLabel) + 576) + 4096

(***************************************************************************)
(* Records                                                                 *)
(***************************************************************************)
TargetOK(t) ==
    /\ t.snapshot \in GitHubSnapshots
    /\ t.scope # None => t.scope = t.snapshot

\* An inventory of materials cannot stand beside the reason there is none.
BasisOK(b) ==
    /\ TargetOK(b.target)
    /\ KeysUnrepeated(b.conditions)
    /\ b.materials # None => ~b.omission /\ Unrepeated(b.materials)

OpinionOK(o) == Unrepeated(o.material_keys)
ConflictOK(c) == c.left # c.right

\* As if a condition were known by its key.
OnNamedCondition(opinion, conditions) == opinion.condition.key \in KeysOf(conditions)

OnBasisCondition(opinion, conditions) ==
    \E i \in DOMAIN conditions : conditions[i] = opinion.condition

AssessmentOK(a) ==
    /\ BasisOK(a.basis)
    /\ \A i \in DOMAIN a.opinions : OpinionOK(a.opinions[i])
    /\ \A i \in DOMAIN a.conflicts : ConflictOK(a.conflicts[i])
    /\ KeysUnrepeated(a.opinions)
    /\ \A i \in DOMAIN a.opinions :
          /\ OnBasisCondition(a.opinions[i], a.basis.conditions)
          /\ \A k \in DOMAIN a.opinions[i].material_keys :
                /\ a.basis.materials # None
                /\ \E m \in DOMAIN a.basis.materials :
                      a.basis.materials[m] = a.opinions[i].material_keys[k]
    /\ \A i \in DOMAIN a.conflicts :
          {a.conflicts[i].left, a.conflicts[i].right} \subseteq KeysOf(a.opinions)
    /\ Within(a.size, DomainLimits)

\* Every record is about the one that is asked for, as a whole value.
AllAbout(target, records) == \A i \in DOMAIN records : records[i] = target
=============================================================================
