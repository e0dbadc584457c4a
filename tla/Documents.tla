------------------------------ MODULE Documents ------------------------------
(***************************************************************************)
(* Documents of assessments and of reviews.  A caller supplies an          *)
(* assessment and saves it (the codec of assessment_file.py), supplies a   *)
(* review of it and attributions of the review, has them inspected         *)
(* (assessment_review.py, assessment_review_attribution.py), and writes    *)
(* and reads them as one document (assessment_review_document.py).         *)
(*                                                                         *)
(* Both readers, that of assessment files and that of documents, first     *)
(* scan the text for the depth of its containers, without parsing it; Scan *)
(* models the scan of either and the Write actions a text.                 *)
(***************************************************************************)
EXTENDS SuppliedAssessment, SequencesExt

CONSTANTS
    ReviewTexts,        \* the lengths of the texts of a review
    AssertionTexts,     \* the lengths of the texts of an attribution
    MaxEntries,         \* bound of the model: entries of an assessment's lists
    MaxOpen             \* bound of the model: containers open at once

VARIABLES
    assessment,         \* the supplied assessment
    saved,              \* what saving it answered
    review,             \* the supplied review
    assertions,         \* the supplied attributions, in order
    call,               \* a document being written or read
    result,             \* what the last call on the review answered
    writer              \* a text being written, its reader, and the scan of it

vars == <<assessment, saved, review, assertions, call, result, writer>>

ASSUME DocumentsAssumption ==
    /\ ReviewTexts \subseteq [scope : 1..MaxText, judgment : 1..MaxText,
                              supplier : 1..MaxLabel, rationale : 1..MaxText]
    /\ AssertionTexts \subseteq
          [reviewer : 1..MaxLabel \cup {None}, supplier : 1..MaxLabel, rationale : 1..MaxText,
           source : [format : 1..160, version : 1..64, canonical : 1..160] \cup {None}]
    /\ MaxEntries \in Nat /\ MaxOpen \in Nat

Tuples(S, n) == UNION {[1..k -> S] : k \in 0..n}

Init == /\ assessment = None /\ saved = None /\ review = None /\ assertions = <<>>
        /\ call = None /\ result = None /\ writer = None

(***************************************************************************)
(* Assessments                                                             *)
(***************************************************************************)
Conditions == [key : ConditionKeys, statement : Statements]
Bases == {b \in [target : [snapshot : Snapshots, scope : Snapshots \cup {None}],
                 conditions : Tuples(Conditions, MaxEntries), omission : BOOLEAN,
                 materials : Tuples(MaterialKeys, MaxEntries) \cup {None}] : BasisOK(b)}
Opinions == {o \in [key : OpinionKeys, condition : Conditions,
                    material_keys : Tuples(MaterialKeys, MaxEntries)] : OpinionOK(o)}
Conflicts == {c \in [left : OpinionKeys, right : OpinionKeys] : ConflictOK(c)}

Assessments ==
    {a \in [basis : Bases, opinions : Tuples(Opinions, MaxEntries),
            conflicts : Tuples(Conflicts, 1), size : Sizes] : AssessmentOK(a)}

Supply ==
    /\ assessment = None /\ writer = None
    /\ assessment' \in Assessments
    /\ UNCHANGED <<saved, review, assertions, call, result, writer>>

\* The most bytes of the view of a file: the view of the assessment under two lines of
\* constants and one with the path, each byte of which is quoted as six at most.
FileViewBytes(size) == 128 + 6 * MaxPathBytes + MostViewBytes(size)

\* The answer of the codec: the view must fit, the envelope and its bytes.
SaveOutcome(size) ==
    IF /\ FileViewBytes(size) <= 8 * MiB
       /\ Within(Envelope(size), FileLimits)
       /\ MostBytes(Envelope(size)) <= MiB
    THEN "saved" ELSE "RESOURCE_LIMIT"

Save ==
    /\ assessment # None /\ saved = None /\ review = None
    /\ saved' = SaveOutcome(assessment.size)
    /\ UNCHANGED <<assessment, review, assertions, call, result, writer>>

(***************************************************************************)
(* Reviews                                                                 *)
(***************************************************************************)
\* The same review of an assessment whose conditions state something else.
StatedAs(c, statement) == [c EXCEPT !.statement = statement]
RestatedBasis(b, statement) ==
    [b EXCEPT !.conditions = [i \in DOMAIN b.conditions |-> StatedAs(b.conditions[i], statement)]]
RestatedOpinions(os, statement) ==
    [i \in DOMAIN os |-> [os[i] EXCEPT !.condition = StatedAs(os[i].condition, statement)]]
RestatedAssessment(a, statement) ==
    [a EXCEPT !.basis = RestatedBasis(a.basis, statement),
              !.opinions = RestatedOpinions(a.opinions, statement)]
Restated(r) ==
    {[r EXCEPT !.assessment = RestatedAssessment(r.assessment, s)] : s \in Statements} \ {r}

SupplyReview ==
    /\ assessment # None /\ review = None /\ saved = None
    /\ \E texts \in ReviewTexts :
          review' = [assessment |-> assessment, texts |-> texts]
    /\ UNCHANGED <<assessment, saved, assertions, call, result, writer>>

SizeOfReview == ReviewSize(review.assessment.size, review.texts)

\* Reviews, all of the assessment but maybe the last, are inspected at once.
InspectReviews ==
    /\ review # None /\ assertions = <<>> /\ call = None /\ result = None
    /\ \E n \in {0, 1, MaxReviews, MaxReviews + 1}, last \in {review} \cup Restated(review) :
       LET reviews == [i \in 1..n |-> IF i = n THEN last ELSE review]
           view == MostViewBytes(assessment.size) IN
       result' = [kind |-> "reviews", outcome |->
           IF n > MaxReviews THEN "TOO_MANY"
           ELSE IF ~AllAbout(assessment, [i \in 1..n |-> reviews[i].assessment]) THEN "MISMATCH"
           ELSE IF view > 8 * MiB \/ ReviewsViewBytes(view, n) > 16 * MiB
           THEN "RESOURCE_LIMIT" ELSE "accepted"]
    /\ UNCHANGED <<assessment, saved, review, assertions, call, writer>>

\* An attribution of the review, or of one that states something else.
\* Bounds of the model: one of these at most, and the same lengths throughout.
Attribute ==
    /\ review # None /\ call = None /\ result = None
    /\ Len(assertions) <= MaxAttributions
    /\ \E texts \in IF assertions = <<>> THEN AssertionTexts ELSE {assertions[1].texts},
          target \in {review} \cup
              IF \A i \in DOMAIN assertions : assertions[i].review = review
              THEN Restated(review) ELSE {} :
          assertions' = Append(assertions, [review |-> target, texts |-> texts])
    /\ UNCHANGED <<assessment, saved, review, call, result, writer>>

(***************************************************************************)
(* The document of a review                                                *)
(***************************************************************************)
\* What inspect_assessment_review_attributions says before anything is written,
\* or after everything is read.
Inspected ==
    LET view == MostViewBytes(review.assessment.size) IN
    IF Len(assertions) > MaxAttributions THEN "TOO_MANY"
    ELSE IF ~AllAbout(review, [i \in DOMAIN assertions |-> assertions[i].review])
    THEN "MISMATCH"
    ELSE IF \/ view > 8 * MiB \/ ReviewsViewBytes(view, 1) > 16 * MiB
            \/ AttributionsViewBytes(ReviewsViewBytes(view, 1), Len(assertions)) > 9 * MiB
    THEN "RESOURCE_LIMIT" ELSE "accepted"

Answer(kind, outcome) == result' = [kind |-> kind, outcome |-> outcome]

Start(kind) == call' = [kind |-> kind, next |-> 1, items |-> Nothing] /\ UNCHANGED result

Encode ==
    /\ review # None /\ call = None /\ result = None
    /\ \/ Inspected = "accepted" /\ Start("encode")
       \/ Inspected # "accepted" /\ Answer("encode", Inspected) /\ UNCHANGED call
    /\ UNCHANGED <<assessment, saved, review, assertions, writer>>

Decode ==
    /\ review # None /\ call = None /\ result = None
    /\ Start("decode")
    /\ UNCHANGED <<assessment, saved, review, assertions, writer>>

SizeOfDocument(items) == DocumentSize(SizeOfReview, items)

\* The tree is walked, attribution after attribution, until a budget is exceeded.
Visit ==
    /\ call # None /\ call.next <= Len(assertions)
    /\ LET assertion == assertions[call.next]
           about == ReviewSize(assertion.review.assessment.size, assertion.review.texts)
           items == Beside(call.items, AssertionSize(about, assertion.texts)) IN
       IF Within(SizeOfDocument(items), DocumentLimits)
       THEN /\ call' = [call EXCEPT !.next = @ + 1, !.items = items]
            /\ UNCHANGED result
       ELSE Answer(call.kind, "RESOURCE_LIMIT") /\ call' = None
    /\ UNCHANGED <<assessment, saved, review, assertions, writer>>

Finish ==
    /\ call # None /\ call.next > Len(assertions)
    /\ LET document == SizeOfDocument(call.items) IN
       Answer(call.kind,
              IF ~Within(document, DocumentLimits) \/ MostBytes(document) > 16 * MiB
              THEN "RESOURCE_LIMIT"
              ELSE IF call.kind = "decode" THEN Inspected ELSE "accepted")
    /\ call' = None
    /\ UNCHANGED <<assessment, saved, review, assertions, writer>>

(***************************************************************************)
(* The scan for depth                                                      *)
(***************************************************************************)
Unscanned == [depth |-> 0, quoted |-> FALSE, escaped |-> FALSE, refused |-> FALSE]

Readers == {"file", "document"}
ScanLimit(reader) == IF reader = "file" THEN FileLimits.depth ELSE DocumentLimits.depth

\* A character outside of strings.  A depth below zero is refused in documents only.
ScanOutside(s, c, reader) ==
    CASE c = "quote" -> [s EXCEPT !.quoted = TRUE]
      [] c = "open" -> [s EXCEPT !.depth = @ + 1,
                                 !.refused = @ \/ s.depth + 1 > ScanLimit(reader)]
      [] c = "close" -> [s EXCEPT !.depth = @ - 1,
                                  !.refused = @ \/ (reader = "document" /\ s.depth - 1 < 0)]
      [] OTHER -> s

\* As if an escaped quote ended a string.
ScanUnescaped(s, c, reader) ==
    IF ~s.quoted THEN ScanOutside(s, c, reader) ELSE [s EXCEPT !.quoted = c # "quote"]

ScanCharacter(s, c, reader) ==
    IF ~s.quoted THEN ScanOutside(s, c, reader)
    ELSE IF s.escaped THEN [s EXCEPT !.escaped = FALSE]
    ELSE CASE c = "backslash" -> [s EXCEPT !.escaped = TRUE]
           [] c = "quote" -> [s EXCEPT !.quoted = FALSE]
           [] OTHER -> s

\* The scan of a piece of text, which is a character or an escape of two.
Scan(s, piece, reader) ==
    IF Len(piece) = 1 THEN ScanCharacter(s, piece[1], reader)
    ELSE ScanCharacter(ScanCharacter(s, piece[1], reader), piece[2], reader)

\* How JSON spells a character of a string: as it is, or escaped.
Spellings == {<<"plain">>, <<"open">>, <<"close">>, <<"backslash", "plain">>,
              <<"backslash", "quote">>, <<"backslash", "backslash">>}

\* Who is to read the text, the containers open at this point of it, the most there
\* were, whether it is inside a string, and the scan.
StartText ==
    /\ assessment = None /\ writer = None
    /\ \E reader \in Readers :
          writer' = [reader |-> reader, open |-> 0, deepest |-> 0, string |-> FALSE,
                     scan |-> Unscanned]
    /\ UNCHANGED <<assessment, saved, review, assertions, call, result>>

Write(open, string, piece) ==
    /\ writer' = [reader |-> writer.reader, open |-> open,
                  deepest |-> Larger(writer.deepest, open), string |-> string,
                  scan |-> Scan(writer.scan, piece, writer.reader)]
    /\ UNCHANGED <<assessment, saved, review, assertions, call, result>>

OpenContainer == /\ writer # None /\ ~writer.string /\ writer.open < MaxOpen
                 /\ Write(writer.open + 1, FALSE, <<"open">>)
CloseContainer == /\ writer # None /\ ~writer.string /\ writer.open > 0
                  /\ Write(writer.open - 1, FALSE, <<"close">>)
BeginString == /\ writer # None /\ ~writer.string
               /\ Write(writer.open, TRUE, <<"quote">>)
Spell == /\ writer # None /\ writer.string
         /\ \E piece \in Spellings : Write(writer.open, TRUE, piece)
EndString == /\ writer # None /\ writer.string
             /\ Write(writer.open, FALSE, <<"quote">>)

Next == \/ Supply \/ Save \/ SupplyReview \/ InspectReviews \/ Attribute
        \/ Encode \/ Decode \/ Visit \/ Finish
        \/ StartText \/ OpenContainer \/ CloseContainer \/ BeginString \/ Spell \/ EndString

Spec == Init /\ [][Next]_vars

(***************************************************************************)
(* Properties                                                              *)
(***************************************************************************)
\* An assessment its own checks admitted can be saved: the budgets of the file
\* leave room for the envelope exactly, and neither the view nor the bytes can be
\* too many (_envelope_budget and _codec against _check_domain_budget).
AdmittedIsSavable == saved # "RESOURCE_LIMIT"

\* A review and its eight attributions at most, each with the review again, always
\* fit into a document, its views and its bytes (_tree and _canonical against the
\* budgets of the parts).
ReviewDocumentFits ==
    result # None /\ result.outcome = "RESOURCE_LIMIT" => Len(assertions) > MaxAttributions

\* What is saved or accepted speaks of each condition in one way wherever it is
\* repeated, in the basis, in the opinions and in every copy of the assessment;
\* and the materials and opinions it refers to are there, once each.
OneTextPerKey ==
    LET accepted == result # None /\ result.outcome = "accepted" /\ result.kind # "reviews"
        copies == IF saved = "saved" THEN {assessment}
                  ELSE {assessment} \cup {assertions[i].review.assessment : i \in DOMAIN assertions}
        conditions(a) == ToSet(a.basis.conditions) \cup
                         {a.opinions[i].condition : i \in DOMAIN a.opinions} IN
    saved = "saved" \/ accepted =>
        /\ \A c, d \in UNION {conditions(a) : a \in copies} : c.key = d.key => c = d
        /\ \A a \in copies :
              /\ \A i \in DOMAIN a.opinions, k \in MaterialKeys :
                    k \in ToSet(a.opinions[i].material_keys) =>
                        Cardinality({m \in DOMAIN a.basis.materials : a.basis.materials[m] = k}) = 1
              /\ \A i \in DOMAIN a.conflicts : \A k \in {a.conflicts[i].left, a.conflicts[i].right} :
                    Cardinality({o \in DOMAIN a.opinions : a.opinions[o].key = k}) = 1

\* The scan knows the depth of a well-formed text without parsing it: brackets and
\* escaped quotes in strings do not count, and a text is refused if and only if
\* its containers go deeper than its reader allows (_depth of both readers).
ScanAgrees ==
    writer # None =>
        /\ writer.scan.depth = writer.open
        /\ writer.scan.quoted <=> writer.string
        /\ writer.scan.refused <=> writer.deepest > ScanLimit(writer.reader)
=============================================================================
