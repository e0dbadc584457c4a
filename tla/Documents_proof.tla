--------------------------- MODULE Documents_proof ---------------------------
(***************************************************************************)
(* Proofs about Documents, for every size a supplied value may be of: what *)
(* the budgets of the parts admit fits into the budgets of the documents.  *)
(* The parts are bounded one by one, from the inside out; that the bounds  *)
(* add up to the budgets of the whole, with nothing to spare, is what      *)
(* SaveSucceeds and DocumentWithin come to.                                *)
(***************************************************************************)
EXTENDS Documents, FiniteSetTheorems, TLAPS

\* A size of at most so many nodes, objects, characters and containers.
AtMost(size, nodes, objects, characters, depth) ==
    /\ size.nodes \in Nat /\ size.objects \in Nat
    /\ size.characters \in Nat /\ size.depth \in Nat
    /\ size.nodes <= nodes /\ size.objects <= objects
    /\ size.characters <= characters /\ size.depth <= depth

(***************************************************************************)
(* The parts                                                               *)
(***************************************************************************)
\* A member of an object adds a node and the characters of its key.
LEMMA MemberBounded ==
    ASSUME NEW k \in Nat, NEW size,
           NEW n \in Nat, NEW o \in Nat, NEW c \in Nat, NEW d \in Nat,
           AtMost(size, n, o, c, d)
    PROVE  AtMost(Member(k, size), n + 1, o, c + k, d)
BY DEF AtMost, Member, Text, Beside, Larger

\* A member whose value is a text.
LEMMA TextBounded ==
    ASSUME NEW k \in Nat, NEW length \in Nat, NEW c \in Nat, k + length <= c
    PROVE  AtMost(Member(k, Text(length)), 2, 0, c, 0)
BY DEF AtMost, Member, Text, Beside, Larger

\* A member whose value is a number or null.
LEMMA ScalarBounded ==
    ASSUME NEW k \in Nat
    PROVE  AtMost(Member(k, Scalar), 2, 0, k, 0)
BY DEF AtMost, Member, Text, Scalar, Beside, Larger

\* Parts beside each other add up, but for their depths.
LEMMA BesideBounded ==
    ASSUME NEW a, NEW na \in Nat, NEW oa \in Nat, NEW ca \in Nat, NEW da \in Nat,
           NEW b, NEW nb \in Nat, NEW ob \in Nat, NEW cb \in Nat, NEW db \in Nat,
           NEW n \in Nat, NEW o \in Nat, NEW c \in Nat, NEW d \in Nat,
           AtMost(a, na, oa, ca, da), AtMost(b, nb, ob, cb, db),
           na + nb <= n, oa + ob <= o, ca + cb <= c, da <= d, db <= d
    PROVE  AtMost(Beside(a, b), n, o, c, d)
BY DEF AtMost, Beside, Larger

\* An object around its members.
LEMMA ObjectBounded ==
    ASSUME NEW members, NEW n \in Nat, NEW o \in Nat, NEW c \in Nat, NEW d \in Nat,
           AtMost(members, n, o, c, d)
    PROVE  AtMost(Object(members), n + 1, o + 1, c, d + 1)
BY DEF AtMost, Object

\* The list around the attributions.
LEMMA ListBounded ==
    ASSUME NEW items, NEW n \in Nat, NEW o \in Nat, NEW c \in Nat, NEW d \in Nat,
           AtMost(items, n, o, c, d)
    PROVE  AtMost(List(items), n + 1, o, c, d + 1)
BY DEF AtMost, List

\* Format, version and an admitted assessment: the envelope of a file.
LEMMA EnvelopeBounded ==
    ASSUME NEW size, AtMost(size, 8192, 512, 131072, 32)
    PROVE  AtMost(Envelope(size), 8198, 513, 131125, 33)
<1>. DEFINE versioned == Beside(Member(7, Scalar), Member(10, size))
<1>1. AtMost(Member(6, Text(30)), 2, 0, 36, 0)
  BY TextBounded
<1>2. AtMost(Member(7, Scalar), 2, 0, 7, 0)
  BY ScalarBounded
<1>3. AtMost(Member(10, size), 8193, 512, 131082, 32)
  BY MemberBounded
<1>4. AtMost(versioned, 8195, 512, 131089, 32)
  BY <1>2, <1>3, BesideBounded
<1>5. AtMost(Beside(Member(6, Text(30)), versioned), 8197, 512, 131125, 32)
  BY <1>1, <1>4, BesideBounded
<1>. QED BY <1>5, ObjectBounded DEF Envelope

\* How long a text and a label may be.
LEMMA TextLengths ==
    ASSUME NEW length
    PROVE  /\ length \in 1..MaxText => length \in Nat /\ length <= 4096
           /\ length \in 1..MaxLabel => length \in Nat /\ length <= 128
<1>1. MaxText = 4096 /\ MaxLabel = 128
  BY DEF MaxText, MaxLabel
<1>2. length \in 1..MaxText => length \in Nat /\ length <= MaxText
  BY <1>1
<1>3. length \in 1..MaxLabel => length \in Nat /\ length <= MaxLabel
  BY <1>1
<1>. QED BY <1>1, <1>2, <1>3

\* Supplier and rationale.
LEMMA AttributionBounded ==
    ASSUME NEW t, t.supplier \in 1..MaxLabel, t.rationale \in 1..MaxText
    PROVE  AtMost(Attribution(t), 5, 1, 4241, 1)
<1>0. /\ t.supplier \in Nat /\ t.supplier <= 128
      /\ t.rationale \in Nat /\ t.rationale <= 4096
  BY TextLengths
<1>1. AtMost(Member(8, Text(t.supplier)), 2, 0, 136, 0)
  BY <1>0, TextBounded
<1>2. AtMost(Member(9, Text(t.rationale)), 2, 0, 4105, 0)
  BY <1>0, TextBounded
<1>3. AtMost(Beside(Member(8, Text(t.supplier)), Member(9, Text(t.rationale))), 4, 0, 4241, 0)
  BY <1>1, <1>2, BesideBounded
<1>. QED BY <1>3, ObjectBounded DEF Attribution

\* A review of an admitted assessment.
LEMMA ReviewBounded ==
    ASSUME NEW size, AtMost(size, 8192, 512, 131072, 32), NEW t \in ReviewTexts
    PROVE  AtMost(ReviewSize(size, t), 8204, 514, 143539, 33)
<1>. DEFINE left == Beside(Member(10, size), Member(5, Text(t.scope)))
            right == Beside(Member(8, Text(t.judgment)), Member(11, Attribution(t)))
<1>. t.scope \in 1..MaxText /\ t.judgment \in 1..MaxText
     /\ t.supplier \in 1..MaxLabel /\ t.rationale \in 1..MaxText
  BY DocumentsAssumption
<1>0. /\ t.scope \in Nat /\ t.scope <= 4096 /\ t.judgment \in Nat /\ t.judgment <= 4096
  BY TextLengths
<1>1. AtMost(Member(10, size), 8193, 512, 131082, 32)
  BY MemberBounded
<1>2. AtMost(Member(5, Text(t.scope)), 2, 0, 4101, 0)
  BY <1>0, TextBounded
<1>3. AtMost(Member(8, Text(t.judgment)), 2, 0, 4104, 0)
  BY <1>0, TextBounded
<1>4. AtMost(Attribution(t), 5, 1, 4241, 1)
  BY AttributionBounded
<1>5. AtMost(Member(11, Attribution(t)), 6, 1, 4252, 1)
  BY <1>4, MemberBounded
<1>6. AtMost(left, 8195, 512, 135183, 32)
  BY <1>1, <1>2, BesideBounded
<1>7. AtMost(right, 8, 1, 8356, 1)
  BY <1>3, <1>5, BesideBounded
<1>8. AtMost(Beside(left, right), 8203, 513, 143539, 32)
  BY <1>6, <1>7, BesideBounded
<1>. QED BY <1>8, ObjectBounded DEF ReviewSize

\* A durable record reference.
LEMMA ReferenceBounded ==
    ASSUME NEW t, t \in [format : 1..160, version : 1..64, canonical : 1..160]
    PROVE  AtMost(Reference(t), 13, 1, 520, 1)
<1>. DEFINE kinds == Beside(Member(14, Scalar), Member(11, Text(t.format)))
            names == Beside(Member(14, Text(t.version)), Member(16, Text(t.canonical)))
            digest == Beside(Member(6, Text(64)), Member(11, Scalar))
<1>0. /\ t.format \in Nat /\ t.format <= 160 /\ t.version \in Nat /\ t.version <= 64
      /\ t.canonical \in Nat /\ t.canonical <= 160
  OBVIOUS
<1>1. AtMost(Member(14, Scalar), 2, 0, 14, 0)
  BY ScalarBounded
<1>2. AtMost(Member(11, Text(t.format)), 2, 0, 171, 0)
  BY <1>0, TextBounded
<1>3. AtMost(Member(14, Text(t.version)), 2, 0, 78, 0)
  BY <1>0, TextBounded
<1>4. AtMost(Member(16, Text(t.canonical)), 2, 0, 176, 0)
  BY <1>0, TextBounded
<1>5. AtMost(Member(6, Text(64)), 2, 0, 70, 0)
  BY TextBounded
<1>6. AtMost(Member(11, Scalar), 2, 0, 11, 0)
  BY ScalarBounded
<1>7. AtMost(kinds, 4, 0, 185, 0)
  BY <1>1, <1>2, BesideBounded
<1>8. AtMost(names, 4, 0, 254, 0)
  BY <1>3, <1>4, BesideBounded
<1>9. AtMost(digest, 4, 0, 81, 0)
  BY <1>5, <1>6, BesideBounded
<1>10. AtMost(Beside(kinds, names), 8, 0, 439, 0)
  BY <1>7, <1>8, BesideBounded
<1>11. AtMost(Beside(Beside(kinds, names), digest), 12, 0, 520, 0)
  BY <1>9, <1>10, BesideBounded
<1>. QED BY <1>11, ObjectBounded DEF Reference

\* An attribution of a review, with the review in it.
LEMMA AssertionBounded ==
    ASSUME NEW size, AtMost(size, 8204, 514, 143539, 33), NEW t \in AssertionTexts
    PROVE  AtMost(AssertionSize(size, t), 8228, 517, 148459, 34)
<1>. DEFINE reviewer == IF t.reviewer = None THEN Scalar ELSE Text(t.reviewer)
            source == IF t.source = None THEN Scalar ELSE Reference(t.source)
            left == Beside(Member(6, size), Member(8, reviewer))
            right == Beside(Member(6, source), Member(11, Attribution(t)))
<1>0. /\ t.reviewer # None => t.reviewer \in 1..MaxLabel
      /\ t.source # None => t.source \in [format : 1..160, version : 1..64, canonical : 1..160]
      /\ t.supplier \in 1..MaxLabel /\ t.rationale \in 1..MaxText
  BY DocumentsAssumption
<1>1. AtMost(Member(6, size), 8205, 514, 143545, 33)
  BY MemberBounded
<1>2. AtMost(Member(8, reviewer), 2, 0, 136, 0)
  <2>1. CASE t.reviewer = None
    BY <2>1, ScalarBounded DEF AtMost
  <2>2. CASE t.reviewer # None
    BY <2>2, <1>0, TextLengths, TextBounded
  <2>. QED BY <2>1, <2>2
<1>3. AtMost(source, 13, 1, 520, 1)
  <2>1. CASE t.source = None
    BY <2>1 DEF AtMost, Scalar
  <2>2. CASE t.source # None
    BY <2>2, <1>0, ReferenceBounded
  <2>. QED BY <2>1, <2>2
<1>. HIDE DEF reviewer, source
<1>4. AtMost(Member(6, source), 14, 1, 526, 1)
  BY <1>3, MemberBounded
<1>5. AtMost(Attribution(t), 5, 1, 4241, 1)
  BY <1>0, AttributionBounded
<1>6. AtMost(Member(11, Attribution(t)), 6, 1, 4252, 1)
  BY <1>5, MemberBounded
<1>7. AtMost(left, 8207, 514, 143681, 33)
  BY <1>1, <1>2, BesideBounded
<1>8. AtMost(right, 20, 2, 4778, 1)
  BY <1>4, <1>6, BesideBounded
<1>9. AtMost(Beside(left, right), 8227, 516, 148459, 33)
  BY <1>7, <1>8, BesideBounded
<1>. QED BY <1>9, ObjectBounded DEF AssertionSize, reviewer, source

\* As many attributions as there are.
Attributed(items, count) ==
    AtMost(items, 8228 * count, 517 * count, 148459 * count, 34)

\* A document of a review and eight attributions at most is within its budgets.
LEMMA DocumentWithin ==
    ASSUME NEW size, AtMost(size, 8204, 514, 143539, 33),
           NEW items, NEW count \in Nat, count <= 8, Attributed(items, count)
    PROVE  /\ Within(DocumentSize(size, items), DocumentLimits)
           /\ ~(MostBytes(DocumentSize(size, items)) > 16 * MiB)
<1>. DEFINE head == Beside(Member(6, Text(26)), Member(7, Scalar))
            body == Beside(Member(6, size), Member(12, List(items)))
<1>0. AtMost(items, 65824, 4136, 1187672, 34)
  BY DEF Attributed, AtMost
<1>1. AtMost(Member(6, Text(26)), 2, 0, 32, 0)
  BY TextBounded
<1>2. AtMost(Member(7, Scalar), 2, 0, 7, 0)
  BY ScalarBounded
<1>3. AtMost(Member(6, size), 8205, 514, 143545, 33)
  BY MemberBounded
<1>4. AtMost(List(items), 65825, 4136, 1187672, 35)
  BY <1>0, ListBounded
<1>5. AtMost(Member(12, List(items)), 65826, 4136, 1187684, 35)
  BY <1>4, MemberBounded
<1>6. AtMost(head, 4, 0, 39, 0)
  BY <1>1, <1>2, BesideBounded
<1>7. AtMost(body, 74031, 4650, 1331229, 35)
  BY <1>3, <1>5, BesideBounded
<1>8. AtMost(Beside(head, body), 74035, 4650, 1331268, 35)
  BY <1>6, <1>7, BesideBounded
<1>9. AtMost(DocumentSize(size, items), 74036, 4651, 1331268, 36)
  BY <1>8, ObjectBounded DEF DocumentSize
<1>10. Within(DocumentSize(size, items), DocumentLimits)
  BY <1>9 DEF AtMost, Within, DocumentLimits
<1>11. ~(MostBytes(DocumentSize(size, items)) > 16 * MiB)
  BY <1>9 DEF AtMost, MostBytes, MiB
<1>. QED BY <1>10, <1>11

\* The view of an admitted assessment.
LEMMA ViewBounded ==
    ASSUME NEW size, AtMost(size, 8192, 512, 131072, 32)
    PROVE  MostViewBytes(size) \in Nat /\ MostViewBytes(size) <= 1904640
BY DEF AtMost, MostViewBytes

\* An admitted assessment is saved, whatever its size.
LEMMA SaveSucceeds ==
    ASSUME NEW size, AtMost(size, 8192, 512, 131072, 32)
    PROVE  SaveOutcome(size) = "saved"
<1>1. AtMost(Envelope(size), 8198, 513, 131125, 33)
  BY EnvelopeBounded
<1>2. FileViewBytes(size) <= 8 * MiB
  BY ViewBounded DEF FileViewBytes, MaxPathBytes, MiB
<1>3. Within(Envelope(size), FileLimits)
  BY <1>1 DEF AtMost, Within, FileLimits
<1>4. MostBytes(Envelope(size)) <= MiB
  BY <1>1 DEF AtMost, MostBytes, MiB
<1>. QED BY <1>2, <1>3, <1>4 DEF SaveOutcome

\* The view of an assessment with as many reviews as there may be.
LEMMA ReviewsViewBounded ==
    ASSUME NEW view \in Nat, view <= 1904640, NEW n \in {0, 1, MaxReviews}
    PROVE  ReviewsViewBytes(view, n) \in Nat /\ ReviewsViewBytes(view, n) <= 6680576
<1>1. 3 * MaxText + MaxLabel = 12416 /\ MaxReviews = 32
  BY DEF MaxText, MaxLabel, MaxReviews
<1>2. ReviewsViewBytes(view, n) = view + n * 12 * 12416 + 8192
  BY <1>1 DEF ReviewsViewBytes
<1>3. n = 0 \/ n = 1 \/ n = 32
  BY <1>1
<1>. QED BY <1>2, <1>3

\* The view of a document with as many attributions as there may be.
LEMMA AttributionsViewBounded ==
    ASSUME NEW view \in Nat, view <= 6680576, NEW n \in Nat, n <= 8
    PROVE  AttributionsViewBytes(view, n) <= 9 * MiB
<1>1. 12 * (MaxText + 2 * MaxLabel) + 576 = 52800
  BY DEF MaxText, MaxLabel
<1>2. AttributionsViewBytes(view, n) = view + n * 52800 + 4096
  BY <1>1 DEF AttributionsViewBytes
<1>. QED BY <1>2 DEF MiB

(***************************************************************************)
(* The states                                                              *)
(***************************************************************************)
Sized(a) == "size" \in DOMAIN a /\ AtMost(a.size, 8192, 512, 131072, 32)

SizedReview(r) ==
    /\ {"assessment", "texts"} \subseteq DOMAIN r
    /\ Sized(r.assessment) /\ r.texts \in ReviewTexts

SizedAssertion(x) == SizedReview(x.review) /\ x.texts \in AssertionTexts

\* Whatever is supplied was admitted, and as much of the document as was visited
\* is as large as its attributions make it at most.
Sound ==
    /\ assessment # None => Sized(assessment)
    /\ saved # "RESOURCE_LIMIT"
    /\ review # None => assessment # None /\ SizedReview(review)
    /\ \E S : assertions \in Seq(S) /\ \A x \in S : SizedAssertion(x)
    /\ call # None =>
          /\ review # None
          /\ DOMAIN call = {"kind", "next", "items"}
          /\ call.next \in Nat \ {0} /\ call.next <= Len(assertions) + 1
          /\ Attributed(call.items, call.next - 1)
    /\ ReviewDocumentFits

\* An assessment is admitted within the budgets of the domain.
LEMMA AssessmentsSized ==
    ASSUME NEW a \in Assessments
    PROVE  Sized(a)
<1>1. a.size \in Size /\ "size" \in DOMAIN a
  BY AssessmentAssumption DEF Assessments
<1>2. Within(a.size, DomainLimits)
  BY DEF Assessments, AssessmentOK
<1>. QED BY <1>1, <1>2 DEF Sized, AtMost, Within, DomainLimits, Size

\* A review of an assessment restated is as large.
LEMMA RestatedSized ==
    ASSUME NEW r, SizedReview(r), NEW x \in Restated(r)
    PROVE  SizedReview(x)
<1>1. PICK s \in Statements : x = [r EXCEPT !.assessment = RestatedAssessment(r.assessment, s)]
  BY DEF Restated
<1>. DEFINE a == RestatedAssessment(r.assessment, s)
<1>2. /\ "size" \in DOMAIN a /\ a.size = r.assessment.size
  BY DEF RestatedAssessment, SizedReview, Sized
<1>3. Sized(a)
  BY <1>2 DEF SizedReview, Sized
<1>. HIDE DEF a
<1>4. x = [r EXCEPT !.assessment = a]
  BY <1>1 DEF a
<1>. QED BY <1>3, <1>4 DEF SizedReview

\* What the inspection of a review and its attributions says of their number and
\* subjects is all it can refuse them for.
LEMMA InspectionFits ==
    ASSUME review # None, Sound, Inspected = "RESOURCE_LIMIT"
    PROVE  Len(assertions) > MaxAttributions
<1>. DEFINE view == MostViewBytes(review.assessment.size)
<1>. SUFFICES ASSUME ~(Len(assertions) > MaxAttributions) PROVE FALSE
  OBVIOUS
<1>1. Len(assertions) \in Nat /\ Len(assertions) <= 8
  BY DEF Sound, MaxAttributions
<1>2. view \in Nat /\ view <= 1904640
  BY ViewBounded DEF Sound, SizedReview, Sized
<1>. HIDE DEF view
<1>3. ReviewsViewBytes(view, 1) \in Nat /\ ReviewsViewBytes(view, 1) <= 6680576
  BY <1>2, ReviewsViewBounded
<1>4. AttributionsViewBytes(ReviewsViewBytes(view, 1), Len(assertions)) <= 9 * MiB
  BY <1>1, <1>3, AttributionsViewBounded
<1>5. ~(view > 8 * MiB \/ ReviewsViewBytes(view, 1) > 16 * MiB)
  BY <1>2, <1>3 DEF MiB
<1>. QED BY <1>1, <1>3, <1>4, <1>5
     DEF Inspected, view, AttributionsViewBytes, MiB, MaxText, MaxLabel

\* Nothing is supplied at first.
LEMMA SoundInit == Init => Sound
<1>. SUFFICES ASSUME Init PROVE Sound
  OBVIOUS
<1>1. assertions \in Seq({}) /\ \A x \in {} : SizedAssertion(x)
  BY DEF Init
<1>2. \E S : assertions \in Seq(S) /\ \A x \in S : SizedAssertion(x)
  BY <1>1
<1>3. saved # "RESOURCE_LIMIT"
  BY AssessmentAssumption DEF Init
<1>. QED BY <1>2, <1>3 DEF Init, Sound, ReviewDocumentFits

\* A visit adds one attribution to what is counted, and exceeds a budget only after
\* the eighth.
LEMMA SoundVisit == Sound /\ Visit => Sound'
<1>. SUFFICES ASSUME Sound, Visit PROVE Sound'
  OBVIOUS
<1>. DEFINE assertion == assertions[call.next]
            about == ReviewSize(assertion.review.assessment.size, assertion.review.texts)
            added == AssertionSize(about, assertion.texts)
            items == Beside(call.items, added)
<1>1. /\ call.next \in Nat \ {0} /\ call.next <= Len(assertions) /\ Len(assertions) \in Nat
      /\ SizedAssertion(assertion)
  BY DEF Sound, Visit
<1>2. AtMost(about, 8204, 514, 143539, 33)
  BY <1>1, ReviewBounded DEF SizedAssertion, SizedReview, Sized
<1>3. AtMost(added, 8228, 517, 148459, 34)
  BY <1>1, <1>2, AssertionBounded DEF SizedAssertion
<1>. HIDE DEF added
<1>4. Attributed(call.items, call.next - 1)
  BY DEF Sound, Visit
<1>5. Attributed(items, call.next)
  <2>. DEFINE k == call.next - 1
  <2>1. k \in Nat /\ AtMost(call.items, 8228 * k, 517 * k, 148459 * k, 34)
    BY <1>1, <1>4 DEF Attributed
  <2>. HIDE DEF k
  <2>2. AtMost(items, 8228 * (k + 1), 517 * (k + 1), 148459 * (k + 1), 34)
    BY <2>1, <1>3, BesideBounded
  <2>3. k + 1 = call.next
    BY <1>1 DEF k
  <2>. QED BY <2>2, <2>3 DEF Attributed
<1>. HIDE DEF items
<1>6. AtMost(SizeOfReview, 8204, 514, 143539, 33)
  BY ReviewBounded DEF Sound, Visit, SizeOfReview, SizedReview, Sized
<1>7. \/ call' = [call EXCEPT !.next = @ + 1, !.items = items] /\ UNCHANGED result
      \/ ~Within(SizeOfDocument(items), DocumentLimits) /\ call' = None
  BY DEF Visit, items, added, about, assertion
<1>8. ~Within(SizeOfDocument(items), DocumentLimits) => Len(assertions) > MaxAttributions
  <2>1. call.next <= 8 => Within(SizeOfDocument(items), DocumentLimits)
    BY <1>1, <1>5, <1>6, DocumentWithin DEF SizeOfDocument
  <2>. QED BY <2>1, <1>1 DEF MaxAttributions
<1>9. UNCHANGED <<assessment, saved, review, assertions>>
  BY DEF Visit
<1>10. CASE call' = [call EXCEPT !.next = @ + 1, !.items = items] /\ UNCHANGED result
  <2>1. /\ DOMAIN call' = {"kind", "next", "items"}
        /\ call'.next = call.next + 1 /\ call'.items = items
    BY <1>10 DEF Sound, Visit
  <2>2. Attributed(call'.items, call'.next - 1)
    BY <2>1, <1>1, <1>5
  <2>. QED BY <1>1, <1>9, <1>10, <2>1, <2>2 DEF Sound, Visit, ReviewDocumentFits
<1>11. CASE ~Within(SizeOfDocument(items), DocumentLimits) /\ call' = None
  BY <1>8, <1>9, <1>11 DEF Sound, ReviewDocumentFits
<1>. QED BY <1>7, <1>10, <1>11

\* A document that was visited to its end is refused only if there are too many
\* attributions.
LEMMA SoundFinish == Sound /\ Finish => Sound'
<1>. SUFFICES ASSUME Sound, Finish PROVE Sound'
  OBVIOUS
<1>. DEFINE document == SizeOfDocument(call.items)
<1>1. /\ review # None /\ call.next = Len(assertions) + 1 /\ Len(assertions) \in Nat
      /\ Attributed(call.items, Len(assertions))
  BY DEF Sound, Finish
<1>2. AtMost(SizeOfReview, 8204, 514, 143539, 33)
  BY <1>1, ReviewBounded DEF Sound, SizeOfReview, SizedReview, Sized
<1>3. Len(assertions) <= 8 =>
          Within(document, DocumentLimits) /\ ~(MostBytes(document) > 16 * MiB)
  BY <1>1, <1>2, DocumentWithin DEF SizeOfDocument
<1>. HIDE DEF document
<1>4. result'.outcome = "RESOURCE_LIMIT" => Len(assertions) > MaxAttributions
  BY <1>1, <1>3, InspectionFits DEF Finish, Answer, MaxAttributions, document
<1>. QED BY <1>4 DEF Sound, Finish, ReviewDocumentFits

\* Reviews are inspected at once, however many they are.
LEMMA SoundInspect == Sound /\ InspectReviews => Sound'
<1>. SUFFICES ASSUME Sound, InspectReviews PROVE Sound'
  OBVIOUS
<1>. DEFINE view == MostViewBytes(assessment.size)
<1>1. view \in Nat /\ view <= 1904640
  BY ViewBounded DEF Sound, InspectReviews, Sized
<1>. HIDE DEF view
<1>2. \A n \in {0, 1, MaxReviews} :
          ~(view > 8 * MiB \/ ReviewsViewBytes(view, n) > 16 * MiB)
  BY <1>1, ReviewsViewBounded DEF MiB
<1>3. \A n \in {0, 1, MaxReviews, MaxReviews + 1} :
          n > MaxReviews \/ ~(view > 8 * MiB \/ ReviewsViewBytes(view, n) > 16 * MiB)
  BY <1>2 DEF MaxReviews
<1>4. result'.outcome # "RESOURCE_LIMIT"
  BY <1>3 DEF InspectReviews, view
<1>. QED BY <1>4 DEF Sound, InspectReviews, ReviewDocumentFits

\* An attribution is of the review or of one restated, before anything is written.
LEMMA SoundAttribute == Sound /\ Attribute => Sound'
<1>. SUFFICES ASSUME Sound, Attribute PROVE Sound'
  OBVIOUS
<1>1. PICK texts \in AssertionTexts \cup {assertions[1].texts},
           target \in {review} \cup Restated(review) :
          /\ assertions # <<>> \/ texts \in AssertionTexts
          /\ assertions = <<>> \/ texts = assertions[1].texts \/ texts \in AssertionTexts
          /\ assertions' = Append(assertions, [review |-> target, texts |-> texts])
  BY DEF Attribute
<1>2. PICK S : assertions \in Seq(S) /\ \A x \in S : SizedAssertion(x)
  BY DEF Sound
<1>3. texts \in AssertionTexts
  <2>1. CASE assertions = <<>>
    BY <1>1, <2>1
  <2>2. CASE assertions # <<>>
    <3>1. assertions[1] \in S
      BY <1>2, <2>2
    <3>. QED BY <1>1, <1>2, <3>1 DEF SizedAssertion
  <2>. QED BY <2>1, <2>2
<1>4. SizedReview(target)
  BY <1>1, RestatedSized DEF Sound, Attribute
<1>. DEFINE new == [review |-> target, texts |-> texts]
<1>5. SizedAssertion(new)
  BY <1>3, <1>4 DEF SizedAssertion
<1>. HIDE DEF new
<1>6. assertions' \in Seq(S \cup {new})
  BY <1>1, <1>2 DEF new
<1>7. \E T : assertions' \in Seq(T) /\ \A x \in T : SizedAssertion(x)
  BY <1>2, <1>5, <1>6
<1>8. UNCHANGED <<assessment, saved, review, call, result, writer>> /\ call = None /\ result = None
  BY DEF Attribute
<1>. QED BY <1>7, <1>8 DEF Sound, ReviewDocumentFits

\* What is supplied is admitted, and is saved; reading and writing a document starts
\* with nothing counted; a text has no part in any of this.
LEMMA SoundNext == Sound /\ [Next]_vars => Sound'
<1>. SUFFICES ASSUME Sound, [Next]_vars PROVE Sound'
  OBVIOUS
<1>1. CASE Supply
  BY <1>1, AssessmentsSized DEF Sound, Supply, ReviewDocumentFits
<1>2. CASE Save
  <2>1. saved' = "saved"
    BY <1>2, SaveSucceeds DEF Sound, Save, Sized
  <2>. QED BY <1>2, <2>1 DEF Sound, Save, ReviewDocumentFits
<1>3. CASE SupplyReview
  <2>1. PICK texts \in ReviewTexts : review' = [assessment |-> assessment, texts |-> texts]
    BY <1>3 DEF SupplyReview
  <2>2. SizedReview(review') /\ assessment # None
    BY <1>3, <2>1 DEF Sound, SupplyReview, SizedReview
  <2>. QED BY <1>3, <2>2 DEF Sound, SupplyReview, ReviewDocumentFits
<1>4. CASE Encode \/ Decode
  <2>1. UNCHANGED <<assessment, saved, review, assertions, writer>> /\ review # None
    BY <1>4 DEF Encode, Decode
  <2>2. CASE call' = [kind |-> "encode", next |-> 1, items |-> Nothing] /\ UNCHANGED result
    <3>1. Attributed(call'.items, call'.next - 1)
      BY <2>2 DEF Attributed, AtMost, Nothing
    <3>. QED BY <2>1, <2>2, <3>1 DEF Sound, ReviewDocumentFits
  <2>3. CASE call' = [kind |-> "decode", next |-> 1, items |-> Nothing] /\ UNCHANGED result
    <3>1. Attributed(call'.items, call'.next - 1)
      BY <2>3 DEF Attributed, AtMost, Nothing
    <3>. QED BY <2>1, <2>3, <3>1 DEF Sound, ReviewDocumentFits
  <2>4. CASE Answer("encode", Inspected) /\ UNCHANGED call
    <3>1. result'.outcome = "RESOURCE_LIMIT" => Len(assertions) > MaxAttributions
      BY <2>1, <2>4, InspectionFits DEF Answer
    <3>. QED BY <2>1, <2>4, <3>1 DEF Sound, ReviewDocumentFits
  <2>. QED BY <1>4, <2>2, <2>3, <2>4 DEF Encode, Decode, Start
<1>5. CASE InspectReviews
  BY <1>5, SoundInspect
<1>6. CASE Attribute
  BY <1>6, SoundAttribute
<1>7. CASE Visit
  BY <1>7, SoundVisit
<1>8. CASE Finish
  BY <1>8, SoundFinish
<1>9. CASE UNCHANGED <<assessment, saved, review, assertions, call, result>>
  BY <1>9 DEF Sound, ReviewDocumentFits
<1>10. CASE \/ StartText \/ OpenContainer \/ CloseContainer
           \/ BeginString \/ Spell \/ EndString
  BY <1>9, <1>10
     DEF StartText, OpenContainer, CloseContainer, BeginString, Spell, EndString, Write
<1>11. CASE UNCHANGED vars
  BY <1>9, <1>11 DEF vars
<1>. QED BY <1>1, <1>2, <1>3, <1>4, <1>5, <1>6, <1>7, <1>8, <1>10, <1>11 DEF Next

\* Whatever is supplied stays within the bounds of what was admitted, for every size
\* and length of text.
THEOREM SoundAlways == Spec => []Sound
<1>. QED BY SoundInit, SoundNext, PTL DEF Spec

\* An assessment that _check_domain_budget admitted is never refused by
\* _envelope_budget or _codec for its size: AdmittedIsSavable.
THEOREM SavableAlways == Spec => []AdmittedIsSavable
<1>1. Sound => AdmittedIsSavable
  BY DEF Sound, AdmittedIsSavable
<1>. QED BY <1>1, SoundAlways, PTL

\* A review of an admitted assessment and eight attributions are never refused by
\* _tree or _canonical for their size, written or read: ReviewDocumentFits.
THEOREM DocumentFitsAlways == Spec => []ReviewDocumentFits
<1>1. Sound => ReviewDocumentFits
  BY DEF Sound
<1>. QED BY <1>1, SoundAlways, PTL

(***************************************************************************)
(* One text per key                                                        *)
(***************************************************************************)
\* The review is of the assessment, a document is written only of what the inspection
\* accepted, and what was accepted is still what it was.
Told ==
    /\ assessment # None => AssessmentOK(assessment)
    /\ saved = "saved" => assessment # None
    /\ review # None => assessment # None /\ review.assessment = assessment
    /\ call # None =>
          /\ review # None
          /\ DOMAIN call = {"kind", "next", "items"} /\ call.kind \in {"encode", "decode"}
          /\ call.kind = "encode" => Inspected = "accepted"
    /\ result # None /\ result.outcome = "accepted" /\ result.kind # "reviews" =>
          review # None /\ Inspected = "accepted"

\* Nothing is told at first.
LEMMA ToldInit == Init => Told
<1>1. None # "saved"
  BY AssessmentAssumption
<1>. QED BY <1>1 DEF Init, Told

\* The answer of an inspection depends on the review and its attributions alone.
LEMMA SameInspection ==
    ASSUME UNCHANGED <<review, assertions>>
    PROVE  Inspected' = Inspected
BY DEF Inspected

\* An assessment, a saved one, a review and an attribution are told of before any
\* document is; a document is told of when the inspection accepted it.
LEMMA ToldNext == Told /\ [Next]_vars => Told'
<1>. SUFFICES ASSUME Told, [Next]_vars PROVE Told'
  OBVIOUS
<1>1. CASE Supply
  <2>1. AssessmentOK(assessment') /\ assessment = None
    BY <1>1 DEF Supply, Assessments
  <2>2. review = None /\ saved # "saved"
    BY <2>1 DEF Told
  <2>3. UNCHANGED <<saved, review, assertions, call, result>>
    BY <1>1 DEF Supply
  <2>. QED BY <2>1, <2>2, <2>3 DEF Told
<1>2. CASE Save
  <2>1. assessment # None /\ UNCHANGED <<assessment, review, assertions, call, result>>
    BY <1>2 DEF Save
  <2>. QED BY <2>1, SameInspection DEF Told
<1>3. CASE SupplyReview
  <2>1. PICK texts \in ReviewTexts : review' = [assessment |-> assessment, texts |-> texts]
    BY <1>3 DEF SupplyReview
  <2>2. review'.assessment = assessment
    BY <2>1
  <2>3. /\ assessment # None /\ review = None
        /\ UNCHANGED <<assessment, saved, assertions, call, result>>
    BY <1>3 DEF SupplyReview
  <2>. QED BY <2>2, <2>3 DEF Told
<1>4. CASE InspectReviews
  <2>1. result'.kind = "reviews"
    BY <1>4 DEF InspectReviews
  <2>2. call = None /\ UNCHANGED <<assessment, saved, review, assertions, call>>
    BY <1>4 DEF InspectReviews
  <2>. QED BY <2>1, <2>2 DEF Told
<1>5. CASE Attribute
  <2>1. /\ call = None /\ result = None
        /\ UNCHANGED <<assessment, saved, review, call, result>>
    BY <1>5 DEF Attribute
  <2>. QED BY <2>1 DEF Told
<1>6. CASE Encode
  <2>1. /\ review # None /\ call = None /\ result = None
        /\ UNCHANGED <<assessment, saved, review, assertions>>
    BY <1>6 DEF Encode
  <2>2. CASE Inspected = "accepted" /\ Start("encode")
    <3>1. call' = [kind |-> "encode", next |-> 1, items |-> Nothing] /\ result' = result
      BY <2>2 DEF Start
    <3>2. DOMAIN call' = {"kind", "next", "items"} /\ call'.kind = "encode"
      BY <3>1
    <3>. QED BY <2>1, <2>2, <3>1, <3>2, SameInspection DEF Told
  <2>3. CASE Inspected # "accepted" /\ Answer("encode", Inspected) /\ UNCHANGED call
    <3>1. result'.outcome # "accepted"
      BY <2>3 DEF Answer
    <3>. QED BY <2>1, <2>3, <3>1 DEF Told
  <2>. QED BY <1>6, <2>2, <2>3 DEF Encode
<1>7. CASE Decode
  <2>1. /\ review # None /\ result = None
        /\ UNCHANGED <<assessment, saved, review, assertions>>
    BY <1>7 DEF Decode
  <2>2. call' = [kind |-> "decode", next |-> 1, items |-> Nothing] /\ result' = result
    BY <1>7 DEF Decode, Start
  <2>3. DOMAIN call' = {"kind", "next", "items"} /\ call'.kind = "decode"
    BY <2>2
  <2>. QED BY <2>1, <2>2, <2>3 DEF Told
<1>8. CASE Visit
  <2>1. call # None /\ UNCHANGED <<assessment, saved, review, assertions>>
    BY <1>8 DEF Visit
  <2>2. DOMAIN call = {"kind", "next", "items"}
    BY <2>1 DEF Told
  <2>3. PICK items :
          \/ call' = [call EXCEPT !.next = @ + 1, !.items = items] /\ result' = result
          \/ Answer(call.kind, "RESOURCE_LIMIT") /\ call' = None
    BY <1>8, Zenon DEF Visit
  <2>4. CASE call' = [call EXCEPT !.next = @ + 1, !.items = items] /\ result' = result
    <3>1. DOMAIN call' = {"kind", "next", "items"} /\ call'.kind = call.kind
      BY <2>2, <2>4
    <3>. QED BY <2>1, <2>4, <3>1, SameInspection DEF Told
  <2>5. CASE Answer(call.kind, "RESOURCE_LIMIT") /\ call' = None
    <3>1. result'.outcome # "accepted"
      BY <2>5 DEF Answer
    <3>. QED BY <2>1, <2>5, <3>1 DEF Told
  <2>. QED BY <2>3, <2>4, <2>5
<1>9. CASE Finish
  <2>1. /\ call # None /\ call' = None
        /\ UNCHANGED <<assessment, saved, review, assertions>>
    BY <1>9 DEF Finish
  <2>2. result'.outcome = "accepted" => Inspected = "accepted"
    BY <1>9 DEF Finish, Answer, Told
  <2>. QED BY <2>1, <2>2, SameInspection DEF Told
<1>10. CASE UNCHANGED <<assessment, saved, review, assertions, call, result>>
  BY <1>10, SameInspection DEF Told
<1>11. CASE \/ StartText \/ OpenContainer \/ CloseContainer
           \/ BeginString \/ Spell \/ EndString
  BY <1>10, <1>11
     DEF StartText, OpenContainer, CloseContainer, BeginString, Spell, EndString, Write
<1>12. CASE UNCHANGED vars
  BY <1>10, <1>12 DEF vars
<1>. QED BY <1>1, <1>2, <1>3, <1>4, <1>5, <1>6, <1>7, <1>8, <1>9, <1>11, <1>12 DEF Next

\* What is found at one place is found once.
LEMMA FoundOnce ==
    ASSUME NEW S, NEW x \in S, \A y \in S : y = x
    PROVE  Cardinality(S) = 1
<1>1. S = {x}
  OBVIOUS
<1>. QED BY <1>1, FS_Singleton

\* An admitted assessment states each condition in one way, in the basis and in the
\* opinions, and has what it refers to once.
LEMMA AdmittedSpeaksOnce ==
    ASSUME NEW a, AssessmentOK(a)
    PROVE  /\ \A c, d \in ToSet(a.basis.conditions)
                            \cup {a.opinions[i].condition : i \in DOMAIN a.opinions} :
                 c.key = d.key => c = d
           /\ \A i \in DOMAIN a.opinions, k \in MaterialKeys :
                 k \in ToSet(a.opinions[i].material_keys) =>
                     Cardinality({m \in DOMAIN a.basis.materials : a.basis.materials[m] = k}) = 1
           /\ \A i \in DOMAIN a.conflicts : \A k \in {a.conflicts[i].left, a.conflicts[i].right} :
                 Cardinality({o \in DOMAIN a.opinions : a.opinions[o].key = k}) = 1
<1>. DEFINE conditions == a.basis.conditions
            materials == a.basis.materials
            opinions == a.opinions
<1>1. \A i, j \in DOMAIN conditions : conditions[i].key = conditions[j].key => i = j
  BY DEF AssessmentOK, BasisOK, KeysUnrepeated, Unrepeated
<1>2. \A i \in DOMAIN opinions : \E j \in DOMAIN conditions :
          conditions[j] = opinions[i].condition
  BY DEF AssessmentOK, OnBasisCondition
<1>3. \A i, j \in DOMAIN opinions : opinions[i].key = opinions[j].key => i = j
  BY DEF AssessmentOK, KeysUnrepeated, Unrepeated
<1>4. \A i \in DOMAIN opinions : \A k \in DOMAIN opinions[i].material_keys :
          /\ materials # None
          /\ \E m \in DOMAIN materials : materials[m] = opinions[i].material_keys[k]
  BY DEF AssessmentOK
<1>5. materials # None =>
          \A m, n \in DOMAIN materials : materials[m] = materials[n] => m = n
  BY DEF AssessmentOK, BasisOK, Unrepeated
<1>6. \A i \in DOMAIN a.conflicts :
          {a.conflicts[i].left, a.conflicts[i].right} \subseteq KeysOf(opinions)
  BY DEF AssessmentOK
<1>. HIDE DEF conditions, materials, opinions
<1>7. ASSUME NEW c \in ToSet(conditions) \cup {opinions[i].condition : i \in DOMAIN opinions}
      PROVE  \E j \in DOMAIN conditions : conditions[j] = c
  <2>1. CASE c \in ToSet(conditions)
    BY <2>1 DEF ToSet
  <2>2. CASE c \in {opinions[i].condition : i \in DOMAIN opinions}
    BY <1>2, <2>2
  <2>. QED BY <2>1, <2>2
<1>8. \A c, d \in ToSet(conditions) \cup {opinions[i].condition : i \in DOMAIN opinions} :
          c.key = d.key => c = d
  BY <1>1, <1>7
<1>9. ASSUME NEW i \in DOMAIN opinions, NEW k \in ToSet(opinions[i].material_keys)
      PROVE  Cardinality({m \in DOMAIN materials : materials[m] = k}) = 1
  <2>1. PICK n \in DOMAIN opinions[i].material_keys : opinions[i].material_keys[n] = k
    BY DEF ToSet
  <2>2. PICK m \in DOMAIN materials : materials[m] = k
    BY <1>4, <2>1
  <2>3. materials # None
    BY <1>4, <2>1
  <2>4. \A n_1 \in {n_2 \in DOMAIN materials : materials[n_2] = k} : n_1 = m
    BY <1>5, <2>2, <2>3
  <2>. QED BY <2>2, <2>4, FoundOnce
<1>10. ASSUME NEW i \in DOMAIN a.conflicts,
              NEW k \in {a.conflicts[i].left, a.conflicts[i].right}
       PROVE  Cardinality({o \in DOMAIN opinions : opinions[o].key = k}) = 1
  <2>1. k \in KeysOf(opinions)
    BY <1>6
  <2>2. PICK o \in DOMAIN opinions : opinions[o].key = k
    BY <2>1 DEF KeysOf
  <2>3. \A p \in {q \in DOMAIN opinions : opinions[q].key = k} : p = o
    BY <1>3, <2>2
  <2>. QED BY <2>2, <2>3, FoundOnce
<1>. QED BY <1>8, <1>9, <1>10 DEF conditions, materials, opinions

\* Attributions that were accepted are of the review as a whole value.
LEMMA AcceptedAreCopies ==
    ASSUME Inspected = "accepted", NEW i \in DOMAIN assertions
    PROVE  assertions[i].review = review
<1>1. AllAbout(review, [j \in DOMAIN assertions |-> assertions[j].review])
  BY DEF Inspected
<1>. QED BY <1>1 DEF AllAbout

\* What is told speaks of each condition in one way.
LEMMA ToldOnce == Told => OneTextPerKey
<1>. SUFFICES ASSUME Told PROVE OneTextPerKey
  OBVIOUS
<1>. DEFINE accepted == result # None /\ result.outcome = "accepted" /\ result.kind # "reviews"
            copies == IF saved = "saved" THEN {assessment}
                      ELSE {assessment}
                           \cup {assertions[i].review.assessment : i \in DOMAIN assertions}
            conditions(a) == ToSet(a.basis.conditions) \cup
                             {a.opinions[i].condition : i \in DOMAIN a.opinions}
<1>1. ASSUME saved = "saved" \/ accepted
      PROVE  copies = {assessment} /\ AssessmentOK(assessment)
  <2>1. CASE saved = "saved"
    BY <2>1 DEF Told
  <2>2. CASE accepted /\ saved # "saved"
    <3>1. /\ review # None /\ Inspected = "accepted"
          /\ assessment # None /\ review.assessment = assessment
      BY <2>2 DEF Told
    <3>2. \A i \in DOMAIN assertions : assertions[i].review.assessment = assessment
      BY <3>1, AcceptedAreCopies
    <3>. QED BY <2>2, <3>1, <3>2 DEF Told
  <2>. QED BY <1>1, <2>1, <2>2
<1>2. ASSUME saved = "saved" \/ accepted
      PROVE  /\ \A c, d \in UNION {conditions(a) : a \in copies} : c.key = d.key => c = d
             /\ \A a \in copies :
                   /\ \A i \in DOMAIN a.opinions, k \in MaterialKeys :
                         k \in ToSet(a.opinions[i].material_keys) =>
                             Cardinality({m \in DOMAIN a.basis.materials :
                                             a.basis.materials[m] = k}) = 1
                   /\ \A i \in DOMAIN a.conflicts :
                         \A k \in {a.conflicts[i].left, a.conflicts[i].right} :
                             Cardinality({o \in DOMAIN a.opinions : a.opinions[o].key = k}) = 1
  <2>1. copies = {assessment} /\ AssessmentOK(assessment)
    BY <1>1, <1>2
  <2>. HIDE DEF copies
  <2>2. UNION {conditions(a) : a \in copies} = conditions(assessment)
    <3>. HIDE DEF conditions
    <3>. QED BY <2>1
  <2>3. \A c, d \in conditions(assessment) : c.key = d.key => c = d
    BY <2>1, AdmittedSpeaksOnce
  <2>4. \A c, d \in UNION {conditions(a) : a \in copies} : c.key = d.key => c = d
    BY <2>2, <2>3
  <2>5. \A a \in copies : a = assessment
    BY <2>1
  <2>. HIDE DEF conditions, copies
  <2>6. ASSUME NEW a \in copies
        PROVE  /\ \A i \in DOMAIN a.opinions, k \in MaterialKeys :
                     k \in ToSet(a.opinions[i].material_keys) =>
                         Cardinality({m \in DOMAIN a.basis.materials :
                                         a.basis.materials[m] = k}) = 1
               /\ \A i \in DOMAIN a.conflicts :
                     \A k \in {a.conflicts[i].left, a.conflicts[i].right} :
                         Cardinality({o \in DOMAIN a.opinions : a.opinions[o].key = k}) = 1
    <3>1. AssessmentOK(a)
      BY <2>1, <2>5
    <3>. QED BY <3>1, AdmittedSpeaksOnce
  <2>. QED BY <2>4, <2>6, Zenon
<1>. QED BY <1>2, Zenon DEF OneTextPerKey

\* Whatever was saved or accepted states a condition in one way, in the assessment
\* and in all the copies of it: OneTextPerKey.
THEOREM OneTextAlways == Spec => []OneTextPerKey
<1>. QED BY ToldInit, ToldNext, ToldOnce, PTL DEF Spec

(***************************************************************************)
(* The scan for depth                                                      *)
(***************************************************************************)
\* Between two pieces of a text the scan has the depth there, knows whether it is in a
\* string, awaits no escaped character and has refused what went too deep.
Scanned(s, depth, quoted, refused) ==
    /\ DOMAIN s = {"depth", "quoted", "escaped", "refused"}
    /\ s.depth = depth /\ s.quoted = quoted /\ s.escaped = FALSE /\ s.refused = refused

InStep ==
    writer # None =>
        /\ writer.open \in Nat /\ writer.deepest \in Nat /\ writer.open <= writer.deepest
        /\ writer.string \in BOOLEAN
        /\ writer.reader \in Readers
        /\ Scanned(writer.scan, writer.open, writer.string,
                   writer.deepest > ScanLimit(writer.reader))

\* A container opens or closes outside of strings, where a string begins.
LEMMA ScannedOutside ==
    ASSUME NEW s, NEW reader \in Readers, NEW d \in Nat, NEW r \in BOOLEAN,
           Scanned(s, d, FALSE, r)
    PROVE  /\ Scanned(ScanCharacter(s, "open", reader), d + 1, FALSE,
                      r \/ d + 1 > ScanLimit(reader))
           /\ d > 0 => Scanned(ScanCharacter(s, "close", reader), d - 1, FALSE, r)
           /\ Scanned(ScanCharacter(s, "quote", reader), d, TRUE, r)
<1>1. s.depth = d /\ s.quoted = FALSE /\ s.escaped = FALSE /\ s.refused = r
  BY DEF Scanned
<1>2. \A c : ScanCharacter(s, c, reader) = ScanOutside(s, c, reader)
  BY <1>1 DEF ScanCharacter
<1>. DEFINE refused == r \/ d + 1 > ScanLimit(reader)
            below == r \/ (reader = "document" /\ d - 1 < 0)
<1>3. /\ ScanOutside(s, "open", reader) = [s EXCEPT !.depth = d + 1, !.refused = refused]
      /\ ScanOutside(s, "close", reader) = [s EXCEPT !.depth = d - 1, !.refused = below]
      /\ ScanOutside(s, "quote", reader) = [s EXCEPT !.quoted = TRUE]
  BY <1>1 DEF ScanOutside
<1>4. d > 0 => below = r
  OBVIOUS
<1>5. Scanned([s EXCEPT !.quoted = TRUE], d, TRUE, r)
  BY DEF Scanned
<1>. HIDE DEF refused, below
<1>6. /\ Scanned([s EXCEPT !.depth = d + 1, !.refused = refused], d + 1, FALSE, refused)
      /\ Scanned([s EXCEPT !.depth = d - 1, !.refused = below], d - 1, FALSE, below)
  BY DEF Scanned
<1>7. Scanned(ScanCharacter(s, "open", reader), d + 1, FALSE, refused)
  BY <1>2, <1>3, <1>6
<1>8. d > 0 => Scanned(ScanCharacter(s, "close", reader), d - 1, FALSE, r)
  BY <1>2, <1>3, <1>4, <1>6
<1>9. Scanned(ScanCharacter(s, "quote", reader), d, TRUE, r)
  BY <1>2, <1>3, <1>5
<1>. QED BY <1>7, <1>8, <1>9 DEF refused

\* Whatever is spelled in a string, only a quote that is not escaped ends it.
LEMMA ScannedInside ==
    ASSUME NEW s, NEW reader \in Readers, NEW d \in Nat, NEW r \in BOOLEAN,
           Scanned(s, d, TRUE, r)
    PROVE  /\ Scanned(ScanCharacter(s, "quote", reader), d, FALSE, r)
           /\ \A piece \in Spellings : Scanned(Scan(s, piece, reader), d, TRUE, r)
<1>. DEFINE e == [s EXCEPT !.escaped = TRUE]
            f == [e EXCEPT !.escaped = FALSE]
<1>1. s.quoted = TRUE /\ s.escaped = FALSE
  BY DEF Scanned
<1>2. /\ DOMAIN e = {"depth", "quoted", "escaped", "refused"}
      /\ e.depth = d /\ e.quoted = TRUE /\ e.escaped = TRUE /\ e.refused = r
  BY DEF Scanned
<1>3. Scanned([s EXCEPT !.quoted = FALSE], d, FALSE, r)
  BY DEF Scanned
<1>. HIDE DEF e
<1>4. Scanned(f, d, TRUE, r)
  BY <1>2 DEF Scanned
<1>. HIDE DEF f
<1>5. /\ ScanCharacter(s, "quote", reader) = [s EXCEPT !.quoted = FALSE]
      /\ ScanCharacter(s, "plain", reader) = s /\ ScanCharacter(s, "open", reader) = s
      /\ ScanCharacter(s, "close", reader) = s
  BY <1>1 DEF ScanCharacter
<1>6. ScanCharacter(s, "backslash", reader) = e
  BY <1>1 DEF ScanCharacter, e
<1>7. \A c : ScanCharacter(e, c, reader) = f
  BY <1>2 DEF ScanCharacter, f
<1>8. ASSUME NEW piece \in Spellings PROVE Scan(s, piece, reader) \in {s, f}
  <2>1. CASE \E c \in {"plain", "open", "close"} : piece = <<c>>
    BY <1>5, <2>1 DEF Scan
  <2>2. CASE \E c \in {"plain", "quote", "backslash"} : piece = <<"backslash", c>>
    BY <1>6, <1>7, <2>2 DEF Scan
  <2>. QED BY <2>1, <2>2 DEF Spellings
<1>. QED BY <1>3, <1>4, <1>5, <1>8

\* A text goes too deep when it did before or a container opens too deep.
LEMMA Deeper ==
    ASSUME NEW m \in Nat, NEW n \in Nat, NEW limit \in Nat
    PROVE  /\ Larger(m, n) \in Nat /\ n <= Larger(m, n)
           /\ (m > limit \/ n > limit) <=> Larger(m, n) > limit
           /\ n <= m => Larger(m, n) = m
BY DEF Larger

\* The scan keeps step with the text.
LEMMA InStepNext == InStep /\ [Next]_vars => InStep'
<1>. SUFFICES ASSUME InStep, [Next]_vars PROVE InStep'
  OBVIOUS
<1>. DEFINE reader == writer.reader
            limit == ScanLimit(reader)
            n == writer.open
            m == writer.deepest
<1>1. limit \in Nat
  BY DEF ScanLimit, FileLimits, DocumentLimits
<1>. HIDE DEF limit
<1>2. ASSUME writer # None, NEW open \in Nat, NEW string \in BOOLEAN, NEW piece,
             Write(open, string, piece),
             Scanned(Scan(writer.scan, piece, reader), open, string, m > limit \/ open > limit)
      PROVE  InStep'
  <2>1. /\ writer'.reader = reader /\ reader \in Readers
        /\ writer'.open = open /\ writer'.deepest = Larger(m, open)
        /\ writer'.string = string /\ writer'.scan = Scan(writer.scan, piece, reader)
    BY <1>2 DEF Write, InStep
  <2>2. m \in Nat
    BY <1>2 DEF InStep
  <2>3. /\ Larger(m, open) \in Nat /\ open <= Larger(m, open)
        /\ (m > limit \/ open > limit) <=> Larger(m, open) > limit
    BY <1>1, <2>2, Deeper
  <2>4. (m > limit \/ open > limit) = (Larger(m, open) > limit)
    BY <2>3
  <2>5. Scanned(writer'.scan, writer'.open, writer'.string, writer'.deepest > limit)
    BY <1>2, <2>1, <2>4
  <2>. QED BY <2>1, <2>3, <2>5 DEF InStep, limit
<1>3. ASSUME writer # None
      PROVE  /\ n \in Nat /\ m \in Nat /\ n <= m
             /\ reader \in Readers /\ writer.string \in BOOLEAN /\ (m > limit) \in BOOLEAN
             /\ Scanned(writer.scan, n, writer.string, m > limit)
             /\ (m > limit \/ n > limit) = (m > limit)
  <2>1. n \in Nat /\ m \in Nat /\ n <= m
    BY <1>3 DEF InStep
  <2>2. (m > limit \/ n > limit) = (m > limit)
    BY <1>1, <2>1
  <2>. QED BY <1>3, <2>1, <2>2 DEF InStep, limit
<1>4. \A s, c : Scan(s, <<c>>, reader) = ScanCharacter(s, c, reader)
  BY DEF Scan
<1>5. CASE StartText
  <2>1. /\ writer'.reader \in Readers /\ writer'.open = 0 /\ writer'.deepest = 0
        /\ writer'.string = FALSE /\ writer'.scan = Unscanned
    BY <1>5 DEF StartText
  <2>2. Scanned(Unscanned, 0, FALSE, FALSE)
    BY DEF Unscanned, Scanned
  <2>3. (writer'.deepest > ScanLimit(writer'.reader)) = FALSE
    BY <2>1 DEF ScanLimit, FileLimits, DocumentLimits
  <2>4. Scanned(writer'.scan, writer'.open, writer'.string,
                writer'.deepest > ScanLimit(writer'.reader))
    BY <2>1, <2>2, <2>3
  <2>5. /\ writer'.open \in Nat /\ writer'.deepest \in Nat
        /\ writer'.open <= writer'.deepest
    BY <2>1
  <2>6. writer'.string \in BOOLEAN
    BY <2>1, Zenon
  <2>. QED BY <2>1, <2>4, <2>5, <2>6 DEF InStep
<1>6. CASE OpenContainer
  <2>1. writer # None /\ writer.string = FALSE /\ Write(n + 1, FALSE, <<"open">>)
    BY <1>3, <1>6 DEF OpenContainer
  <2>2. Scanned(Scan(writer.scan, <<"open">>, reader), n + 1, FALSE, m > limit \/ n + 1 > limit)
    BY <1>3, <1>4, <2>1, ScannedOutside DEF limit
  <2>3. n + 1 \in Nat
    BY <1>3, <2>1
  <2>. QED BY <1>2, <2>1, <2>2, <2>3
<1>7. CASE CloseContainer
  <2>1. writer # None /\ writer.string = FALSE /\ Write(n - 1, FALSE, <<"close">>) /\ n > 0
    BY <1>3, <1>7 DEF CloseContainer
  <2>2. n - 1 \in Nat /\ n - 1 <= m
    BY <1>3, <2>1
  <2>3. (m > limit \/ n - 1 > limit) = (m > limit)
    BY <1>1, <1>3, <2>1, <2>2
  <2>4. Scanned(Scan(writer.scan, <<"close">>, reader), n - 1, FALSE, m > limit \/ n - 1 > limit)
    BY <1>3, <1>4, <2>1, <2>3, ScannedOutside
  <2>. QED BY <1>2, <2>1, <2>2, <2>4
<1>8. CASE BeginString
  <2>1. writer # None /\ writer.string = FALSE /\ Write(n, TRUE, <<"quote">>)
    BY <1>3, <1>8 DEF BeginString
  <2>2. Scanned(Scan(writer.scan, <<"quote">>, reader), n, TRUE, m > limit \/ n > limit)
    BY <1>3, <1>4, <2>1, ScannedOutside
  <2>. QED BY <1>2, <1>3, <2>1, <2>2
<1>9. CASE Spell
  <2>1. PICK piece \in Spellings : Write(n, TRUE, piece)
    BY <1>9 DEF Spell
  <2>2. writer # None /\ writer.string = TRUE
    BY <1>3, <1>9 DEF Spell
  <2>3. Scanned(Scan(writer.scan, piece, reader), n, TRUE, m > limit \/ n > limit)
    BY <1>3, <2>2, ScannedInside
  <2>. QED BY <1>2, <1>3, <2>1, <2>2, <2>3
<1>10. CASE EndString
  <2>1. writer # None /\ writer.string = TRUE /\ Write(n, FALSE, <<"quote">>)
    BY <1>3, <1>10 DEF EndString
  <2>2. Scanned(Scan(writer.scan, <<"quote">>, reader), n, FALSE, m > limit \/ n > limit)
    BY <1>3, <1>4, <2>1, ScannedInside
  <2>. QED BY <1>2, <1>3, <2>1, <2>2
<1>11. CASE UNCHANGED writer
  BY <1>11 DEF InStep
<1>12. CASE \/ Supply \/ Save \/ SupplyReview \/ InspectReviews \/ Attribute
            \/ Encode \/ Decode \/ Visit \/ Finish \/ UNCHANGED vars
  BY <1>11, <1>12 DEF Supply, Save, SupplyReview, InspectReviews, Attribute,
                      Encode, Decode, Visit, Finish, vars
<1>. QED BY <1>5, <1>6, <1>7, <1>8, <1>9, <1>10, <1>12 DEF Next

\* The scan knows the depth of any well-formed text, with strings of any length and
\* containers as deep as may be, and refuses it if and only if it goes too deep:
\* ScanAgrees.
THEOREM ScanAgreesAlways == Spec => []ScanAgrees
<1>1. Init => InStep
  BY DEF Init, InStep
<1>2. InStep => ScanAgrees
  <2>. SUFFICES ASSUME InStep, writer # None
       PROVE  /\ writer.scan.depth = writer.open
              /\ writer.scan.quoted <=> writer.string
              /\ writer.scan.refused <=> writer.deepest > ScanLimit(writer.reader)
    BY DEF ScanAgrees
  <2>1. Scanned(writer.scan, writer.open, writer.string, writer.deepest > ScanLimit(writer.reader))
    BY DEF InStep
  <2>2. /\ writer.scan.depth = writer.open
        /\ writer.scan.quoted = writer.string
        /\ writer.scan.refused = (writer.deepest > ScanLimit(writer.reader))
    BY <2>1 DEF Scanned
  <2>. QED BY <2>2
<1>. QED BY <1>1, <1>2, InStepNext, PTL DEF Spec
=============================================================================
