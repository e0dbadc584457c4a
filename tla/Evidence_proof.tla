---------------------------- MODULE Evidence_proof ----------------------------
EXTENDS Evidence, FiniteSetTheorems, WellFoundedInduction, TLAPS

USE EvidenceAssumption

-----------------------------------------------------------------------------
(* Sequences and sets.                                                     *)

\* Every set of natural numbers has a least element.
LEMMA LeastNatural ==
  ASSUME NEW T, T \subseteq Nat, T # {}
  PROVE  \E n \in T : \A m \in T : n <= m
<1> DEFINE R == OpToRel(<, Nat)
<1>1. IsWellFoundedOn(R, Nat)
  BY NatLessThanWellFounded
<1>2. \A x, y \in Nat : x < y => <<x, y>> \in R
  BY DEF OpToRel
<1> HIDE DEF R
<1>3. PICK n \in T : \A m \in T : <<m, n>> \notin R
  BY <1>1, WFMin
<1>4. ASSUME NEW m \in T PROVE n <= m
  <2>1. n \in Nat /\ m \in Nat /\ ~(m < n)
    BY <1>2, <1>3, <1>4
  <2> QED BY <2>1
<1> QED BY <1>4

\* A bounded set of natural numbers that is not empty has a greatest element.
LEMMA GreatestNatural ==
  ASSUME NEW n \in Nat, NEW T, T \subseteq 0 .. n, T # {}
  PROVE  Max(T) \in T /\ \A m \in T : m <= Max(T)
<1> DEFINE D == {d \in 0 .. n : n - d \in T}
<1>1. D # {}
  <2>1. PICK t \in T : TRUE
    OBVIOUS
  <2>2. n - t \in 0 .. n /\ n - (n - t) = t
    BY <2>1
  <2> QED BY <2>1, <2>2
<1>2. PICK d \in D : \A e \in D : d <= e
  <2>1. D \subseteq Nat
    OBVIOUS
  <2> HIDE DEF D
  <2> QED BY <1>1, <2>1, LeastNatural
<1>3. ASSUME NEW m \in T PROVE m <= n - d
  <2>1. m \in 0 .. n /\ n - m \in 0 .. n /\ n - (n - m) = m
    BY <1>3
  <2>2. n - m \in D
    BY <2>1
  <2> QED BY <1>2, <2>1, <2>2
<1>4. n - d \in T /\ \A m \in T : n - d >= m
  BY <1>2, <1>3
<1>5. Max(T) \in T /\ \A m \in T : Max(T) >= m
  BY <1>4 DEF Max
<1> QED BY <1>5

\* The elements of a finite set, in some order.
LEMMA SetToSeqType ==
  ASSUME NEW S, IsFiniteSet(S)
  PROVE  /\ Cardinality(S) \in Nat
         /\ SetToSeq(S) \in [1 .. Cardinality(S) -> S]
         /\ SetToSeq(S) \in Seq(S)
         /\ Values(SetToSeq(S)) = S
<1> DEFINE n == Cardinality(S)
<1>1. n \in Nat /\ ExistsBijection(1 .. n, S)
  BY FS_CardinalityType
<1>2. PICK f \in Bijection(1 .. n, S) : TRUE
  BY <1>1 DEF ExistsBijection
<1>3. f \in [1 .. n -> S] /\ IsInjective(f)
  BY <1>2 DEF Bijection, Injection, IsInjective
<1>4. SetToSeq(S) \in [1 .. n -> S] /\ IsInjective(SetToSeq(S))
  BY <1>3 DEF SetToSeq
<1> DEFINE g == SetToSeq(S)
<1> HIDE DEF n, g
<1>5. g \in Injection(1 .. n, S)
  BY <1>4 DEF Injection, IsInjective, g
<1>6. IsFiniteSet(1 .. n) /\ Cardinality(1 .. n) = Cardinality(S)
  <2>1. 1 \in Int /\ n \in Int /\ (IF 1 > n THEN 0 ELSE n - 1 + 1) = n
    BY <1>1
  <2>2. IsFiniteSet(1 .. n) /\ Cardinality(1 .. n) = n
    BY <2>1, FS_Interval
  <2> QED BY <2>2 DEF n
<1>7. g \in Surjection(1 .. n, S)
  BY <1>5, <1>6, FS_Injection
<1>8. Values(g) = S
  BY <1>4, <1>7 DEF Surjection, Values, g
<1> QED BY <1>1, <1>4, <1>8 DEF g, n


-----------------------------------------------------------------------------
(* Memberships, runs and assessments.                                      *)

\* All that a membership holds names the request that it is the membership of.
LEMMA MembershipNames ==
  ASSUME NEW m \in Memberships
  PROVE  /\ m.key \in RequestIds /\ m.names \subseteq {m.key}
         /\ m.started \in Times \cup {None} /\ m.completed \in Times \cup {None}
<1>1. PICK id \in RequestIds, reference \in Optional(References),
           response \in Optional(Responses), artifacts \in Optional(ArtifactTuples) :
        /\ MembershipOK(id, reference, response, artifacts)
        /\ m = Membership(id, reference, response, artifacts)
  BY DEF Memberships
<1>2. m.key = id
  BY <1>1 DEF Membership
<1>3. \A p \in {reference, response} \ {None} : p.request = id
  BY <1>1 DEF MembershipOK
<1>4. artifacts # None => \A p \in Values(artifacts) : p.request = id
  BY <1>1 DEF MembershipOK, Values
<1>5. m.names \subseteq {id}
  BY <1>1, <1>3, <1>4 DEF Membership
<1>6. m.started \in Times \cup {None}
  BY <1>1 DEF Membership, Optional, References
<1>7. m.completed \in Times \cup {None}
  BY <1>1 DEF Membership, Optional, Responses
<1> QED BY <1>1, <1>2, <1>5, <1>6, <1>7

\* What a caller holds as a run: an admitted one of requests it could build.
SealedRun(run) ==
  /\ RunOK(run)
  /\ run.key \in RunIds /\ run.started \in Times /\ run.sealed \in Times
  /\ run.requests \in Seq(Memberships)

\* The last request before another that has a reference is a request with one.
LEMMA PreviousStartIs ==
  ASSUME NEW requests \in Seq(Memberships), NEW j \in DOMAIN requests,
         NEW i \in DOMAIN requests, i < j, requests[i].started # None
  PROVE  \E k \in DOMAIN requests : /\ i <= k /\ k < j /\ requests[k].started # None
                                    /\ PreviousStart(requests, j) = requests[k].started
<1> DEFINE earlier == {k \in 1 .. (j - 1) : requests[k].started # None}
<1>1. DOMAIN requests = 1 .. Len(requests) /\ Len(requests) \in Nat
  OBVIOUS
<1>2. i \in earlier /\ earlier \subseteq 0 .. j /\ j \in Nat
  BY <1>1
<1>3. PreviousStart(requests, j) = IF earlier = {} THEN None ELSE requests[Max(earlier)].started
  BY DEF PreviousStart
<1>4. Max(earlier) \in earlier /\ i <= Max(earlier)
  <2> HIDE DEF earlier
  <2> QED BY <1>2, GreatestNatural
<1>5. Max(earlier) \in DOMAIN requests /\ Max(earlier) < j
  BY <1>1, <1>4
<1>6. requests[Max(earlier)].started # None
  BY <1>4
<1>7. earlier # {}
  BY <1>2
<1> HIDE DEF earlier
<1> QED BY <1>3, <1>4, <1>5, <1>6, <1>7

\* The starts of a run never go back, however many requests without one lie between.
\* Of two that did, the second as early in the run as possible, the request before
\* it would be an earlier one.
LEMMA StartsInOrder ==
  ASSUME NEW run, SealedRun(run)
  PROVE  \A i, j \in DOMAIN run.requests :
           /\ i < j /\ run.requests[i].started # None /\ run.requests[j].started # None
           => run.requests[i].started <= run.requests[j].started
<1> DEFINE s(i) == run.requests[i].started
           Back(i, j) == i < j /\ s(i) # None /\ s(j) # None /\ ~(s(i) <= s(j))
           Later == {j \in DOMAIN run.requests : \E i \in DOMAIN run.requests : Back(i, j)}
<1>1. run.requests \in Seq(Memberships) /\ RunOK(run)
  BY DEF SealedRun
<1>2. DOMAIN run.requests = 1 .. Len(run.requests) /\ Len(run.requests) \in Nat
  BY <1>1
<1>3. \A i \in DOMAIN run.requests : s(i) # None => s(i) \in Nat
  BY <1>1, <1>2, MembershipNames
<1>4. ASSUME Later # {} PROVE FALSE
  <2>1. Later \subseteq Nat
    BY <1>2
  <2>2. PICK j \in Later : \A k \in Later : j <= k
    <3> HIDE DEF Later
    <3> QED BY <1>4, <2>1, LeastNatural
  <2>3. PICK i \in DOMAIN run.requests : Back(i, j)
    BY <2>2
  <2>4. j \in DOMAIN run.requests
    BY <2>2
  <2>5. PICK k \in DOMAIN run.requests :
          i <= k /\ k < j /\ s(k) # None /\ PreviousStart(run.requests, j) = s(k)
    BY <1>1, <2>3, <2>4, PreviousStartIs
  <2>6. s(k) <= s(j)
    BY <1>1, <2>3, <2>4, <2>5 DEF RunOK
  <2>7. s(i) \in Nat /\ s(j) \in Nat /\ s(k) \in Nat
    BY <1>3, <2>3, <2>4, <2>5
  <2>8. ~(s(i) <= s(k))
    BY <2>3, <2>6, <2>7
  <2>9. i < k
    <3>1. i \in Nat /\ k \in Nat
      BY <1>2, <2>3, <2>5
    <3> QED BY <2>5, <2>7, <2>8, <3>1
  <2>10. k \in Later
    BY <2>3, <2>5, <2>8, <2>9
  <2> QED BY <1>2, <2>2, <2>4, <2>5, <2>10
<1> QED BY <1>4

\* The worst outcome of an assessment, in numbers.
Rank(outcome) == CASE outcome = "unknown" -> 3
                   [] outcome \in PartialOutcomes -> 2
                   [] outcome = "intentionally_omitted" -> 1
                   [] OTHER -> 0
Standing(status) == CASE status = "scope_unknown" -> 3
                      [] status = "scope_partial" -> 2
                      [] status = "scope_satisfied_with_declared_omissions" -> 1
                      [] OTHER -> 0

\* The status the outcomes allow has the rank of the worst of them.
LEMMA StatusIsWorst ==
  ASSUME NEW outcomes, outcomes # {}
  PROVE  Standing(ExpectedStatus(outcomes)) = Max({Rank(o) : o \in outcomes})
<1> DEFINE R == {Rank(o) : o \in outcomes}
           n == Standing(ExpectedStatus(outcomes))
<1>1. \A o \in outcomes : n >= Rank(o)
  BY DEF Rank, Standing, ExpectedStatus, PartialOutcomes
<1>2. n \in R
  <2>1. CASE "unknown" \in outcomes
    <3>1. n = 3 /\ Rank("unknown") = 3
      BY <2>1 DEF ExpectedStatus, Standing, Rank, PartialOutcomes
    <3> QED BY <2>1, <3>1
  <2>2. CASE "unknown" \notin outcomes /\ outcomes \cap PartialOutcomes # {}
    <3>1. PICK o \in outcomes : o \in PartialOutcomes
      BY <2>2
    <3>2. n = 2 /\ Rank(o) = 2
      BY <2>2, <3>1 DEF ExpectedStatus, Standing, Rank, PartialOutcomes
    <3> QED BY <3>2
  <2>3. CASE /\ "unknown" \notin outcomes /\ outcomes \cap PartialOutcomes = {}
             /\ "intentionally_omitted" \in outcomes
    <3>1. n = 1 /\ Rank("intentionally_omitted") = 1
      BY <2>3 DEF ExpectedStatus, Standing, Rank, PartialOutcomes
    <3> QED BY <2>3, <3>1
  <2>4. CASE /\ "unknown" \notin outcomes /\ outcomes \cap PartialOutcomes = {}
             /\ "intentionally_omitted" \notin outcomes
    <3>1. PICK o \in outcomes : TRUE
      OBVIOUS
    <3>2. n = 0 /\ Rank(o) = 0
      BY <2>4 DEF ExpectedStatus, Standing, Rank
    <3> QED BY <3>2
  <2> QED BY <2>1, <2>2, <2>3, <2>4
<1>3. n \in Int /\ \A r \in R : r \in Int
  BY DEF Standing, Rank
<1>4. \A r \in R : n >= r
  BY <1>1
<1> HIDE DEF R, n
<1>5. Max(R) \in R /\ \A r \in R : Max(R) >= r
  BY <1>2, <1>4 DEF Max
<1>6. Max(R) = n
  BY <1>2, <1>3, <1>4, <1>5
<1> QED BY <1>6 DEF R, n


-----------------------------------------------------------------------------
(* The invariant.                                                          *)

\* What the caller holds is built: finitely many records of each family, each of
\* the class of its family.
DeskOK ==
  /\ desk = [f \in Families |-> desk[f]]
  /\ \A f \in Families : IsFiniteSet(desk[f])
  /\ desk["legacy_snapshots"] \subseteq Snapshots
  /\ desk["request_memberships"] \subseteq Memberships
  /\ \A run \in desk["acquisition_runs"] : SealedRun(run)
  /\ desk["completeness_assessments"] \subseteq Assessments

\* The envelope is admitted, and made of such records.
EnvelopeInv ==
  envelope # None =>
    /\ envelope = [f \in Families |-> envelope[f]]
    /\ EnvelopeOK(envelope)
    /\ \A f \in Families : envelope[f] # None => envelope[f] \in Seq(Values(envelope[f]))
    /\ Component("legacy_snapshots") \subseteq Snapshots
    /\ Component("request_memberships") \subseteq Memberships
    /\ \A run \in Component("acquisition_runs") : SealedRun(run)

\* The projection is the one of the envelope that is there.
ProjectionInv ==
  projection # None => envelope # None /\ projection = Projection(envelope)

Inv == DeskOK /\ EnvelopeInv /\ ProjectionInv

\* Initially the caller holds nothing.
LEMMA InitInv == Init => Inv
<1> SUFFICES ASSUME Init PROVE Inv
  OBVIOUS
<1>1. \A f \in Families : desk[f] = {}
  BY DEF Init
<1>2. IsFiniteSet({})
  BY FS_EmptySet
<1>3. DeskOK
  <2>1. desk = [f \in Families |-> desk[f]]
    BY DEF Init
  <2>2. \A f \in Families : IsFiniteSet(desk[f])
    BY <1>1, <1>2
  <2> QED BY <1>1, <2>1, <2>2 DEF DeskOK, Families, Modern
<1> QED BY <1>3 DEF Init, Inv, EnvelopeInv, ProjectionInv

\* To hold one more record of a class keeps what is held in order.
LEMMA HoldInv ==
  ASSUME Inv, NEW f \in Families, NEW records, Hold(f, records),
         f = "legacy_snapshots" => records \subseteq Snapshots,
         f = "request_memberships" => records \subseteq Memberships,
         f # "acquisition_runs",
         f = "completeness_assessments" => records \subseteq Assessments
  PROVE  Inv'
<1>1. PICK r \in records \ desk[f] : desk' = [desk EXCEPT ![f] = @ \cup {r}]
  BY DEF Hold
<1>2. envelope' = envelope /\ projection' = projection
  BY DEF Hold
<1>3. /\ desk' = [g \in Families |-> desk'[g]]
      /\ desk'[f] = desk[f] \cup {r}
      /\ \A g \in Families : g # f => desk'[g] = desk[g]
  BY <1>1 DEF Inv, DeskOK
<1>4. \A g \in Families : IsFiniteSet(desk'[g])
  <2>1. IsFiniteSet(desk[f] \cup {r})
    BY FS_AddElement DEF Inv, DeskOK
  <2> QED BY <1>3, <2>1 DEF Inv, DeskOK
<1>5. /\ "legacy_snapshots" \in Families /\ "request_memberships" \in Families
      /\ "acquisition_runs" \in Families /\ "completeness_assessments" \in Families
  BY DEF Families, Modern
<1>6. desk'["legacy_snapshots"] \subseteq Snapshots
  BY <1>1, <1>3, <1>5 DEF Inv, DeskOK
<1>7. desk'["request_memberships"] \subseteq Memberships
  BY <1>1, <1>3, <1>5 DEF Inv, DeskOK
<1>8. \A run \in desk'["acquisition_runs"] : SealedRun(run)
  BY <1>3, <1>5 DEF Inv, DeskOK
<1>9. desk'["completeness_assessments"] \subseteq Assessments
  BY <1>1, <1>3, <1>5 DEF Inv, DeskOK
<1>10. DeskOK'
  BY <1>3, <1>4, <1>6, <1>7, <1>8, <1>9 DEF DeskOK
<1> QED BY <1>2, <1>10 DEF Inv, EnvelopeInv, ProjectionInv, Component

\* A run is sealed of requests that the caller holds, in some order.
LEMMA SealInv == ASSUME Inv, SealRun PROVE Inv'
<1>1. PICK members \in SUBSET desk["request_memberships"] :
      \E requests \in SetToSeqs(members), key \in RunIds, started, sealed \in Times,
         count \in {0, Cardinality(members)} :
        LET run == [key |-> key, started |-> started, sealed |-> sealed,
                    count |-> count, requests |-> requests] IN
        /\ RunOK(run)
        /\ run \notin desk["acquisition_runs"]
        /\ desk' = [desk EXCEPT !["acquisition_runs"] = @ \cup {run},
                                !["request_memberships"] = @ \ members]
        /\ Fits(desk')
  BY Zenon DEF SealRun
<1>2. PICK requests \in SetToSeqs(members), key \in RunIds, started \in Times, sealed \in Times,
         count \in {0, Cardinality(members)} :
        LET run == [key |-> key, started |-> started, sealed |-> sealed,
                    count |-> count, requests |-> requests] IN
        /\ RunOK(run)
        /\ desk' = [desk EXCEPT !["acquisition_runs"] = @ \cup {run},
                                !["request_memberships"] = @ \ members]
  BY <1>1
<1> DEFINE run == [key |-> key, started |-> started, sealed |-> sealed,
                   count |-> count, requests |-> requests]
<1>3. envelope' = envelope /\ projection' = projection
  BY DEF SealRun
<1>4. /\ "legacy_snapshots" \in Families /\ "request_memberships" \in Families
      /\ "acquisition_runs" \in Families /\ "completeness_assessments" \in Families
  BY DEF Families, Modern
<1>5. members \subseteq Memberships /\ IsFiniteSet(members) /\ Cardinality(members) \in Nat
  BY <1>4, FS_Subset, FS_CardinalityType DEF Inv, DeskOK
<1>6. requests \in Seq(Memberships)
  <2>1. requests \in [1 .. Cardinality(members) -> members]
    BY DEF SetToSeqs
  <2> QED BY <1>5, <2>1
<1>7. SealedRun(run)
  BY <1>2, <1>6 DEF SealedRun
<1>8. desk' = [desk EXCEPT !["acquisition_runs"] = @ \cup {run},
                           !["request_memberships"] = @ \ members]
  BY <1>2
<1> HIDE DEF run
<1>9. /\ desk' = [g \in Families |-> desk'[g]]
      /\ desk'["acquisition_runs"] = desk["acquisition_runs"] \cup {run}
      /\ desk'["request_memberships"] = desk["request_memberships"] \ members
      /\ \A g \in Families \ {"acquisition_runs", "request_memberships"} : desk'[g] = desk[g]
  BY <1>4, <1>8 DEF Inv, DeskOK
<1>10. \A g \in Families : IsFiniteSet(desk'[g])
  <2>1. IsFiniteSet(desk["acquisition_runs"] \cup {run})
    BY <1>4, FS_AddElement DEF Inv, DeskOK
  <2>2. IsFiniteSet(desk["request_memberships"] \ members)
    BY <1>4, FS_Subset DEF Inv, DeskOK
  <2> QED BY <1>9, <2>1, <2>2 DEF Inv, DeskOK
<1>11. desk'["request_memberships"] \subseteq Memberships
  BY <1>9 DEF Inv, DeskOK
<1>12. \A r \in desk'["acquisition_runs"] : SealedRun(r)
  BY <1>7, <1>9 DEF Inv, DeskOK
<1>13. DeskOK'
  BY <1>4, <1>9, <1>10, <1>11, <1>12 DEF DeskOK, Inv
<1> QED BY <1>3, <1>13 DEF Inv, EnvelopeInv, ProjectionInv, Component

\* An envelope is composed of what the caller holds, each family in some order.
LEMMA ComposeInv == ASSUME Inv, Compose PROVE Inv'
<1>1. PICK empty \in {{}, Families} :
        LET e == [f \in Families |-> IF desk[f] = {} /\ f \notin empty
                                     THEN None ELSE SetToSeq(desk[f])] IN
        EnvelopeOK(e) /\ envelope' = e
  BY DEF Compose
<1>2. EnvelopeOK(envelope')
  BY <1>1
<1>3. envelope' = [f \in Families |-> envelope'[f]]
  BY <1>1
<1>4. \A f \in Families : envelope'[f] = None \/ envelope'[f] = SetToSeq(desk[f])
  BY <1>1
<1>5. \A f \in Families : IsFiniteSet(desk[f])
  BY DEF Inv, DeskOK
<1>6. \A f \in Families : envelope'[f] # None =>
        Values(envelope'[f]) = desk[f] /\ envelope'[f] \in Seq(Values(envelope'[f]))
  BY <1>4, <1>5, SetToSeqType
<1>7. \A f \in Families : Values(Stated(envelope'[f])) \subseteq desk[f]
  <2>1. Values(<<>>) = {}
    BY DEF Values
  <2> QED BY <1>6, <2>1 DEF Stated
<1>8. /\ "legacy_snapshots" \in Families /\ "request_memberships" \in Families
      /\ "acquisition_runs" \in Families
  BY DEF Families, Modern
<1>9. EnvelopeInv'
  <2>1. Component("legacy_snapshots")' \subseteq Snapshots
    BY <1>7, <1>8 DEF Component, Inv, DeskOK
  <2>2. Component("request_memberships")' \subseteq Memberships
    BY <1>7, <1>8 DEF Component, Inv, DeskOK
  <2>3. \A run \in Component("acquisition_runs")' : SealedRun(run)
    BY <1>7, <1>8 DEF Component, Inv, DeskOK
  <2> QED BY <1>2, <1>3, <1>6, <2>1, <2>2, <2>3 DEF EnvelopeInv
<1>10. DeskOK'
  <2>1. desk' = [f \in Families |-> {}]
    BY DEF Compose
  <2>2. IsFiniteSet({})
    BY FS_EmptySet
  <2> QED BY <1>8, <2>1, <2>2 DEF DeskOK, Families, Modern
<1>11. ProjectionInv'
  <2>1. projection = None
    BY DEF Compose, Inv, ProjectionInv
  <2> QED BY <2>1 DEF Compose, ProjectionInv
<1> QED BY <1>9, <1>10, <1>11 DEF Inv

\* A snapshot is wrapped in an envelope that states nothing else.
LEMMA WrapInv == ASSUME Inv, WrapSnapshot PROVE Inv'
<1>1. PICK s \in desk["legacy_snapshots"] :
        EnvelopeOK(WrapLegacy(s)) /\ envelope' = WrapLegacy(s)
  BY DEF WrapSnapshot
<1>2. /\ "legacy_snapshots" \in Families /\ "request_memberships" \in Families
      /\ "acquisition_runs" \in Families /\ "completeness_assessments" \in Families
      /\ "legacy_snapshots" \notin Modern
  BY DEF Families, Modern
<1>3. s \in Snapshots
  BY <1>1 DEF Inv, DeskOK
<1>4. envelope' = [f \in Families |-> envelope'[f]]
  BY <1>1 DEF WrapLegacy
<1>5. \A f \in Families : envelope'[f] = IF f = "legacy_snapshots" THEN <<s>> ELSE None
  BY <1>1 DEF WrapLegacy
<1>6. Values(<<s>>) = {s} /\ Values(<<>>) = {}
  <2>1. <<s>> = [i \in 1 .. 1 |-> s]
    OBVIOUS
  <2>2. DOMAIN <<s>> = 1 .. 1 /\ <<s>>[1] = s
    OBVIOUS
  <2> QED BY <2>2 DEF Values
<1>7. \A f \in Families : envelope'[f] # None => envelope'[f] \in Seq(Values(envelope'[f]))
  <2>1. <<s>> \in Seq({s})
    OBVIOUS
  <2> QED BY <1>5, <1>6, <2>1
<1>8. EnvelopeInv'
  <2>1. Component("legacy_snapshots")' \subseteq Snapshots
    BY <1>2, <1>3, <1>5, <1>6 DEF Component, Stated
  <2>2. Component("request_memberships")' = {} /\ Component("acquisition_runs")' = {}
    BY <1>2, <1>5, <1>6 DEF Component, Stated
  <2> QED BY <1>1, <1>4, <1>7, <2>1, <2>2 DEF EnvelopeInv
<1>9. DeskOK'
  <2>1. desk' = [f \in Families |-> {}]
    BY DEF WrapSnapshot
  <2>2. IsFiniteSet({})
    BY FS_EmptySet
  <2> QED BY <1>2, <2>1, <2>2 DEF DeskOK, Families, Modern
<1>10. ProjectionInv'
  <2>1. projection = None
    BY DEF WrapSnapshot, Inv, ProjectionInv
  <2> QED BY <2>1 DEF WrapSnapshot, ProjectionInv
<1> QED BY <1>8, <1>9, <1>10 DEF Inv

\* Every step keeps the invariant.
LEMMA NextInv == ASSUME Inv, [Next]_vars PROVE Inv'
<1> USE DEF Families, Modern
<1>1. CASE Retain
  BY <1>1, HoldInv DEF Retain
<1>2. CASE Request
  BY <1>2, HoldInv DEF Request
<1>3. CASE Transform
  BY <1>3, HoldInv DEF Transform
<1>4. CASE Relate
  BY <1>4, HoldInv DEF Relate
<1>5. CASE Publish
  BY <1>5, HoldInv DEF Publish
<1>6. CASE Assess
  BY <1>6, HoldInv DEF Assess
<1>7. CASE SealRun
  BY <1>7, SealInv
<1>8. CASE Compose
  BY <1>8, ComposeInv
<1>9. CASE WrapSnapshot
  BY <1>9, WrapInv
<1>10. CASE Project
  <2>1. DeskOK'
    BY <1>10 DEF Project, Inv, DeskOK
  <2>2. EnvelopeInv'
    BY <1>10 DEF Project, Inv, EnvelopeInv, Component
  <2>3. ProjectionInv'
    BY <1>10 DEF Project, ProjectionInv
  <2> QED BY <2>1, <2>2, <2>3 DEF Inv
<1>11. CASE UNCHANGED vars
  BY <1>11 DEF vars, Inv, DeskOK, EnvelopeInv, ProjectionInv, Component
<1> QED BY <1>1, <1>2, <1>3, <1>4, <1>5, <1>6, <1>7, <1>8, <1>9, <1>10, <1>11 DEF Next

\* Whatever the caller builds, in any order: each record it holds and each that its
\* envelope states is one that the class of its family admits.
THEOREM Invariance == Spec => []Inv
<1>1. Init => Inv
  BY InitInv
<1>2. Inv /\ [Next]_vars => Inv'
  BY NextInv
<1> QED BY <1>1, <1>2, PTL DEF Spec

-----------------------------------------------------------------------------
(* What the records and envelopes promise.                                 *)

\* A set of which any two elements are equal has at most one.
LEMMA AtMostOne ==
  ASSUME NEW S, \A x, y \in S : x = y
  PROVE  Cardinality(S) <= 1
<1>1. CASE S = {}
  BY <1>1, FS_EmptySet
<1>2. CASE S # {}
  <2>1. PICK x \in S : TRUE
    BY <1>2
  <2>2. S = {x}
    BY <2>1
  <2> QED BY <2>2, FS_Singleton
<1> QED BY <1>1, <1>2

\* A stated family has no two records with one key.
LEMMA KeysApart ==
  ASSUME Inv, envelope # None, NEW f \in Modern,
         NEW r \in Component(f), NEW s \in Component(f), r.key = s.key
  PROVE  r = s
<1> DEFINE c == Stated(envelope[f])
<1>1. Distinct([i \in DOMAIN c |-> envelope[f][i].key])
  BY DEF Inv, EnvelopeInv, EnvelopeOK
<1>2. PICK i \in DOMAIN c : r = c[i]
  BY DEF Component, Values
<1>3. PICK j \in DOMAIN c : s = c[j]
  BY DEF Component, Values
<1>4. c = envelope[f]
  <2>1. CASE envelope[f] = None
    <3>1. DOMAIN <<>> = {}
      OBVIOUS
    <3> QED BY <1>2, <2>1, <3>1 DEF Stated
  <2>2. CASE envelope[f] # None
    BY <2>2 DEF Stated
  <2> QED BY <2>1, <2>2
<1> HIDE DEF c
<1>5. i = j
  BY <1>1, <1>2, <1>3, <1>4 DEF Distinct
<1> QED BY <1>2, <1>3, <1>5

\* A request inside a run is of that run, and at the ordinal that it names.
LEMMA NestedRequest ==
  ASSUME NEW run, SealedRun(run), NEW m \in Values(run.requests)
  PROVE  /\ m \in Memberships /\ m.key.run = run.key
         /\ m.key.ordinal \in DOMAIN run.requests /\ m = run.requests[m.key.ordinal]
<1>1. run.requests \in Seq(Memberships)
  BY DEF SealedRun
<1>2. PICK i \in DOMAIN run.requests : m = run.requests[i]
  BY DEF Values
<1>3. m.key.run = run.key /\ m.key.ordinal = i
  BY <1>2 DEF SealedRun, RunOK
<1>4. m \in Memberships
  BY <1>1, <1>2
<1> QED BY <1>2, <1>3, <1>4

\* Two memberships of an envelope with one key are one membership.
LEMMA OneMembership ==
  ASSUME Inv, envelope # None,
         NEW m \in EveryMembership, NEW n \in EveryMembership, m.key = n.key
  PROVE  m = n
<1>1. "request_memberships" \in Modern /\ "acquisition_runs" \in Modern
  BY DEF Modern
<1>2. \A run \in Component("acquisition_runs") : SealedRun(run)
  BY DEF Inv, EnvelopeInv
<1>3. ASSUME NEW a \in Component("request_memberships"),
             NEW run \in Component("acquisition_runs"), NEW b \in Values(run.requests),
             a.key = b.key
      PROVE  FALSE
  <2>1. a.key \in KeysOf(Stated(envelope["request_memberships"]))
    BY DEF Component, KeysOf
  <2>2. b.key \in NestedIds(envelope["acquisition_runs"])
    BY DEF Component, KeysOf, NestedIds
  <2> QED BY <1>3, <2>1, <2>2 DEF Inv, EnvelopeInv, EnvelopeOK, RequestsApart
<1>4. CASE m \in Component("request_memberships") /\ n \in Component("request_memberships")
  BY <1>1, <1>4, KeysApart
<1>5. ASSUME NEW q \in Component("acquisition_runs"), m \in Values(q.requests),
             NEW r \in Component("acquisition_runs"), n \in Values(r.requests)
      PROVE  m = n
  <2>1. /\ m.key.run = q.key /\ m = q.requests[m.key.ordinal]
        /\ n.key.run = r.key /\ n = r.requests[n.key.ordinal]
    BY <1>2, <1>5, NestedRequest
  <2>2. q = r
    BY <1>1, <2>1, KeysApart
  <2> QED BY <2>1, <2>2
<1> QED BY <1>3, <1>4, <1>5 DEF EveryMembership

\* Whatever an envelope is composed of, a request id has one place in it, and a
\* request inside a run names that run alone.
THEOREM RequestsAtHome == Spec => []OneHomePerRequest
<1>1. ASSUME Inv PROVE OneHomePerRequest
  <2> SUFFICES ASSUME envelope # None
      PROVE /\ \A id \in RequestIds :
                 Cardinality({m \in EveryMembership : id \in m.names \cup {m.key}}) <= 1
            /\ \A m \in Component("request_memberships"), run \in Component("acquisition_runs") :
                 m.key \notin KeysOf(run.requests)
            /\ \A run \in Component("acquisition_runs") : \A m \in Values(run.requests) :
                 \A id \in m.names : id.run = run.key
    BY DEF OneHomePerRequest
  <2>1. \A run \in Component("acquisition_runs") : SealedRun(run)
    BY <1>1 DEF Inv, EnvelopeInv
  <2>2. \A m \in EveryMembership : m \in Memberships
    BY <1>1, <2>1, NestedRequest DEF EveryMembership, Inv, EnvelopeInv
  <2>3. ASSUME NEW id \in RequestIds
        PROVE  Cardinality({m \in EveryMembership : id \in m.names \cup {m.key}}) <= 1
    <3>1. \A m \in EveryMembership : id \in m.names \cup {m.key} => id = m.key
      BY <2>2, MembershipNames
    <3>2. \A m, n \in {o \in EveryMembership : id \in o.names \cup {o.key}} : m = n
      BY <1>1, <3>1, OneMembership
    <3> QED BY <3>2, AtMostOne
  <2>4. ASSUME NEW m \in Component("request_memberships"),
               NEW run \in Component("acquisition_runs"), m.key \in KeysOf(run.requests)
        PROVE  FALSE
    <3>1. m.key \in KeysOf(Stated(envelope["request_memberships"]))
      BY DEF Component, KeysOf
    <3>2. m.key \in NestedIds(envelope["acquisition_runs"])
      BY <2>4 DEF Component, NestedIds
    <3> QED BY <1>1, <3>1, <3>2 DEF Inv, EnvelopeInv, EnvelopeOK, RequestsApart
  <2>5. ASSUME NEW run \in Component("acquisition_runs"), NEW m \in Values(run.requests),
               NEW id \in m.names
        PROVE  id.run = run.key
    BY <2>1, NestedRequest, MembershipNames
  <2> QED BY <2>3, <2>4, <2>5
<1> QED BY <1>1, Invariance, PTL

\* In every run the known starts never go back, also across requests without one,
\* and each answer lies between its request and the seal.
THEOREM RunsInOrder == Spec => []RunChronology
<1>1. ASSUME Inv PROVE RunChronology
  <2> SUFFICES ASSUME NEW run \in desk["acquisition_runs"]
      PROVE /\ \A i, j \in DOMAIN run.requests :
                 /\ i < j /\ run.requests[i].started # None /\ run.requests[j].started # None
                 => run.requests[i].started <= run.requests[j].started
            /\ \A i \in DOMAIN run.requests : run.requests[i].completed # None =>
                 /\ run.requests[i].completed <= run.sealed
                 /\ run.requests[i].started # None =>
                      /\ run.started <= run.requests[i].started
                      /\ run.requests[i].started <= run.requests[i].completed
    BY DEF RunChronology
  <2>1. SealedRun(run)
    BY <1>1 DEF Inv, DeskOK
  <2>2. RunOK(run)
    BY <2>1 DEF SealedRun
  <2>3. \A i \in DOMAIN run.requests : run.requests[i].completed # None =>
          /\ run.requests[i].completed <= run.sealed
          /\ run.requests[i].started # None =>
               /\ run.started <= run.requests[i].started
               /\ run.requests[i].started <= run.requests[i].completed
    BY <2>2 DEF RunOK
  <2> QED BY <2>1, <2>3, StartsInOrder
<1> QED BY <1>1, Invariance, PTL

\* The status of an assessment is the one that the worst of its results earns.
THEOREM StatusEarned == Spec => []CompletenessEarned
<1>1. ASSUME Inv PROVE CompletenessEarned
  <2>1. ASSUME NEW a \in desk["completeness_assessments"]
        PROVE  Standing(a.status) = Max({Rank(r.outcome) : r \in Values(a.requirements)})
    <3>1. a \in Assessments
      BY <1>1 DEF Inv, DeskOK
    <3>2. PICK p \in Results \X Results : a.requirements = SetToSeq({p[1], p[2]})
      BY <3>1 DEF Assessments
    <3>3. IsFiniteSet({p[1], p[2]})
      <4>1. {p[1], p[2]} = {p[1]} \cup {p[2]} /\ IsFiniteSet({p[1]})
        BY FS_Singleton
      <4> QED BY <4>1, FS_AddElement
    <3>4. Values(a.requirements) # {}
      <4>1. Values(a.requirements) = {p[1], p[2]}
        BY <3>2, <3>3, SetToSeqType
      <4> QED BY <4>1
    <3> DEFINE outcomes == {x.outcome : x \in Values(a.requirements)}
    <3>5. a.status = ExpectedStatus(outcomes)
      BY <3>1 DEF Assessments, AssessmentOK
    <3>6. {Rank(o) : o \in outcomes} = {Rank(x.outcome) : x \in Values(a.requirements)}
      OBVIOUS
    <3>7. outcomes # {}
      BY <3>4
    <3> HIDE DEF outcomes
    <3>8. Standing(ExpectedStatus(outcomes)) = Max({Rank(o) : o \in outcomes})
      BY <3>7, StatusIsWorst
    <3> QED BY <3>5, <3>6, <3>8
  <2> QED BY <2>1, Zenon DEF CompletenessEarned, Rank, Standing
<1> QED BY <1>1, Invariance, PTL

\* A projection hands a snapshot back exactly when wrapping it gives the envelope
\* again: nothing that the envelope states is lost.
THEOREM NothingLost == Spec => []ProjectionExact
<1>1. ASSUME Inv PROVE ProjectionExact
  <2> SUFFICES ASSUME projection # None
      PROVE /\ \A s \in Snapshots : projection.snapshot = s <=> envelope = WrapLegacy(s)
            /\ projection.status = "losslessly_mappable" <=> projection.snapshot # None
    BY DEF ProjectionExact
  <2> DEFINE l == Stated(envelope["legacy_snapshots"])
  <2>1. envelope # None /\ projection = Projection(envelope)
    BY <1>1 DEF Inv, ProjectionInv
  <2>2. projection = IF Len(l) # 1 THEN [status |-> "not_mappable", snapshot |-> None]
                     ELSE IF ~LegacyOnly(envelope)
                          THEN [status |-> "partially_mappable", snapshot |-> None]
                     ELSE [status |-> "losslessly_mappable", snapshot |-> l[1]]
    BY <2>1 DEF Projection
  <2>3. "legacy_snapshots" \in Families /\ "legacy_snapshots" \notin Modern
        /\ \A f \in Families : f = "legacy_snapshots" \/ f \in Modern
    BY DEF Families, Modern
  <2>4. ASSUME NEW s \in Snapshots, envelope = WrapLegacy(s)
        PROVE  l = <<s>> /\ LegacyOnly(envelope)
    <3>1. \A f \in Families : envelope[f] = IF f = "legacy_snapshots" THEN <<s>> ELSE None
      BY <2>4 DEF WrapLegacy
    <3>2. envelope["legacy_snapshots"] = <<s>> /\ <<s>> # None
      BY <2>3, <3>1
    <3>3. \A f \in Modern : envelope[f] = None
      BY <2>3, <3>1 DEF Families
    <3> QED BY <3>2, <3>3 DEF Stated, LegacyOnly
  <2>5. \A s \in Snapshots : s # None /\ Len(<<s>>) = 1 /\ <<s>>[1] = s
    OBVIOUS
  <2>6. ASSUME Len(l) = 1 PROVE l[1] \in Snapshots /\ l = <<l[1]>>
                                /\ envelope["legacy_snapshots"] = l
    <3>1. Len(<<>>) = 0
      OBVIOUS
    <3>2. envelope["legacy_snapshots"] # None /\ l = envelope["legacy_snapshots"]
      BY <2>6, <3>1 DEF Stated
    <3>3. Values(l) \subseteq Snapshots
      BY <1>1, <2>1 DEF Inv, EnvelopeInv, Component
    <3>4. l \in Seq(Values(l))
      BY <1>1, <2>1, <2>3, <3>2 DEF Inv, EnvelopeInv
    <3>5. l[1] \in Values(l) /\ l = <<l[1]>>
      <4> HIDE DEF l
      <4>1. \A V : l \in Seq(V) => l[1] \in V /\ l = <<l[1]>>
        BY <2>6
      <4> QED BY <3>4, <4>1
    <3> QED BY <3>2, <3>3, <3>5
  <2>7. ASSUME NEW s \in Snapshots, l = <<s>>, envelope["legacy_snapshots"] = l,
               LegacyOnly(envelope)
        PROVE  envelope = WrapLegacy(s)
    <3>1. \A f \in Families : envelope[f] = IF f = "legacy_snapshots" THEN <<s>> ELSE None
      BY <2>3, <2>7 DEF LegacyOnly
    <3>2. envelope = [f \in Families |-> envelope[f]]
      BY <1>1, <2>1 DEF Inv, EnvelopeInv
    <3> QED BY <3>1, <3>2, Zenon DEF WrapLegacy
  <2> HIDE DEF l
  <2>8. CASE Len(l) # 1
    <3>1. projection.snapshot = None /\ projection.status = "not_mappable"
      BY <2>2, <2>8
    <3> QED BY <2>4, <2>5, <2>8, <3>1
  <2>9. CASE Len(l) = 1 /\ ~LegacyOnly(envelope)
    <3>1. projection.snapshot = None /\ projection.status = "partially_mappable"
      BY <2>2, <2>9
    <3> QED BY <2>4, <2>5, <2>9, <3>1
  <2>10. CASE Len(l) = 1 /\ LegacyOnly(envelope)
    <3>1. projection.snapshot = l[1] /\ projection.status = "losslessly_mappable"
      BY <2>2, <2>10
    <3>2. l[1] \in Snapshots /\ l = <<l[1]>> /\ envelope["legacy_snapshots"] = l
      BY <2>6, <2>10
    <3>3. envelope = WrapLegacy(l[1])
      BY <2>7, <2>10, <3>2
    <3>4. \A s \in Snapshots : envelope = WrapLegacy(s) => l[1] = s
      BY <2>4, <2>5
    <3> QED BY <2>5, <3>1, <3>2, <3>3, <3>4
  <2> QED BY <2>8, <2>9, <2>10
<1> QED BY <1>1, Invariance, PTL
=============================================================================
