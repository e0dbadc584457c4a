----------------------- MODULE FaultComposition_proof -----------------------
(***************************************************************************)
(* Proofs about FaultComposition, for every universe of records: the local *)
(* checks of FaultInstance make a case closed, so that all a member stands *)
(* on, however deep, is a member; names and the fault follow from that.    *)
(***************************************************************************)
EXTENDS FaultComposition, TLAPS

\* A case that has been composed passed the checks of FaultInstance.
CaseSound == case # None => FaultInstanceOK(case.fault, case.members)

\* A link that has been made passed its check against the case, which stays.
LinkSound == link # None => case # None /\ LinkOK(case, link.subject)

PatternSound ==
    composition # None =>
        /\ case # None
        /\ PatternCompositionOK(composition)
        /\ \A e \in composition.expectations : e.case = case /\ ExpectationOK(e)

Sound == CaseSound /\ LinkSound /\ PatternSound

\* Nothing is outside a set of records that is closed under its references.
LEMMA ClosedIsWhole ==
    ASSUME NEW S, ReferencesAreMembers(S)
    PROVE  Whole(S) = S
<1>1. ASSUME NEW T, T = S PROVE Within(T) = S
  <2>1. \A r \in S : Values(r.on) \subseteq S
    BY DEF ReferencesAreMembers, Member, OfKind, Values
  <2>. QED BY <1>1, <2>1 DEF Within
<1>. QED BY <1>1 DEF Whole

\* What stands on part of a closed set is in the closed set.
LEMMA PartStaysWithin ==
    ASSUME NEW S, ReferencesAreMembers(S), NEW T, T \subseteq S
    PROVE  Whole(T) \subseteq S
<1>1. ASSUME NEW U, U \subseteq S PROVE Within(U) \subseteq S
  <2>1. \A r \in S : Values(r.on) \subseteq S
    BY DEF ReferencesAreMembers, Member, OfKind, Values
  <2>. QED BY <1>1, <2>1 DEF Within
<1>. QED BY <1>1 DEF Whole

\* Nothing is composed at first.
LEMMA SoundInit == Init => Sound
BY DEF Init, Sound, CaseSound, LinkSound, PatternSound

\* A composed value passed the checks of its class, and is never changed.
LEMMA SoundNext == Sound /\ [Next]_vars => Sound'
<1>. SUFFICES ASSUME Sound, [Next]_vars PROVE Sound'
  OBVIOUS
<1>. USE DEF Sound, CaseSound, LinkSound, PatternSound
<1>1. CASE ComposeCase
  <2>1. link' = None /\ composition' = None
    BY <1>1 DEF ComposeCase
  <2>2. PICK fault, members : /\ FaultInstanceOK(fault, members)
                             /\ case' = [fault |-> fault, members |-> members]
    BY <1>1 DEF ComposeCase
  <2>. QED BY <2>1, <2>2
<1>2. CASE LinkEvidence
  BY <1>2 DEF LinkEvidence
<1>3. CASE ComposePattern
  <2>1. PICK pattern \in Patterns, invariants \in SmallSubsets(Invariants, 2),
             some \in SmallSubsets({Exemplar(p, case) : p \in Patterns}, 1),
             attached \in SmallSubsets(Attachments, 2),
             expected \in SmallSubsets(ExpectationsOf(case), 1) :
           LET c == [pattern |-> pattern, invariants |-> invariants, exemplars |-> some,
                     attachments |-> attached, expectations |-> expected] IN
           PatternCompositionOK(c) /\ composition' = c
    BY <1>3, Zenon DEF ComposePattern
  <2>2. expected \subseteq ExpectationsOf(case)
    BY DEF SmallSubsets, Values
  <2>3. \A e \in ExpectationsOf(case) : e.case = case /\ ExpectationOK(e)
    BY DEF ExpectationsOf, Expectation
  <2>4. case # None /\ case' = case /\ link' = None
    BY <1>3 DEF ComposePattern
  <2>. QED BY <2>1, <2>2, <2>3, <2>4
<1>4. CASE UNCHANGED vars
  BY <1>4 DEF vars
<1>. QED BY <1>1, <1>2, <1>3, <1>4 DEF Next

\* In every reachable state the composed values passed the checks of their classes.
THEOREM SoundAlways == Spec => []Sound
<1>1. Init => Sound
  BY SoundInit
<1>2. Sound /\ [Next]_vars => Sound'
  BY SoundNext
<1>. QED BY <1>1, <1>2, PTL DEF Spec

\* A case speaks of one fault only, whatever the records (OneFault).
THEOREM CaseIsAboutOneFault == Spec => []OneFault
<1>1. Sound => OneFault
  <2>. SUFFICES ASSUME Sound, case # None
                PROVE  \A r \in OfKind(Whole(case.members), "report") : r.about = case.fault
    BY DEF OneFault
  <2>1. FaultInstanceOK(case.fault, case.members)
    BY DEF Sound, CaseSound
  <2>2. Whole(case.members) = case.members
    BY <2>1, ClosedIsWhole DEF FaultInstanceOK
  <2>. QED BY <2>1, <2>2 DEF FaultInstanceOK, ReportsNameFault
<1>. QED BY <1>1, SoundAlways, PTL

\* All copies of a named record inside a case agree, however deep (OneValuePerName).
THEOREM CaseHasOneValuePerName == Spec => []OneValuePerName
<1>1. Sound => OneValuePerName
  <2>. SUFFICES ASSUME Sound, case # None,
                       NEW r \in Whole(case.members), NEW s \in Whole(case.members),
                       r.kind \in NamedKinds, r.kind = s.kind, r.id = s.id
                PROVE  r = s
    BY DEF OneValuePerName
  <2>1. FaultInstanceOK(case.fault, case.members)
    BY DEF Sound, CaseSound
  <2>2. Whole(case.members) = case.members
    BY <2>1, ClosedIsWhole DEF FaultInstanceOK
  <2>. QED BY <2>1, <2>2 DEF FaultInstanceOK, NamesUnique, OfKind
<1>. QED BY <1>1, SoundAlways, PTL

\* The subject of a link and all it stands on is in the case (EvidenceStaysAttached).
THEOREM LinkedIsCarried == Spec => []EvidenceStaysAttached
<1>1. Sound => EvidenceStaysAttached
  <2>. SUFFICES ASSUME Sound, link # None
                PROVE  Whole({link.subject}) \subseteq case.members
    BY DEF EvidenceStaysAttached
  <2>1. case # None /\ LinkOK(case, link.subject)
    BY DEF Sound, LinkSound
  <2>2. FaultInstanceOK(case.fault, case.members)
    BY <2>1 DEF Sound, CaseSound
  <2>3. link.subject \in case.members
    BY <2>1 DEF LinkOK, OfKind
  <2>. QED BY <2>2, <2>3, PartStaysWithin DEF FaultInstanceOK
<1>. QED BY <1>1, SoundAlways, PTL

\* A composition says one thing of its pattern and of each invariant, and takes
\* expectations only from cases that carry them (PatternSpeaksOnce).
THEOREM PatternIsSpokenOfOnce == Spec => []PatternSpeaksOnce
<1>1. Sound => PatternSpeaksOnce
  <2>. SUFFICES ASSUME Sound, composition # None PROVE PatternSpeaksOnce
    BY DEF PatternSpeaksOnce
  <2>. DEFINE c == composition
              spoken == c.invariants \cup {a.invariant : a \in c.attachments}
                                     \cup {e.invariant : e \in c.expectations}
  <2>1. /\ case # None /\ PatternCompositionOK(c)
        /\ \A e \in c.expectations : e.case = case /\ ExpectationOK(e)
    BY DEF Sound, PatternSound
  <2>2. spoken = c.invariants
    BY <2>1 DEF PatternCompositionOK, InvariantKnown
  <2>3. \A i, j \in spoken : i.id = j.id => i = j
    BY <2>1, <2>2 DEF PatternCompositionOK
  <2>4. \A x \in c.exemplars \cup c.attachments : x.pattern = c.pattern
    BY <2>1 DEF PatternCompositionOK
  <2>5. \A i \in spoken : \E a \in c.attachments : a.invariant = i /\ a.pattern = c.pattern
    BY <2>1, <2>2 DEF PatternCompositionOK, InvariantKnown
  <2>6. ASSUME NEW e \in c.expectations,
               NEW r \in OfKind(Whole({e.property}), "report")
        PROVE  r.about = e.case.fault
    <3>1. FaultInstanceOK(case.fault, case.members) /\ e.case = case
      BY <2>1 DEF Sound, CaseSound
    <3>2. e.property \in case.members
      BY <2>1, <3>1 DEF ExpectationOK, OfKind
    <3>3. Whole({e.property}) \subseteq case.members
      BY <3>1, <3>2, PartStaysWithin DEF FaultInstanceOK
    <3>. QED BY <3>1, <3>3 DEF FaultInstanceOK, ReportsNameFault, OfKind
  <2>. QED BY <2>3, <2>4, <2>5, <2>6 DEF PatternSpeaksOnce
<1>. QED BY <1>1, SoundAlways, PTL
=============================================================================
