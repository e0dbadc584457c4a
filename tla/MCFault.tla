------------------------------ MODULE MCFault ------------------------------
(***************************************************************************)
(* A small instance of FaultComposition: a whole chain from report to      *)
(* comparison, one record of every other kind, contradicting copies of a   *)
(* report and of what stands on it, and a report of another fault.         *)
(***************************************************************************)
EXTENDS FaultComposition

R == Report("r1", "f1", "a")
RContra == Report("r1", "f1", "b")
RForeign == Report("r2", "f2", "a")
Sc == Scenario("s1", R, "a")
M == TestMaterial("m1", R, "a")
MContra == TestMaterial("m1", R, "b")
U1 == TestRun("u1", M, "a")
U2 == TestRun("u2", M, "a")
U2Contra == TestRun("u2", MContra, "a")
O1 == TestOutcome(U1, "failed")
O2 == TestOutcome(U2, "passed")
C == RepairCandidate("c1", R, "a")

\* A comparison of a run with itself, and across materials: not admitted.
Compared == {TestComparison(O1, O2, "a"), TestComparison(O1, TestOutcome(U1, "passed"), "a"),
             TestComparison(O1, TestOutcome(U2Contra, "passed"), "a")}

MCUniverse ==
    {R, RContra, RForeign, Sc, Scenario("s1", RContra, "a"), Occurrence("o1", Sc, "a"),
     Occurrence("o2", Scenario("s1", R, "b"), "a"), M, MContra, U1, U2, U2Contra, O1, O2,
     TestRunRevision(U1, "v"), C, RepairRevision(C, "v"), RepairChangeSet(C, "d"),
     SourceObjectAssociation(R, "x"), HistoryFactAssociation(RForeign, "x"),
     Explanation("e1", R, "a"), Hypothesis("h1", RForeign, "a"),
     ExpectedProperty("p1", R, "a"), ExpectedProperty("p1", RContra, "a"),
     ExpectedProperty("p2", RForeign, "a")}
    \cup {c \in Compared : ComparisonOK(c)}

MCPatterns == {Pattern("p", "a"), Pattern("p", "b")}
MCInvariants == {Invariant("i", "a"), Invariant("i", "b"), Invariant("j", "a")}
=============================================================================
