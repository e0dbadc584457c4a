------------------------ MODULE DescriptorLedger_proof ------------------------
(* Proofs about DescriptorLedger, for any calls, numbers and bound.        *)
EXTENDS DescriptorLedger, FiniteSetTheorems, TLAPS

\* A failed close is in the report, or close_all still has it to report.
FailureKept ==
  \A o \in Calls : failed[o] => failure[o] = "other" \/ (first[o] /\ pc[o] = "cleaning")

\* Each descriptor acquired has been closed or is still owned.
CountExact ==
  \A o \in Calls : IsFiniteSet(Owned(o)) /\ opens[o] = closes[o] + Cardinality(Owned(o))

ReturnedEmpty == \A o \in Calls : pc[o] = "returned" => Owned(o) = {}

LedgerInv == TypeOK /\ LedgerExact /\ FailureKept /\ CountExact /\ ReturnedEmpty

\* Nobody holds a descriptor of his own at the start.
LEMMA LedgerInit == Init => LedgerInv
<1> SUFFICES ASSUME Init PROVE LedgerInv
  OBVIOUS
<1>1. TypeOK /\ LedgerExact /\ FailureKept /\ ReturnedEmpty
  BY HolderAssumption, FdAssumption
  DEF Init, Kinds, TypeOK, LedgerExact, FailureKept, ReturnedEmpty, Owned
<1>2. \A o \in Calls : Owned(o) = {} /\ opens[o] = 0 /\ closes[o] = 0
  BY DEF Init, Owned
<1>3. ASSUME NEW o \in Calls
      PROVE  IsFiniteSet(Owned(o)) /\ opens[o] = closes[o] + Cardinality(Owned(o))
  <2>1. Owned(o) = {} /\ opens[o] = 0 /\ closes[o] = 0
    BY <1>2
  <2>2. IsFiniteSet(Owned(o)) /\ Cardinality(Owned(o)) = 0
    BY <2>1, FS_EmptySet
  <2> QED
    BY <2>1, <2>2
<1>4. CountExact
  BY <1>3 DEF CountExact
<1> QED
  BY <1>1, <1>4 DEF LedgerInv

\* Steps of o leave what the other calls own and count.
LEMMA CountKept ==
  ASSUME LedgerInv, NEW o \in Calls,
         \A p \in Calls \ {o} : /\ descriptors'[p] = descriptors[p] /\ closing'[p] = closing[p]
                                /\ opens'[p] = opens[p] /\ closes'[p] = closes[p],
         IsFiniteSet(Owned(o)'), opens'[o] = closes'[o] + Cardinality(Owned(o)')
  PROVE  CountExact'
<1> SUFFICES ASSUME NEW p \in Calls
             PROVE  IsFiniteSet(Owned(p)') /\ opens'[p] = closes'[p] + Cardinality(Owned(p)')
  BY DEF CountExact, Owned
<1>1. CASE p = o
  BY <1>1
<1>2. CASE p # o
  <2>1. Owned(p)' = Owned(p)
    BY <1>2 DEF Owned
  <2> QED
    BY <1>2, <2>1 DEF LedgerInv, CountExact
<1> QED
  BY <1>1, <1>2

\* A free number taken by o joins the list of o and no other.
LEMMA OwnKeeps ==
  ASSUME LedgerInv, NEW o \in Calls, NEW f \in Fds, Own(o, f)
  PROVE  LedgerInv'
<1>1. TypeOK'
  BY DEF LedgerInv, TypeOK, Own, report
<1>2. LedgerExact'
  BY HolderAssumption, FdAssumption DEF LedgerInv, TypeOK, LedgerExact, Owned, Own, Idle
<1>3. FailureKept' /\ ReturnedEmpty'
  BY DEF LedgerInv, TypeOK, FailureKept, ReturnedEmpty, Owned, Own, report
<1>4. Owned(o)' = Owned(o) \cup {f} /\ f \notin Owned(o)
  BY HolderAssumption DEF LedgerInv, TypeOK, LedgerExact, Owned, Own
<1>5. IsFiniteSet(Owned(o)) /\ opens[o] = closes[o] + Cardinality(Owned(o))
  BY DEF LedgerInv, CountExact
<1>6. IsFiniteSet(Owned(o)') /\ Cardinality(Owned(o)') = Cardinality(Owned(o)) + 1
  BY <1>4, <1>5, FS_AddElement
<1>7. opens'[o] = opens[o] + 1 /\ closes' = closes /\ opens[o] \in Nat /\ closes[o] \in Nat
  BY DEF LedgerInv, TypeOK, Own
<1>8. Cardinality(Owned(o)) \in Nat
  BY <1>5, FS_CardinalityType
<1>9. opens'[o] = closes'[o] + Cardinality(Owned(o)')
  BY <1>5, <1>6, <1>7, <1>8
<1>10. CountExact'
  BY <1>6, <1>9, CountKept DEF LedgerInv, TypeOK, Own
<1> QED
  BY <1>1, <1>2, <1>3, <1>10 DEF LedgerInv

\* A relinquished number is still held until close(2) is called.
LEMMA RelinquishKeeps ==
  ASSUME LedgerInv, NEW o \in Calls, NEW f \in Fds, Relinquish(o, f)
  PROVE  LedgerInv'
<1>1. TypeOK'
  BY DEF LedgerInv, TypeOK, Relinquish, report, history
<1>2. LedgerExact'
  BY FdAssumption DEF LedgerInv, TypeOK, LedgerExact, Owned, Relinquish, Idle
<1>3. FailureKept' /\ ReturnedEmpty'
  BY DEF LedgerInv, TypeOK, FailureKept, ReturnedEmpty, Owned, Relinquish, report, history
<1>4. Owned(o)' = Owned(o)
  BY FdAssumption DEF LedgerInv, TypeOK, Owned, Relinquish, Idle
<1>5. CountExact'
  BY <1>4, CountKept DEF LedgerInv, TypeOK, CountExact, Relinquish, history
<1> QED
  BY <1>1, <1>2, <1>3, <1>5 DEF LedgerInv

\* A close frees a number of the caller's own, and the list no longer has it.
LEMMA CloseKeeps ==
  ASSUME LedgerInv, NEW o \in Calls, CloseSucceeds(o) \/ CloseFails(o)
  PROVE  LedgerInv'
<1>1. TypeOK'
  <2>1. closing[o] \in Fds
    BY DEF LedgerInv, TypeOK, CloseSucceeds, CloseFails, CloseReturns, Idle
  <2>2. /\ table' \in [Fds -> Calls \cup {Free, Other}]
        /\ closing' \in [Calls -> Fds \cup {NoFd}]
        /\ opens' \in [Calls -> Nat] /\ closes' \in [Calls -> Nat]
    BY DEF LedgerInv, TypeOK, CloseSucceeds, CloseFails, CloseReturns
  <2>3. CASE CloseSucceeds(o)
    BY <2>2, <2>3 DEF LedgerInv, TypeOK, CloseSucceeds, report
  <2>4. CASE CloseFails(o)
    <3>1. descriptors' \in [Calls -> SUBSET Fds] /\ failed' \in [Calls -> BOOLEAN]
      BY <2>4 DEF LedgerInv, TypeOK, CloseFails, AfterFailedClose
    <3>2. CASE pc[o] = "working" /\ BodyCloseFails(o)
      BY <2>2, <3>1, <3>2 DEF LedgerInv, TypeOK, Kinds, BodyCloseFails
    <3>3. CASE /\ pc[o] = "cleaning" /\ first' = [first EXCEPT ![o] = TRUE]
               /\ UNCHANGED <<failure, deferred, pc>>
      BY <2>2, <3>1, <3>3 DEF LedgerInv, TypeOK
    <3> QED
      BY <2>4, <3>2, <3>3 DEF CloseFails
  <2> QED
    BY <2>3, <2>4
<1>2. closing[o] \in Fds /\ table[closing[o]] = o /\ closing[o] \notin descriptors[o]
  BY DEF LedgerInv, TypeOK, LedgerExact, Owned, CloseSucceeds, CloseFails, CloseReturns, Idle
<1>3. /\ table' = [table EXCEPT ![closing[o]] = Free]
      /\ closing' = [closing EXCEPT ![o] = NoFd]
      /\ closes' = [closes EXCEPT ![o] = @ + 1] /\ opens' = opens
      /\ descriptors' = descriptors
  BY DEF LedgerInv, TypeOK, CloseSucceeds, CloseFails, CloseReturns, AfterFailedClose
<1>4. LedgerExact'
  BY <1>2, <1>3, HolderAssumption, FdAssumption DEF LedgerInv, TypeOK, LedgerExact, Owned
<1>5. FailureKept'
  BY DEF LedgerInv, TypeOK, FailureKept, CloseSucceeds, CloseFails, BodyCloseFails, report
<1>6. ReturnedEmpty'
  BY <1>3, FdAssumption
  DEF LedgerInv, TypeOK, ReturnedEmpty, Owned, CloseSucceeds, CloseFails, BodyCloseFails, report
<1>7. Owned(o)' = Owned(o) \ {closing[o]} /\ closing[o] \in Owned(o)
  BY <1>2, <1>3, FdAssumption DEF LedgerInv, TypeOK, Owned
<1>8. IsFiniteSet(Owned(o)) /\ opens[o] = closes[o] + Cardinality(Owned(o))
  BY DEF LedgerInv, CountExact
<1>9. IsFiniteSet(Owned(o)') /\ Cardinality(Owned(o)') = Cardinality(Owned(o)) - 1
  BY <1>7, <1>8, FS_RemoveElement
<1>10. closes'[o] = closes[o] + 1 /\ opens[o] \in Nat /\ closes[o] \in Nat
  BY <1>3 DEF LedgerInv, TypeOK
<1>11. Cardinality(Owned(o)) \in Nat
  BY <1>8, FS_CardinalityType
<1>12. opens'[o] = closes'[o] + Cardinality(Owned(o)')
  BY <1>3, <1>8, <1>9, <1>10, <1>11
<1>13. CountExact'
  BY <1>3, <1>9, <1>12, CountKept DEF LedgerInv, TypeOK
<1> QED
  BY <1>1, <1>4, <1>5, <1>6, <1>13 DEF LedgerInv

\* What decides the report and the way out of a call touches no descriptor.
LEMMA ControlKeeps ==
  ASSUME LedgerInv, NEW o \in Calls,
         Defer(o) \/ Leave(o) \/ Interrupted(o) \/ Return(o) \/ Abandon(o)
  PROVE  LedgerInv'
<1> USE DEF Defer, Leave, Interrupted, Return, Abandon, report, history
<1>1. TypeOK'
  BY DEF LedgerInv, TypeOK, Kinds, May, Raised
<1>2. LedgerExact' /\ CountExact'
  BY DEF LedgerInv, LedgerExact, CountExact, Owned
<1>3. FailureKept'
  BY DEF LedgerInv, TypeOK, Kinds, FailureKept, May, Raised, GivesWay
<1>4. ReturnedEmpty'
  BY FdAssumption DEF LedgerInv, TypeOK, ReturnedEmpty, Owned, Idle
<1> QED
  BY <1>1, <1>2, <1>3, <1>4 DEF LedgerInv

\* Other threads take free numbers and give back their own.
LEMMA OthersKeep == LedgerInv /\ Others => LedgerInv'
<1> SUFFICES ASSUME LedgerInv, Others PROVE LedgerInv'
  OBVIOUS
<1>1. TypeOK'
  BY DEF LedgerInv, TypeOK, Others, report, history
<1>2. LedgerExact'
  BY HolderAssumption DEF LedgerInv, TypeOK, LedgerExact, Owned, Others
<1>3. FailureKept' /\ CountExact' /\ ReturnedEmpty'
  BY DEF LedgerInv, FailureKept, CountExact, ReturnedEmpty, Owned, Others, report, history
<1> QED
  BY <1>1, <1>2, <1>3 DEF LedgerInv

\* The ledger invariant holds in every behaviour.
THEOREM LedgerInvariance == Spec => []LedgerInv
<1>1. Init => LedgerInv
  BY LedgerInit
<1>2. LedgerInv /\ [Next]_vars => LedgerInv'
  <2> SUFFICES ASSUME LedgerInv, [Next]_vars PROVE LedgerInv'
    OBVIOUS
  <2>1. ASSUME NEW o \in Calls, Step(o) PROVE LedgerInv'
    BY <2>1, OwnKeeps, RelinquishKeeps, CloseKeeps, ControlKeeps DEF Step
  <2>2. CASE Others
    BY <2>2, OthersKeep
  <2>3. CASE UNCHANGED vars
    BY <2>3
    DEF vars, report, history, LedgerInv, TypeOK, LedgerExact, FailureKept, CountExact,
        ReturnedEmpty, Owned
  <2> QED
    BY <2>1, <2>2, <2>3 DEF Next
<1> QED
  BY <1>1, <1>2, PTL DEF Spec

\* No close of a call ever hits a descriptor that another holder has taken over.
THEOREM LedgerAlwaysExact == Spec => []LedgerExact
<1>1. LedgerInv => LedgerExact
  BY DEF LedgerInv
<1> QED
  BY <1>1, LedgerInvariance, PTL

\* A call that returned has closed each of its descriptors once, and told of a failed
\* close whatever else went wrong.
THEOREM ReturnsClean == Spec => []CleanReturn
<1>1. LedgerInv => CleanReturn
  <2> SUFFICES ASSUME LedgerInv, NEW o \in Calls, pc[o] = "returned"
               PROVE  /\ \A f \in Fds : table[f] # o
                      /\ closes[o] = opens[o]
                      /\ failed[o] => failure[o] = "other"
    BY DEF CleanReturn
  <2>1. Owned(o) = {} /\ \A f \in Fds : table[f] # o
    BY DEF LedgerInv, LedgerExact, ReturnedEmpty
  <2>2. opens[o] = closes[o] + 0 /\ closes[o] \in Nat
    BY <2>1, FS_EmptySet DEF LedgerInv, CountExact, TypeOK
  <2>3. failed[o] => failure[o] = "other"
    BY DEF LedgerInv, FailureKept
  <2> QED
    BY <2>1, <2>2, <2>3
<1> QED
  BY <1>1, LedgerInvariance, PTL
===============================================================================
