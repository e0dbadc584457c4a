--------------------------- MODULE DescriptorLedger ---------------------------
(***************************************************************************)
(* The descriptors of _Operation (assessment_file.py): own, close and      *)
(* close_all of concurrent calls, in a process whose other threads open    *)
(* and close descriptors of their own.  close(2) frees the descriptor even *)
(* when it fails, and a freed number may be taken again at once.           *)
(* A failure is a refusal of the callback or any other: the two differ in  *)
(* what a failed close does to them.                                       *)
(* The order in which close_all takes the descriptors is left open.        *)
(***************************************************************************)
EXTENDS Naturals

CONSTANTS
  Calls,      \* calls of the file service running in the process
  Fds,        \* descriptor numbers
  Free,       \* nobody holds the number
  Other,      \* another part of the process holds it
  NoFd,       \* no number
  MaxOpens    \* bound on the descriptors a call acquires

ASSUME HolderAssumption == Free \notin Calls /\ Other \notin Calls /\ Free # Other
ASSUME FdAssumption == NoFd \notin Fds /\ MaxOpens \in Nat

VARIABLES
  table,        \* table[f]: the holder of number f, as the kernel sees it
  descriptors,  \* descriptors[o]: _Operation.descriptors
  closing,      \* closing[o]: relinquished, about to be passed to close(2)
  first,        \* first[o]: close_all has met a close that failed
  failure,      \* failure[o]: what the call is to raise, of the kinds below
  deferred,     \* deferred[o]: _Operation.deferred, of the kinds below
  pc,           \* pc[o]: in the try block, before the last sample, in close_all, or out
  opens,        \* history: descriptors acquired so far
  closes,       \* history: calls of close(2) so far
  failed        \* history: one of them has failed

history == <<opens, closes, failed>>
report == <<first, failure, deferred>>
vars == <<table, descriptors, closing, report, pc, history>>

\* No failure, a refusal (CANCELLED, CANCEL_CHECK_FAILED), or any other failure.
Kinds == {"none", "refusal", "other"}

Init ==
  /\ table \in [Fds -> {Free, Other}]
  /\ descriptors = [o \in Calls |-> {}] /\ closing = [o \in Calls |-> NoFd]
  /\ first = [o \in Calls |-> FALSE]
  /\ failure = [o \in Calls |-> "none"] /\ deferred = [o \in Calls |-> "none"]
  /\ pc = [o \in Calls |-> "working"]
  /\ opens = [o \in Calls |-> 0] /\ closes = [o \in Calls |-> 0]
  /\ failed = [o \in Calls |-> FALSE]

Idle(o) == closing[o] = NoFd

Own(o, f) ==
  /\ pc[o] = "working" /\ Idle(o) /\ opens[o] < MaxOpens /\ table[f] = Free
  /\ table' = [table EXCEPT ![f] = o]
  /\ descriptors' = [descriptors EXCEPT ![o] = @ \cup {f}]
  /\ opens' = [opens EXCEPT ![o] = @ + 1]
  /\ UNCHANGED <<closing, report, pc, closes, failed>>

\* close: the number leaves the list before close(2) is called.
Relinquish(o, f) ==
  /\ pc[o] \in {"working", "cleaning"} /\ Idle(o) /\ f \in descriptors[o]
  /\ descriptors' = [descriptors EXCEPT ![o] = @ \ {f}]
  /\ closing' = [closing EXCEPT ![o] = f]
  /\ UNCHANGED <<table, report, pc, history>>

ListedAgain(held, f) == held \cup {f}                   \* mutant: kept for another try
AfterFailedClose(held, f) == held

\* close(2) returns, and has freed the number whether it failed or not.  The cap on
\* closes never holds back a call that closes no descriptor twice.
CloseReturns(o) ==
  /\ ~Idle(o) /\ closes[o] <= MaxOpens
  /\ table' = [table EXCEPT ![closing[o]] = Free]
  /\ closing' = [closing EXCEPT ![o] = NoFd]
  /\ closes' = [closes EXCEPT ![o] = @ + 1]
  /\ UNCHANGED opens

CloseSucceeds(o) == CloseReturns(o) /\ UNCHANGED <<descriptors, report, pc, failed>>

\* A failed close in the try block ends it, is kept after the link, or is deferred by
\* the observation after an ambiguous link, whose own failure is raised then.
BodyCloseFails(o) ==
  /\ failure' = [failure EXCEPT ![o] = "other"]
  /\ \/ pc' \in {pc, [pc EXCEPT ![o] = "ended"]} /\ UNCHANGED deferred
     \/ deferred' = [deferred EXCEPT ![o] = "other"] /\ UNCHANGED pc
  /\ UNCHANGED first

CloseFails(o) ==
  /\ CloseReturns(o)
  /\ descriptors' = [descriptors EXCEPT ![o] = AfterFailedClose(@, closing[o])]
  /\ failed' = [failed EXCEPT ![o] = TRUE]
  /\ \/ pc[o] = "working" /\ BodyCloseFails(o)
     \/ /\ pc[o] = "cleaning" /\ first' = [first EXCEPT ![o] = TRUE]
        /\ UNCHANGED <<failure, deferred, pc>>

\* A sample after the link is refused: kept, unless more than a cancellation is.
Defer(o) ==
  /\ pc[o] \in {"working", "ended"} /\ Idle(o) /\ deferred[o] = "none"
  /\ deferred' = [deferred EXCEPT ![o] = "refusal"]
  /\ UNCHANGED <<table, descriptors, closing, first, failure, pc, history>>

\* The try block ends, normally or with a failure of its own; or the last sample after
\* it, taken before close_all, is refused or not.
May(o, kinds) ==
  failure' \in {[failure EXCEPT ![o] = k] :
                  k \in IF failure[o] = "none" THEN kinds \cup {"none"} ELSE {failure[o]}}

Leave(o) ==
  /\ Idle(o)
  /\ \/ pc[o] = "working" /\ May(o, Kinds) /\ pc' = [pc EXCEPT ![o] = "ended"]
     \/ pc[o] = "ended" /\ May(o, {"refusal"}) /\ pc' = [pc EXCEPT ![o] = "cleaning"]
  /\ UNCHANGED <<table, descriptors, closing, first, deferred, history>>

\* A BaseException of the callback in the try block: close_all, and it is raised again.
Interrupted(o) ==
  /\ pc[o] = "working" /\ Idle(o)
  /\ failure' = [failure EXCEPT ![o] = "other"] /\ pc' = [pc EXCEPT ![o] = "cleaning"]
  /\ UNCHANGED <<table, descriptors, closing, first, deferred, history>>

RefusalKept(kind) == kind = "none"                      \* mutant: a refusal hides the close
GivesWay(kind) == kind \in {"none", "refusal"}

\* What the call raises in the end.
Raised(o) ==
  IF first[o] /\ GivesWay(failure[o]) THEN "other"
  ELSE IF failure[o] = "none" THEN deferred[o] ELSE failure[o]

Return(o) ==
  /\ pc[o] = "cleaning" /\ Idle(o) /\ descriptors[o] = {}
  /\ failure' = [failure EXCEPT ![o] = Raised(o)]
  /\ pc' = [pc EXCEPT ![o] = "returned"]
  /\ UNCHANGED <<table, descriptors, closing, first, deferred, history>>

\* A BaseException of the callback at the last sample passes close_all by.
Abandon(o) ==
  /\ pc[o] = "ended" /\ Idle(o)
  /\ pc' = [pc EXCEPT ![o] = "abandoned"]
  /\ UNCHANGED <<table, descriptors, closing, report, history>>

Step(o) ==
  \/ \E f \in Fds : Own(o, f) \/ Relinquish(o, f)
  \/ CloseSucceeds(o) \/ CloseFails(o) \/ Defer(o)
  \/ Leave(o) \/ Interrupted(o) \/ Return(o) \/ Abandon(o)

\* Other threads of the process open a free number and close what they opened.
Others ==
  /\ \E f \in Fds : \/ table[f] = Free /\ table' = [table EXCEPT ![f] = Other]
                    \/ table[f] = Other /\ table' = [table EXCEPT ![f] = Free]
  /\ UNCHANGED <<descriptors, closing, report, pc, history>>

Out == \A o \in Calls : pc[o] \in {"returned", "abandoned"}

Next == (\E o \in Calls : Step(o)) \/ Others \/ (Out /\ UNCHANGED vars)

\* close_all, once begun, keeps running.
CloseAll(o) == pc[o] = "cleaning" /\ Step(o)

Spec == Init /\ [][Next]_vars /\ \A o \in Calls : WF_vars(CloseAll(o))

-----------------------------------------------------------------------------
(* What must hold.                                                         *)

\* Every variable keeps its type.
TypeOK ==
  /\ table \in [Fds -> Calls \cup {Free, Other}]
  /\ descriptors \in [Calls -> SUBSET Fds]
  /\ closing \in [Calls -> Fds \cup {NoFd}]
  /\ first \in [Calls -> BOOLEAN] /\ failed \in [Calls -> BOOLEAN]
  /\ failure \in [Calls -> Kinds] /\ deferred \in [Calls -> Kinds]
  /\ pc \in [Calls -> {"working", "ended", "cleaning", "returned", "abandoned"}]
  /\ opens \in [Calls -> Nat] /\ closes \in [Calls -> Nat]

Owned(o) == descriptors[o] \cup ({closing[o]} \ {NoFd})

\* The list of a call names exactly the numbers the kernel holds for it, whatever
\* fails and whoever takes a freed number: a close never hits another's descriptor,
\* none is closed twice, and none is forgotten.
LedgerExact ==
  \A o \in Calls : /\ \A f \in Fds : table[f] = o <=> f \in Owned(o)
                   /\ closing[o] \notin descriptors[o]

\* A call that returns has passed each descriptor it acquired to close(2) exactly once,
\* and a close that failed, wherever it was, neither became success nor disappeared
\* behind a refusal.
CleanReturn ==
  \A o \in Calls : pc[o] = "returned" =>
    /\ \A f \in Fds : table[f] # o
    /\ closes[o] = opens[o]
    /\ failed[o] => failure[o] = "other"

\* close_all ends although every close may fail.
CleanupEnds == \A o \in Calls : pc[o] = "cleaning" ~> pc[o] = "returned"
===============================================================================
