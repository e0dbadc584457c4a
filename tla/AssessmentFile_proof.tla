------------------------- MODULE AssessmentFile_proof -------------------------
(***************************************************************************)
(* What is proved of AssessmentFile for any number of calls, directories,  *)
(* input inodes, blocks and steps of other users of the file system.       *)
(*                                                                         *)
(* The inductive invariant Inv says of every call, by where it is, what it *)
(* has pinned and how far its temporary file is sealed, and of every name  *)
(* that only linked files are under it.  Each action of a call is shown to *)
(* Advance it: to a state of which the same holds.                         *)
(*                                                                         *)
(* Course says of a call, by where it is, what it has done and what of it  *)
(* has still to be told: before the link nothing was done and nothing is   *)
(* deferred; after it a refusal is deferred, a failed synchronization is   *)
(* settled, and a doubt about the link is the failure that is reported.    *)
(***************************************************************************)
EXTENDS AssessmentFile, TLAPS

USE OpsAssumption, InodeAssumption, BoundAssumption, AnswerAssumption

Rechecking == {"pinned", "binding", "name"}
Unbound    == {"admit", "walkIn", "settle", "release", "done", "escaped"}
Outgoing   == {"prepare", "write", "outBinding", "link", "observe", "afterLink",
               "syncFile", "syncParent"}

\* The temporary of a call in state s is complete and synchronized.
Sealed(s) == s.written = OutBlocks /\ s.synced = OutBlocks

\* A state call o may be in anywhere: what is linked is sealed, and savers do it.
Kept(o, s) == /\ s \in Operation
              /\ s.linked => Sealed(s)
              /\ s.phase = "link" => o \in Savers

\* What holds of the state s of call o when it is at label l.
CallOK(o, s, l) ==
  /\ Kept(o, s)
  /\ l \in Labels
  /\ l \in {"admit", "walkIn", "pin", "qualify", "read"} => s.phase = "read"
  /\ l \notin Unbound => s.in_parent \in Dirs
  /\ l \notin Unbound \cup {"pin"} => s.pinned \in Sources
  /\ l \in Outgoing \cup {"walkOut"} => o \in Savers
  /\ l \in Outgoing \/ (l \in Rechecking /\ s.phase = "link") => s.out_parent \in Dirs
  /\ l \in {"outBinding", "link"} \/ (l \in Rechecking /\ s.phase = "link") => Sealed(s)

CallsOK == /\ op \in [Ops -> Operation]
           /\ pc \in [Ops -> Labels]
           /\ \A o \in Ops : CallOK(o, op[o], pc[o])

\* Only a linked file is, or comes back after a power loss, under the output name.
NamesLinked ==
  \A d \in Dirs : \A o \in Savers : dst[d] = o \/ stable[d] = o => op[o].linked

Inv == TypeOK /\ CallsOK /\ NamesLinked

\* Call o moves to a state of which the invariant holds again.
Advances(o) ==
  \E s \in Operation, l \in Labels :
    Continue(o, s, l) /\ CallOK(o, s, l) /\ (op[o].linked => s.linked)

-----------------------------------------------------------------------------
(* The ways in which an action of a call ends.                             *)

\* A failure is noted in a state of which the same holds.
LEMMA FailureKept ==
  ASSUME NEW o \in Ops, NEW s, Kept(o, s), NEW code \in Codes
  PROVE  Kept(o, [s EXCEPT !.failure = code]) /\ [s EXCEPT !.failure = code].linked = s.linked
<1>1. [s EXCEPT !.failure = code] \in Operation
  BY Zenon DEF Kept, Operation
<1> QED BY <1>1 DEF Kept, Sealed, Operation

\* A call that raises keeps what it had: nothing is asked of it before "settle".
LEMMA RaiseAdvances ==
  ASSUME NEW o \in Ops, NEW s, Kept(o, s), op[o].linked => s.linked,
         NEW code \in Codes, Raise(o, s, code)
  PROVE  Advances(o)
<1> DEFINE t == [s EXCEPT !.failure = code]
<1>1. Kept(o, t) /\ t.linked = s.linked
  BY FailureKept
<1>2. CallOK(o, t, "settle")
  BY <1>1 DEF CallOK, Labels, Unbound, Outgoing, Rechecking
<1>3. Continue(o, t, "settle")
  BY DEF Raise
<1> QED BY <1>1, <1>2, <1>3 DEF Advances, Kept, CallOK

\* A call may raise any of its codes.
LEMMA RaiseAnyAdvances ==
  ASSUME CallsOK, NEW o \in Ops, NEW codes \in SUBSET Codes, RaiseAny(o, codes)
  PROVE  Advances(o)
BY RaiseAdvances DEF RaiseAny, CallsOK, CallOK

\* Sampling the callback touches only what is remembered of cancellation.
LEMMA AnsweredKept ==
  ASSUME NEW o \in Ops, NEW s, Kept(o, s), NEW r \in CallbackResults
  PROVE  /\ Kept(o, Answered(s, r))
         /\ CheckpointCode(r) \in Codes
         /\ \A f \in {"linked", "phase", "in_parent", "pinned", "out_parent",
                      "written", "synced"} : Answered(s, r)[f] = s[f]
<1>1. CheckpointCode(r) \in Codes /\ CheckpointCode(r) \in Deferrable
  BY DEF CheckpointCode, Codes, Deferrable
<1>2. Answered(s, r) \in Operation
  <2> DEFINE c == s.cancel_requested \/ r = "true"
             d == IF r # "false" /\ s.attempted /\ s.deferred \in {"none", "CANCELLED"}
                  THEN CheckpointCode(r) ELSE s.deferred
  <2>1. s.deferred \in Deferrable
    BY DEF Kept, Operation
  <2>2. c \in BOOLEAN /\ d \in Deferrable
    BY <1>1, <2>1
  <2>3. Answered(s, r) = [s EXCEPT !.cancel_requested = c, !.deferred = d]
    BY DEF Answered
  <2> HIDE DEF c, d
  <2>4. [s EXCEPT !.cancel_requested = c] \in Operation
    BY <2>2, Zenon DEF Kept, Operation
  <2>5. [[s EXCEPT !.cancel_requested = c] EXCEPT !.deferred = d] \in Operation
    BY <2>2, <2>4, Zenon DEF Operation
  <2> QED BY <2>3, <2>5
<1>3. \A f \in {"linked", "phase", "in_parent", "pinned", "out_parent",
                "written", "synced"} : Answered(s, r)[f] = s[f]
  BY DEF Kept, Operation, Answered
<1> QED BY <1>1, <1>2, <1>3 DEF Kept, Sealed

\* A checkpoint passes, or raises what the caller asked for.
LEMMA CheckpointAdvances ==
  ASSUME NEW o \in Ops, NEW s, NEW t, NEW next, Kept(o, s), CallOK(o, t, next),
         op[o].linked => s.linked /\ t.linked, Checkpoint(o, s, t, next)
  PROVE  Advances(o)
<1>1. PICK r \in CallbackResults :
        IF Refused(s, r) THEN Raise(o, Answered(s, r), CheckpointCode(r))
                         ELSE Continue(o, Answered(t, r), next)
  BY DEF Checkpoint
<1>2. CASE Refused(s, r)
  BY <1>1, <1>2, AnsweredKept, RaiseAdvances
<1>3. CASE ~Refused(s, r)
  <2>1. Kept(o, t) /\ Continue(o, Answered(t, r), next)
    BY <1>1, <1>3 DEF CallOK
  <2>2. /\ Kept(o, Answered(t, r))
        /\ \A f \in {"linked", "phase", "in_parent", "pinned", "out_parent",
                     "written", "synced"} : Answered(t, r)[f] = t[f]
    BY <2>1, AnsweredKept
  <2>3. CallOK(o, Answered(t, r), next) /\ Answered(t, r).linked = t.linked
    BY <2>2 DEF CallOK, Sealed
  <2> QED BY <2>1, <2>3 DEF Advances, CallOK, Kept
<1> QED BY <1>2, <1>3

\* A call that keeps its record and goes where nothing more is asked of it.
LEMMA MoveAdvances ==
  ASSUME NEW o \in Ops, NEW next, CallOK(o, op[o], next), Continue(o, op[o], next)
  PROVE  Advances(o)
BY DEF Advances, CallOK, Kept

-----------------------------------------------------------------------------
(* Intake.                                                                 *)

\* The arguments, the first checkpoint and the platform.
LEMMA AdmitAdvances ==
  ASSUME CallsOK, NEW o \in Ops, Admit(o)
  PROVE  Advances(o)
<1> DEFINE s == op[o]
<1>0. CallOK(o, s, "admit") /\ Kept(o, s)
  BY DEF Admit, At, CallsOK, CallOK
<1>1. ASSUME NEW code \in {"INVALID_ARGUMENT", "INVALID_PATH"},
             Continue(o, [s EXCEPT !.failure = code, !.completion_sampled = TRUE], "release")
      PROVE  Advances(o)
  <2> DEFINE t == [s EXCEPT !.failure = code, !.completion_sampled = TRUE]
  <2>1. Kept(o, [s EXCEPT !.failure = code]) /\ [s EXCEPT !.failure = code].linked = s.linked
    BY <1>0, FailureKept DEF Codes
  <2>2. [[s EXCEPT !.failure = code] EXCEPT !.completion_sampled = TRUE] \in Operation
    BY <2>1, Zenon DEF Kept, Operation
  <2>3. CallOK(o, t, "release") /\ t.linked = s.linked
    BY <2>1, <2>2 DEF CallOK, Kept, Sealed, Operation, Labels, Unbound, Outgoing, Rechecking
  <2> QED BY <1>1, <2>2, <2>3 DEF Advances, Labels
<1>2. ASSUME Checkpoint(o, s, s, "walkIn") PROVE Advances(o)
  <2>1. CallOK(o, s, "walkIn")
    BY <1>0 DEF CallOK, Labels, Unbound, Outgoing, Rechecking
  <2> QED BY <1>0, <1>2, <2>1, CheckpointAdvances
<1>3. ASSUME RaiseAny(o, {"UNSUPPORTED_PLATFORM"}) PROVE Advances(o)
  BY <1>3, RaiseAnyAdvances DEF Codes
<1> QED BY <1>1, <1>2, <1>3 DEF Admit

\* A walk that fails.
LEMMA WalkFailsAdvances ==
  ASSUME CallsOK, NEW o \in Ops, NEW codes \in SUBSET Codes, WalkFails(o, codes)
  PROVE  Advances(o)
<1>1. PICK code \in codes, held \in BOOLEAN : Raise(o, [op[o] EXCEPT !.holding = held], code)
  BY DEF WalkFails
<1> DEFINE s == [op[o] EXCEPT !.holding = held]
<1>2. Kept(o, op[o])
  BY DEF CallsOK, CallOK
<1>3. s \in Operation
  BY <1>2, Zenon DEF Kept, Operation
<1>4. Kept(o, s) /\ s.linked = op[o].linked
  BY <1>2, <1>3 DEF Kept, Sealed, Operation
<1> QED BY <1>1, <1>4, RaiseAdvances

\* The walk to the input, which selects its directory.
LEMMA WalkInAdvances ==
  ASSUME TypeOK, CallsOK, NEW o \in Ops, WalkIn(o)
  PROVE  Advances(o)
<1>0. CallOK(o, op[o], "walkIn") /\ Kept(o, op[o])
  BY DEF WalkIn, At, CallsOK, CallOK
<1>1. ASSUME Continue(o, [op[o] EXCEPT !.in_parent = inDir, !.holding = TRUE], "pin")
      PROVE  Advances(o)
  <2> DEFINE s == [op[o] EXCEPT !.in_parent = inDir]
             t == [s EXCEPT !.holding = TRUE]
  <2>1. inDir \in Dirs
    BY DEF TypeOK
  <2>2. s \in Operation
    BY <1>0, <2>1, Zenon DEF Kept, Operation
  <2>3. t \in Operation
    BY <2>2, Zenon DEF Operation
  <2>4. CallOK(o, t, "pin") /\ t.linked = op[o].linked
    BY <1>0, <2>1, <2>2, <2>3
    DEF CallOK, Kept, Sealed, Operation, Labels, Unbound, Outgoing, Rechecking
  <2> QED BY <1>1, <2>3, <2>4 DEF Advances, Labels
<1>2. ASSUME WalkFails(o, {"UNSAFE_INPUT", "IO_ERROR", "CLOSE_FAILED"}) PROVE Advances(o)
  BY <1>2, WalkFailsAdvances DEF Codes
<1> QED BY <1>1, <1>2 DEF WalkIn

\* The input that is pinned is one that is there.
LEMMA PinAdvances ==
  ASSUME TypeOK, CallsOK, NEW o \in Ops, Pin(o)
  PROVE  Advances(o)
<1>0. CallOK(o, op[o], "pin") /\ Kept(o, op[o])
  BY DEF Pin, At, CallsOK, CallOK
<1> DEFINE i == src[op[o].in_parent]
<1>1. ASSUME i # None, Continue(o, [op[o] EXCEPT !.pinned = i, !.stamp = content[i]], "qualify")
      PROVE  Advances(o)
  <2> DEFINE s == [op[o] EXCEPT !.pinned = i]
             t == [s EXCEPT !.stamp = content[i]]
  <2>1. i \in Sources /\ content[i] \in Version
    BY <1>0, <1>1 DEF CallOK, Unbound, TypeOK
  <2>2. s \in Operation
    BY <1>0, <2>1, Zenon DEF Kept, Operation
  <2>3. t \in Operation
    BY <2>1, <2>2, Zenon DEF Operation
  <2>4. CallOK(o, t, "qualify") /\ t.linked = op[o].linked
    BY <1>0, <2>1, <2>2, <2>3
    DEF CallOK, Kept, Sealed, Operation, Labels, Unbound, Outgoing, Rechecking
  <2> QED BY <1>1, <2>3, <2>4 DEF Advances, Labels
<1>2. ASSUME NEW codes \in {{"UNSAFE_INPUT"}, {"IO_ERROR"}}, RaiseAny(o, codes)
      PROVE  Advances(o)
  BY <1>2, RaiseAnyAdvances DEF Codes
<1> QED BY <1>1, <1>2 DEF Pin

\* The checks before the input is read.
LEMMA QualifyAdvances ==
  ASSUME CallsOK, NEW o \in Ops, Qualify(o)
  PROVE  Advances(o)
<1>1. CallOK(o, op[o], "qualify") /\ Kept(o, op[o])
  BY DEF Qualify, At, CallsOK, CallOK
<1>2. CallOK(o, op[o], "read")
  BY <1>1 DEF CallOK, Labels, Unbound, Outgoing, Rechecking
<1>3. ASSUME Checkpoint(o, op[o], op[o], "read") PROVE Advances(o)
  BY <1>1, <1>2, <1>3, CheckpointAdvances
<1>4. ASSUME NEW codes \in SUBSET Codes, RaiseAny(o, codes) PROVE Advances(o)
  BY <1>4, RaiseAnyAdvances
<1> QED BY <1>3, <1>4 DEF Qualify, Ext4Failures, Codes

\* One block of the input.
LEMMA ReadBlockAdvances ==
  ASSUME TypeOK, CallsOK, NEW o \in Ops, ReadBlock(o)
  PROVE  Advances(o)
<1>1. CallOK(o, op[o], "read") /\ Kept(o, op[o])
  BY DEF ReadBlock, At, CallsOK, CallOK
<1> DEFINE blocks == Append(op[o].raw, content[op[o].pinned])
           t == [op[o] EXCEPT !.raw = blocks]
<1>2. ASSUME Checkpoint(o, op[o], t, "read") PROVE Advances(o)
  <2>1. op[o].pinned \in Sources /\ op[o].raw \in Seq(Version)
    BY <1>1 DEF CallOK, Kept, Unbound, Operation
  <2>2. content[op[o].pinned] \in Version
    BY <2>1 DEF TypeOK
  <2>3. blocks \in Seq(Version)
    BY <2>1, <2>2
  <2> HIDE DEF blocks
  <2>4. t \in Operation
    BY <1>1, <2>3, Zenon DEF Kept, Operation
  <2>5. CallOK(o, t, "read") /\ t.linked = op[o].linked
    BY <1>1, <2>4 DEF CallOK, Kept, Sealed, Operation, Labels, Unbound, Outgoing, Rechecking
  <2> QED BY <1>1, <1>2, <2>5, CheckpointAdvances DEF blocks
<1>3. ASSUME RaiseAny(o, {"IO_ERROR"}) PROVE Advances(o)
  BY <1>3, RaiseAnyAdvances DEF Codes
<1> QED BY <1>2, <1>3 DEF ReadBlock

\* The end of the input.
LEMMA EndReadAdvances ==
  ASSUME CallsOK, NEW o \in Ops, EndRead(o)
  PROVE  Advances(o)
<1>1. CallOK(o, op[o], "read") /\ Kept(o, op[o])
  BY DEF EndRead, At, CallsOK, CallOK
<1>2. CallOK(o, op[o], "pinned")
  BY <1>1 DEF CallOK, Labels, Unbound, Outgoing, Rechecking
<1>3. ASSUME Checkpoint(o, op[o], op[o], "pinned") PROVE Advances(o)
  BY <1>1, <1>2, <1>3, CheckpointAdvances
<1>4. ASSUME NEW codes \in SUBSET Codes, RaiseAny(o, codes) PROVE Advances(o)
  BY <1>4, RaiseAnyAdvances
<1> QED BY <1>3, <1>4 DEF EndRead, Codes

\* The three looks of _input_binding change nothing but where the call is.
LEMMA RecheckAdvances ==
  ASSUME CallsOK, NEW o \in Ops, CheckPinned(o) \/ CheckParent(o) \/ CheckName(o)
  PROVE  Advances(o)
<1>1. CallOK(o, op[o], pc[o]) /\ pc[o] \in Rechecking
  BY DEF CallsOK, CheckPinned, CheckParent, CheckName, At, Rechecking
<1>2. CallOK(o, op[o], "binding") /\ CallOK(o, op[o], "name")
  BY <1>1 DEF CallOK, Labels, Unbound, Outgoing, Rechecking
<1>3. CallOK(o, op[o], AfterBinding(op[o]))
  <2>1. op[o].phase \in {"read", "link", "return"}
    BY <1>1 DEF CallOK, Kept, Operation
  <2> QED BY <1>1, <2>1 DEF CallOK, Kept, AfterBinding, Labels, Unbound, Outgoing, Rechecking
<1>4. ASSUME NEW codes \in SUBSET Codes, RaiseAny(o, codes) PROVE Advances(o)
  BY <1>4, RaiseAnyAdvances
<1>5. /\ {"INPUT_CHANGED"} \in SUBSET Codes /\ {"IO_ERROR"} \in SUBSET Codes
      /\ {"INPUT_CHANGED", "CLOSE_FAILED"} \in SUBSET Codes
      /\ {"INPUT_CHANGED", "IO_ERROR", "CLOSE_FAILED"} \in SUBSET Codes
  BY DEF Codes
<1>6. CASE CheckPinned(o)
  BY <1>2, <1>4, <1>5, <1>6, MoveAdvances DEF CheckPinned
<1>7. CASE CheckParent(o)
  BY <1>2, <1>4, <1>5, <1>7, MoveAdvances DEF CheckParent, ParentFailures
<1>8. CASE CheckName(o)
  BY <1>3, <1>4, <1>5, <1>8, MoveAdvances DEF CheckName
<1> QED BY <1>6, <1>7, <1>8

\* Decoding the bytes, and refusing them.
LEMMA DecodeAdvances ==
  ASSUME CallsOK, NEW o \in Ops, Decode(o)
  PROVE  Advances(o)
<1>1. CallOK(o, op[o], "decode")
  BY DEF Decode, At, CallsOK
<1>2. CallOK(o, op[o], "complete") /\ (o \in Savers => CallOK(o, op[o], "walkOut"))
  BY <1>1 DEF CallOK, Labels, Unbound, Outgoing, Rechecking
<1>3. ASSUME RaiseAny(o, CodecFailures) PROVE Advances(o)
  BY <1>3, RaiseAnyAdvances DEF CodecCodes, Codes
<1> QED BY <1>2, <1>3, MoveAdvances DEF Decode

-----------------------------------------------------------------------------
(* Saving.                                                                 *)

\* The walk to the destination, which selects its directory.
LEMMA WalkOutAdvances ==
  ASSUME TypeOK, CallsOK, NEW o \in Ops, WalkOut(o)
  PROVE  Advances(o)
<1>1. CallOK(o, op[o], "walkOut") /\ Kept(o, op[o])
  BY DEF WalkOut, At, CallsOK, CallOK
<1>2. ASSUME Continue(o, [op[o] EXCEPT !.out_parent = outDir], "prepare") PROVE Advances(o)
  <2> DEFINE t == [op[o] EXCEPT !.out_parent = outDir]
  <2>1. outDir \in Dirs
    BY DEF TypeOK
  <2>2. t \in Operation
    BY <1>1, <2>1, Zenon DEF Kept, Operation
  <2>3. CallOK(o, t, "prepare") /\ t.linked = op[o].linked
    BY <1>1, <2>1, <2>2
    DEF CallOK, Kept, Sealed, Operation, Labels, Unbound, Outgoing, Rechecking
  <2> QED BY <1>2, <2>2, <2>3 DEF Advances, Labels
<1>3. ASSUME WalkFails(o, {"UNSAFE_INPUT", "IO_ERROR", "CLOSE_FAILED"}) PROVE Advances(o)
  BY <1>3, WalkFailsAdvances DEF Codes
<1> QED BY <1>2, <1>3 DEF WalkOut

\* The temporary inode.
LEMMA PrepareAdvances ==
  ASSUME CallsOK, NEW o \in Ops, Prepare(o)
  PROVE  Advances(o)
<1>1. CallOK(o, op[o], "prepare") /\ Kept(o, op[o])
  BY DEF Prepare, At, CallsOK, CallOK
<1>2. CallOK(o, op[o], "write")
  BY <1>1 DEF CallOK, Labels, Unbound, Outgoing, Rechecking
<1>3. ASSUME Checkpoint(o, op[o], op[o], "write") PROVE Advances(o)
  BY <1>1, <1>2, <1>3, CheckpointAdvances
<1>4. ASSUME NEW codes \in SUBSET Codes, RaiseAny(o, codes) PROVE Advances(o)
  BY <1>4, RaiseAnyAdvances
<1> QED BY <1>3, <1>4 DEF Prepare, Ext4Failures, Codes

\* A linked file is complete, so no write can follow the link.
LEMMA WriteChunkAdvances ==
  ASSUME CallsOK, NEW o \in Ops, WriteChunk(o)
  PROVE  Advances(o)
<1>1. CallOK(o, op[o], "write") /\ Kept(o, op[o]) /\ op[o].written < OutBlocks
  BY DEF WriteChunk, At, CallsOK, CallOK
<1>2. ASSUME NEW n \in Progress(op[o]),
             Checkpoint(o, op[o], [op[o] EXCEPT !.written = n], "write")
      PROVE  Advances(o)
  <2> DEFINE t == [op[o] EXCEPT !.written = n]
  <2>1. op[o].written \in 0 .. OutBlocks
    BY <1>1 DEF Kept, Operation
  <2>2. n \in 0 .. OutBlocks /\ ~op[o].linked
    BY <1>1, <2>1 DEF Progress, Kept, Sealed
  <2>3. t \in Operation
    BY <1>1, <2>2, Zenon DEF Kept, Operation
  <2>4. CallOK(o, t, "write")
    BY <1>1, <2>2, <2>3 DEF CallOK, Kept, Operation, Labels, Unbound, Outgoing, Rechecking
  <2> QED BY <1>1, <1>2, <2>2, <2>4, CheckpointAdvances
<1>3. ASSUME RaiseAny(o, {"IO_ERROR"}) PROVE Advances(o)
  BY <1>3, RaiseAnyAdvances DEF Codes
<1> QED BY <1>2, <1>3 DEF WriteChunk

\* The fsync before the last recheck is what seals the temporary.
LEMMA SyncTemporaryAdvances ==
  ASSUME CallsOK, NEW o \in Ops, SyncTemporary(o)
  PROVE  Advances(o)
<1>1. CallOK(o, op[o], "write") /\ Kept(o, op[o]) /\ op[o].written = OutBlocks
  BY DEF SyncTemporary, At, CallsOK, CallOK
<1> DEFINE s == Flushed(op[o])
           t == [s EXCEPT !.phase = "link"]
<1>2. ASSUME Checkpoint(o, s, t, LastRecheck) PROVE Advances(o)
  <2>1. op[o].written \in 0 .. OutBlocks
    BY <1>1 DEF Kept, Operation
  <2>2. s \in Operation
    BY <1>1, <2>1, Zenon DEF Kept, Operation, Flushed
  <2>3. t \in Operation
    BY <2>2, Zenon DEF Operation
  <2>4. Kept(o, s) /\ s.linked = op[o].linked
    BY <1>1, <2>2 DEF Kept, Sealed, Operation, Flushed
  <2>5. CallOK(o, t, LastRecheck) /\ t.linked = op[o].linked
    BY <1>1, <2>2, <2>3
    DEF CallOK, Kept, Sealed, Operation, Flushed, LastRecheck, Labels, Unbound, Outgoing, Rechecking
  <2> QED BY <1>2, <2>4, <2>5, CheckpointAdvances
<1>3. ASSUME RaiseAny(o, {"IO_ERROR"}) PROVE Advances(o)
  BY <1>3, RaiseAnyAdvances DEF Codes
<1> QED BY <1>2, <1>3 DEF SyncTemporary

\* The last look at the destination before the link.
LEMMA CheckOutParentAdvances ==
  ASSUME CallsOK, NEW o \in Ops, CheckOutParent(o)
  PROVE  Advances(o)
<1>1. CallOK(o, op[o], "outBinding")
  BY DEF CheckOutParent, At, CallsOK
<1>2. CallOK(o, op[o], "link")
  BY <1>1 DEF CallOK, Labels, Unbound, Outgoing, Rechecking
<1>3. ASSUME RaiseAny(o, {"OUTPUT_PARENT_CHANGED", "CLOSE_FAILED"}) PROVE Advances(o)
  BY <1>3, RaiseAnyAdvances DEF Codes
<1> QED BY <1>2, <1>3, MoveAdvances DEF CheckOutParent, ParentFailures

\* Whatever the link did, the temporary it was attempted for is sealed.
LEMMA LinkAdvances ==
  ASSUME CallsOK, NEW o \in Ops, Link(o)
  PROVE  Advances(o)
<1>1. CallOK(o, op[o], "link") /\ Kept(o, op[o]) /\ Sealed(op[o]) /\ op[o].out_parent \in Dirs
  BY DEF Link, At, CallsOK, CallOK, Outgoing
<1> DEFINE s == [op[o] EXCEPT !.attempted = TRUE]
           published == [s EXCEPT !.visibility = "published", !.linked = TRUE]
           ambiguous == [Ambiguous(s) EXCEPT !.linked = TRUE]
<1>2. s \in Operation
  BY <1>1, Zenon DEF Kept, Operation
<1>3. Kept(o, s) /\ Sealed(s) /\ s.linked = op[o].linked
  BY <1>1, <1>2 DEF Kept, Sealed, Operation
<1>4. Ambiguous(s) \in Operation
  BY <1>2, Zenon DEF Operation, Ambiguous
<1>5. published \in Operation /\ ambiguous \in Operation
  <2>1. [s EXCEPT !.visibility = "published"] \in Operation
    BY <1>2, Zenon DEF Operation
  <2>2. published \in Operation
    BY <2>1, Zenon DEF Operation
  <2>3. ambiguous \in Operation
    BY <1>4, Zenon DEF Operation
  <2> QED BY <2>2, <2>3
<1>6. CallOK(o, published, "afterLink") /\ published.linked
  BY <1>1, <1>2, <1>3, <1>5
  DEF CallOK, Kept, Sealed, Operation, Labels, Unbound, Outgoing, Rechecking
<1>7. CallOK(o, ambiguous, "observe") /\ ambiguous.linked
  BY <1>1, <1>2, <1>3, <1>5
  DEF CallOK, Kept, Sealed, Operation, Ambiguous, Labels, Unbound, Outgoing, Rechecking
<1>8. CallOK(o, Ambiguous(s), "observe") /\ Ambiguous(s).linked = op[o].linked
  BY <1>1, <1>2, <1>3, <1>4
  DEF CallOK, Kept, Sealed, Operation, Ambiguous, Labels, Unbound, Outgoing, Rechecking
<1>9. ASSUME NEW code \in {"DESTINATION_EXISTS", "UNSUPPORTED_PLATFORM", "IO_ERROR"},
             Raise(o, s, code)
      PROVE  Advances(o)
  BY <1>3, <1>9, RaiseAdvances DEF Codes
<1>10. ASSUME Continue(o, published, "afterLink") PROVE Advances(o)
  BY <1>5, <1>6, <1>10 DEF Advances, Labels
<1>11. ASSUME Continue(o, ambiguous, "observe") PROVE Advances(o)
  BY <1>5, <1>7, <1>11 DEF Advances, Labels
<1>12. ASSUME Continue(o, Ambiguous(s), "observe") PROVE Advances(o)
  BY <1>4, <1>8, <1>12 DEF Advances, Labels
<1> QED BY <1>9, <1>10, <1>11, <1>12 DEF Link

\* The look at the name after an ambiguous link.
LEMMA ObserveAdvances ==
  ASSUME CallsOK, NEW o \in Ops, Observe(o)
  PROVE  Advances(o)
<1>1. CallOK(o, op[o], "observe") /\ Kept(o, op[o])
  BY DEF Observe, At, CallsOK, CallOK
<1>2. ASSUME NEW v \in {"not_published", "published", "uncertain"},
             NEW l \in Codes \cup {"none"}, NEW d \in Deferrable,
             Continue(o, [op[o] EXCEPT !.visibility = v, !.link_failure = l,
                                       !.deferred = d], "afterLink")
      PROVE  Advances(o)
  <2> DEFINE s == [op[o] EXCEPT !.visibility = v]
             t == [s EXCEPT !.link_failure = l]
             u == [t EXCEPT !.deferred = d]
  <2>1. s \in Operation
    BY <1>1, Zenon DEF Kept, Operation
  <2>2. t \in Operation
    BY <2>1, Zenon DEF Operation
  <2>3. u \in Operation
    BY <2>2, Zenon DEF Operation
  <2>4. CallOK(o, u, "afterLink") /\ u.linked = op[o].linked
    BY <1>1, <2>1, <2>2, <2>3
    DEF CallOK, Kept, Sealed, Operation, Labels, Unbound, Outgoing, Rechecking
  <2> QED BY <1>2, <2>3, <2>4 DEF Advances, Labels
<1> DEFINE found == dst[op[o].out_parent]
           v == IF OwnInode(o, found) THEN "published" ELSE op[o].visibility
           l == IF OwnInode(o, found) THEN "IO_ERROR" ELSE "PUBLICATION_UNCERTAIN"
           seen == [op[o] EXCEPT !.visibility = v, !.link_failure = l]
<1>3. /\ op[o].visibility \in {"not_published", "published", "uncertain"}
      /\ op[o].deferred \in Deferrable
  BY <1>1 DEF Kept, Operation
<1>4. v \in {"not_published", "published", "uncertain"} /\ l \in Codes \cup {"none"}
  BY <1>3 DEF Codes
<1>5. /\ "PUBLICATION_UNCERTAIN" \in Codes
      /\ {"CLOSE_FAILED", "PUBLICATION_UNCERTAIN"} \subseteq Deferrable
  BY DEF Codes, Deferrable
<1> HIDE DEF v, l
<1>6. ASSUME Continue(o, seen, "afterLink") PROVE Advances(o)
  <2>1. seen = [op[o] EXCEPT !.visibility = v, !.link_failure = l, !.deferred = op[o].deferred]
    BY <1>1, Zenon DEF Kept, Operation
  <2> QED BY <1>2, <1>3, <1>4, <1>6, <2>1
<1>7. ASSUME Continue(o, [seen EXCEPT !.deferred = "CLOSE_FAILED"], "afterLink")
      PROVE  Advances(o)
  BY <1>2, <1>4, <1>5, <1>7
<1>8. ASSUME Continue(o, [op[o] EXCEPT !.deferred = "PUBLICATION_UNCERTAIN",
                                       !.link_failure = "PUBLICATION_UNCERTAIN"], "afterLink")
      PROVE  Advances(o)
  <2>1. [op[o] EXCEPT !.deferred = "PUBLICATION_UNCERTAIN",
                      !.link_failure = "PUBLICATION_UNCERTAIN"]
        = [op[o] EXCEPT !.visibility = op[o].visibility,
                        !.link_failure = "PUBLICATION_UNCERTAIN",
                        !.deferred = "PUBLICATION_UNCERTAIN"]
    BY <1>1, Zenon DEF Kept, Operation
  <2> QED BY <1>2, <1>3, <1>5, <1>8, <2>1
<1> QED BY <1>6, <1>7, <1>8 DEF Observe, v, l

\* The checkpoint after the link.
LEMMA AfterLinkAdvances ==
  ASSUME CallsOK, NEW o \in Ops, AfterLink(o)
  PROVE  Advances(o)
<1>1. CallOK(o, op[o], "afterLink") /\ Kept(o, op[o])
  BY DEF AfterLink, At, CallsOK, CallOK
<1>2. CallOK(o, op[o], "syncFile")
  BY <1>1 DEF CallOK, Labels, Unbound, Outgoing, Rechecking
<1> QED BY <1>1, <1>2, CheckpointAdvances DEF AfterLink

\* Settling on the first failure keeps what holds of the state.
LEMMA KeepFirstKept ==
  ASSUME NEW o \in Ops, NEW s, NEW code \in Codes, Kept(o, s)
  PROVE  /\ Kept(o, KeepFirst(s, code))
         /\ \A f \in {"linked", "phase", "in_parent", "pinned", "out_parent", "written", "synced"} :
              KeepFirst(s, code)[f] = s[f]
<1> DEFINE c == IF s.settled = "none" THEN code ELSE s.settled
<1>1. c \in Codes \cup {"none"}
  BY DEF Kept, Operation
<1>2. KeepFirst(s, code) = [s EXCEPT !.settled = c]
  BY DEF KeepFirst
<1> HIDE DEF c
<1>3. [s EXCEPT !.settled = c] \in Operation
  BY <1>1, Zenon DEF Kept, Operation
<1> QED BY <1>2, <1>3 DEF Kept, Sealed, Operation

\* A synchronization keeps it too, whether it succeeds or not.
LEMMA SynchronizedKept ==
  ASSUME NEW o \in Ops, NEW s, NEW ok \in BOOLEAN, Kept(o, s)
  PROVE  /\ Kept(o, Synchronized(s, ok))
         /\ \A f \in {"linked", "phase", "in_parent", "pinned", "out_parent", "written", "synced"} :
              Synchronized(s, ok)[f] = s[f]
<1>1. CASE ok
  <2> DEFINE n == s.fsyncs + 1
  <2>1. n \in Nat
    BY DEF Kept, Operation
  <2>2. Synchronized(s, ok) = [s EXCEPT !.fsyncs = n]
    BY <1>1 DEF Synchronized
  <2> HIDE DEF n
  <2>3. [s EXCEPT !.fsyncs = n] \in Operation
    BY <2>1, Zenon DEF Kept, Operation
  <2> QED BY <2>2, <2>3 DEF Kept, Sealed, Operation
<1>2. CASE ~ok
  BY <1>2, KeepFirstKept DEF Synchronized, Codes
<1> QED BY <1>1, <1>2

\* The synchronization of the file.
LEMMA SyncFileAdvances ==
  ASSUME CallsOK, NEW o \in Ops, SyncFile(o)
  PROVE  Advances(o)
<1>1. CallOK(o, op[o], "syncFile") /\ Kept(o, op[o])
  BY DEF SyncFile, At, CallsOK, CallOK
<1>2. PICK ok \in BOOLEAN : Continue(o, Synchronized(op[o], ok), "syncParent")
  BY DEF SyncFile
<1>3. CallOK(o, Synchronized(op[o], ok), "syncParent")
  BY <1>1, SynchronizedKept
  DEF CallOK, Kept, Operation, Labels, Unbound, Outgoing, Rechecking
<1> QED BY <1>1, <1>2, <1>3, SynchronizedKept DEF Advances, CallOK, Kept

\* The synchronization of the directory.
LEMMA SyncParentAdvances ==
  ASSUME CallsOK, NEW o \in Ops, SyncParent(o)
  PROVE  Advances(o)
<1>1. CallOK(o, op[o], "syncParent") /\ Kept(o, op[o])
  BY DEF SyncParent, At, CallsOK, CallOK
<1>2. PICK ok \in BOOLEAN :
        Continue(o, [Synchronized(op[o], ok) EXCEPT
                       !.sync_completed = SyncCompleted(Synchronized(op[o], ok))], "complete")
  BY DEF SyncParent
<1> DEFINE s == Synchronized(op[o], ok)
           b == SyncCompleted(s)
           t == [s EXCEPT !.sync_completed = b]
<1>3. /\ Kept(o, s)
      /\ \A f \in {"linked", "phase", "in_parent", "pinned", "out_parent", "written", "synced"} :
           s[f] = op[o][f]
  BY <1>1, SynchronizedKept
<1>4. b \in BOOLEAN
  BY DEF SyncCompleted
<1> HIDE DEF b, s
<1>5. t \in Operation
  BY <1>3, <1>4, Zenon DEF Kept, Operation
<1>6. CallOK(o, t, "complete") /\ t.linked = op[o].linked
  BY <1>1, <1>3, <1>5
  DEF CallOK, Kept, Sealed, Operation, Labels, Unbound, Outgoing, Rechecking
<1> QED BY <1>2, <1>5, <1>6 DEF Advances, Labels, b, s

\* The completion checkpoint.
LEMMA CompleteAdvances ==
  ASSUME CallsOK, NEW o \in Ops, Complete(o)
  PROVE  Advances(o)
<1>1. CallOK(o, op[o], "complete") /\ Kept(o, op[o])
  BY DEF Complete, At, CallsOK, CallOK
<1> DEFINE s == [op[o] EXCEPT !.completion_sampled = TRUE]
           t == [s EXCEPT !.phase = "return"]
<1>2. s \in Operation
  BY <1>1, Zenon DEF Kept, Operation
<1>3. t \in Operation
  BY <1>2, Zenon DEF Operation
<1>4. Kept(o, s) /\ s.linked = op[o].linked /\ CallOK(o, s, "pubParent")
  BY <1>1, <1>2 DEF CallOK, Kept, Sealed, Operation, Labels, Unbound, Outgoing, Rechecking
<1>5. CallOK(o, t, "pinned") /\ t.linked = op[o].linked
  BY <1>1, <1>2, <1>3 DEF CallOK, Kept, Sealed, Operation, Labels, Unbound, Outgoing, Rechecking
<1>6. CASE Checkpoint(o, s, s, "pubParent")
  BY <1>4, <1>6, CheckpointAdvances
<1>7. CASE Checkpoint(o, s, t, "pinned")
  BY <1>4, <1>5, <1>7, CheckpointAdvances
<1> QED BY <1>6, <1>7 DEF Complete

\* The look at what was published.
LEMMA CheckPublishedAdvances ==
  ASSUME CallsOK, NEW o \in Ops, CheckPublishedParent(o) \/ CheckPublishedName(o)
  PROVE  Advances(o)
<1>1. CallOK(o, op[o], pc[o]) /\ pc[o] \in {"pubParent", "pubName"} /\ Kept(o, op[o])
  BY DEF CallsOK, CallOK, CheckPublishedParent, CheckPublishedName, At
<1>2. CallOK(o, op[o], "pubName") /\ CallOK(o, op[o], "conclude")
  BY <1>1 DEF CallOK, Labels, Unbound, Outgoing, Rechecking
<1>3. ASSUME NEW code \in {"PUBLISHED_PATH_CHANGED", "CLOSE_FAILED"},
             Continue(o, KeepFirst(op[o], code), "conclude")
      PROVE  Advances(o)
  <2>1. code \in Codes
    BY DEF Codes
  <2>2. CallOK(o, KeepFirst(op[o], code), "conclude")
    BY <1>1, <2>1, KeepFirstKept DEF CallOK, Kept, Operation, Labels, Unbound, Outgoing, Rechecking
  <2> QED BY <1>1, <1>3, <2>1, <2>2, KeepFirstKept DEF Advances, CallOK, Kept
<1> QED BY <1>2, <1>3, MoveAdvances DEF CheckPublishedParent, ParentFailures, CheckPublishedName

\* The failure of a publication is settled.
LEMMA ConcludeAdvances ==
  ASSUME CallsOK, NEW o \in Ops, Conclude(o)
  PROVE  Advances(o)
<1>1. CallOK(o, op[o], "conclude") /\ Kept(o, op[o])
  BY DEF Conclude, At, CallsOK, CallOK
<1> DEFINE c == PublicationFailure(op[o])
           t == [op[o] EXCEPT !.failure = c]
<1>2. c \in Codes \cup {"none"}
  BY <1>1 DEF PublicationFailure, Kept, Operation
<1>3. Continue(o, t, "settle")
  BY DEF Conclude
<1> HIDE DEF c
<1>4. t \in Operation
  BY <1>1, <1>2, Zenon DEF Kept, Operation
<1>5. CallOK(o, t, "settle") /\ t.linked = op[o].linked
  BY <1>1, <1>4 DEF CallOK, Kept, Sealed, Operation, Labels, Unbound, Outgoing, Rechecking
<1> QED BY <1>3, <1>4, <1>5 DEF Advances, Labels

-----------------------------------------------------------------------------
(* The end of a call.                                                      *)

\* The last sample of the callback.
LEMMA SettleAdvances ==
  ASSUME CallsOK, NEW o \in Ops, Settle(o)
  PROVE  Advances(o)
<1>1. CallOK(o, op[o], "settle") /\ Kept(o, op[o])
  BY DEF Settle, At, CallsOK, CallOK
<1>2. ASSUME Continue(o, op[o], "release") PROVE Advances(o)
  <2>1. CallOK(o, op[o], "release")
    BY <1>1 DEF CallOK, Labels, Unbound, Outgoing, Rechecking
  <2> QED BY <1>2, <2>1, MoveAdvances
<1> DEFINE s == [op[o] EXCEPT !.completion_sampled = TRUE]
<1>3. s \in Operation
  BY <1>1, Zenon DEF Kept, Operation
<1>4. Kept(o, s) /\ s.linked = op[o].linked
  BY <1>1, <1>3 DEF Kept, Sealed, Operation
<1> HIDE DEF s
<1>5. ASSUME NEW r \in CallbackResults,
             Continue(o, [Answered(s, r) EXCEPT
                            !.failure = IF @ = "none" /\ Refused(s, r)
                                        THEN CheckpointCode(r) ELSE @], "release")
      PROVE  Advances(o)
  <2> DEFINE a == Answered(s, r)
             c == IF a.failure = "none" /\ Refused(s, r) THEN CheckpointCode(r) ELSE a.failure
             t == [a EXCEPT !.failure = c]
  <2>1. Kept(o, a) /\ a.linked = s.linked /\ CheckpointCode(r) \in Codes
    BY <1>4, AnsweredKept
  <2>2. c \in Codes \cup {"none"}
    BY <2>1 DEF Kept, Operation
  <2> HIDE DEF a, c
  <2>3. t \in Operation
    BY <2>1, <2>2, Zenon DEF Kept, Operation
  <2>4. CallOK(o, t, "release") /\ t.linked = op[o].linked
    BY <1>4, <2>1, <2>3 DEF CallOK, Kept, Sealed, Operation, Labels, Unbound, Outgoing, Rechecking
  <2>5. Continue(o, t, "release")
    BY <1>5 DEF a, c
  <2> QED BY <2>3, <2>4, <2>5 DEF Advances, Labels
<1> QED BY <1>2, <1>5 DEF Settle, s

\* The release of the descriptors, which may fail.
LEMMA ReleaseAdvances ==
  ASSUME CallsOK, NEW o \in Ops, Release(o)
  PROVE  Advances(o)
<1>1. CallOK(o, op[o], "release") /\ Kept(o, op[o])
  BY DEF Release, At, CallsOK, CallOK
<1>2. PICK closeFailed \in BOOLEAN :
        Continue(o, [op[o] EXCEPT !.failure = FinalFailure(op[o], closeFailed),
                                  !.close_failed = closeFailed, !.holding = FALSE], "done")
  BY DEF Release
<1> DEFINE c == FinalFailure(op[o], closeFailed)
           s == [op[o] EXCEPT !.failure = c]
           t == [s EXCEPT !.close_failed = closeFailed]
           u == [t EXCEPT !.holding = FALSE]
<1>3. c \in Codes \cup {"none"}
  BY <1>1 DEF Deferrable, FinalFailure, Kept, Operation, Codes
<1>4. Continue(o, u, "done")
  BY <1>2
<1> HIDE DEF c
<1>5. s \in Operation
  BY <1>1, <1>3, Zenon DEF Kept, Operation
<1>6. t \in Operation
  BY <1>5, Zenon DEF Operation
<1>7. u \in Operation
  BY <1>6, Zenon DEF Operation
<1>8. CallOK(o, u, "done") /\ u.linked = op[o].linked
  BY <1>1, <1>5, <1>6, <1>7
  DEF CallOK, Kept, Sealed, Operation, Labels, Unbound, Outgoing, Rechecking
<1> QED BY <1>4, <1>7, <1>8 DEF Advances, Labels

\* Another exception.
LEMMA EscapeAdvances ==
  ASSUME CallsOK, NEW o \in Ops, Escape(o)
  PROVE  Advances(o)
<1>1. Kept(o, op[o])
  BY DEF CallsOK, CallOK
<1> DEFINE h == op[o].holding /\ pc[o] = "settle"
           t == [op[o] EXCEPT !.holding = h]
<1>2. h \in BOOLEAN /\ Continue(o, t, "escaped")
  BY DEF Escape
<1> HIDE DEF h
<1>3. t \in Operation
  BY <1>1, <1>2, Zenon DEF Kept, Operation
<1>4. CallOK(o, t, "escaped") /\ t.linked = op[o].linked
  BY <1>1, <1>3 DEF CallOK, Kept, Sealed, Operation, Labels, Unbound, Outgoing, Rechecking
<1> QED BY <1>2, <1>3, <1>4 DEF Advances, Labels

\* Every action of a call advances it.
LEMMA CallAdvances ==
  ASSUME TypeOK, CallsOK, NEW o \in Ops,
         LocalStep(o) \/ Link(o) \/ SyncParent(o) \/ Escape(o)
  PROVE  Advances(o)
BY AdmitAdvances, WalkInAdvances, PinAdvances, QualifyAdvances, ReadBlockAdvances,
   EndReadAdvances, RecheckAdvances, DecodeAdvances, WalkOutAdvances, PrepareAdvances,
   WriteChunkAdvances, SyncTemporaryAdvances, CheckOutParentAdvances, LinkAdvances,
   ObserveAdvances, AfterLinkAdvances, SyncFileAdvances, SyncParentAdvances,
   CompleteAdvances, CheckPublishedAdvances, ConcludeAdvances, SettleAdvances,
   ReleaseAdvances, EscapeAdvances
DEF LocalStep

-----------------------------------------------------------------------------
(* The invariant.                                                          *)

\* A call starts with the fields of an operation.
LEMMA NewOperationTyped == NewOperation \in Operation
<1> DEFINE unread == [edit |-> 0, tick |-> 0, size |-> 0]
<1>1. unread \in Version
  BY DEF Version
<1> HIDE DEF unread
<1> QED BY <1>1 DEF NewOperation, Operation, Deferrable, unread

\* It holds at the start.
LEMMA InitInv == Init => Inv
<1> SUFFICES ASSUME Init PROVE Inv
  OBVIOUS
<1>1. NewOperation \in Operation
  BY NewOperationTyped
<1>2. TypeOK
  <2>1. {[edit |-> 0, tick |-> 0, size |-> n] : n \in Sizes} \subseteq Version
    BY BoundAssumption DEF Version
  <2>2. content \in [Sources -> Version]
    BY <2>1 DEF Init
  <2> QED BY <1>1, <2>2 DEF Init, TypeOK, Labels
<1>3. CallsOK
  BY <1>1 DEF Init, CallsOK, CallOK, Kept, Labels, NewOperation, Unbound, Outgoing, Rechecking
<1>4. NamesLinked
  BY DEF Init, NamesLinked
<1> QED BY <1>2, <1>3, <1>4 DEF Inv

\* When one call advances, every call is in order, and linked files stay linked.
LEMMA AdvancesCallsOK ==
  ASSUME CallsOK, NEW o \in Ops, Advances(o)
  PROVE  CallsOK' /\ \A p \in Ops : op[p].linked => op'[p].linked
<1>1. PICK s \in Operation, l \in Labels :
        Continue(o, s, l) /\ CallOK(o, s, l) /\ (op[o].linked => s.linked)
  BY DEF Advances
<1>2. op' = [op EXCEPT ![o] = s] /\ pc' = [pc EXCEPT ![o] = l]
  BY <1>1 DEF Continue
<1>3. op' \in [Ops -> Operation] /\ pc' \in [Ops -> Labels]
  BY <1>2 DEF CallsOK
<1>4. \A p \in Ops : CallOK(p, op'[p], pc'[p])
  <2> SUFFICES ASSUME NEW p \in Ops PROVE CallOK(p, op'[p], pc'[p])
    OBVIOUS
  <2>1. CASE p = o
    BY <1>1, <1>2, <2>1 DEF CallsOK
  <2>2. CASE p # o
    <3>1. op'[p] = op[p] /\ pc'[p] = pc[p]
      BY <1>2, <2>2 DEF CallsOK
    <3> QED BY <3>1 DEF CallsOK
  <2> QED BY <2>1, <2>2
<1>5. \A p \in Ops : op[p].linked => op'[p].linked
  BY <1>1, <1>2 DEF CallsOK
<1> QED BY <1>3, <1>4, <1>5 DEF CallsOK

\* A step of a call keeps it.
LEMMA OpStepInv ==
  ASSUME Inv, NEW o \in Ops, OpStep(o) \/ (Escape(o) /\ UNCHANGED fs)
  PROVE  Inv'
<1>1. Advances(o)
  BY CallAdvances DEF Inv, OpStep
<1>2. CallsOK' /\ \A p \in Ops : op[p].linked => op'[p].linked
  BY <1>1, AdvancesCallsOK DEF Inv
<1>3. ASSUME TypeOK', NamesLinked' PROVE Inv'
  BY <1>2, <1>3 DEF Inv
<1>4. CASE UNCHANGED fs
  <2>1. TypeOK'
    BY <1>2, <1>4 DEF Inv, TypeOK, CallsOK, fs
  <2>2. NamesLinked'
    BY <1>2, <1>4 DEF Inv, NamesLinked, fs, Ops
  <2> QED BY <1>3, <2>1, <2>2
<1>5. CASE /\ Link(o)
           /\ UNCHANGED <<inDir, outDir, src, content, stable, up, meddled, disturbed, hidden>>
  <2>1. op[o].out_parent \in Dirs /\ o \in Savers
    BY <1>5 DEF Inv, CallsOK, CallOK, Link, At, Outgoing
  <2>2. UNCHANGED dst \/ (LinkTakesEffect(o) /\ op'[o].linked)
    <3>1. op[o] \in Operation
      BY DEF Inv, CallsOK
    <3> DEFINE s == [op[o] EXCEPT !.attempted = TRUE]
    <3>2. s \in Operation
      BY <3>1, Zenon DEF Operation
    <3>3. Ambiguous(s) \in Operation
      BY <3>2, Zenon DEF Operation, Ambiguous
    <3>4. [Ambiguous(s) EXCEPT !.linked = TRUE].linked
      BY <3>3 DEF Operation
    <3>5. [s EXCEPT !.visibility = "published", !.linked = TRUE].linked
      BY <3>2 DEF Operation
    <3> QED BY <1>5, <3>4, <3>5 DEF Inv, CallsOK, Link, Continue
  <2>3. TypeOK'
    BY <1>2, <1>5, <2>1, <2>2 DEF Inv, TypeOK, CallsOK, LinkTakesEffect
  <2>4. NamesLinked'
    BY <1>2, <1>5, <2>1, <2>2 DEF Inv, TypeOK, NamesLinked, LinkTakesEffect, Ops
  <2> QED BY <1>3, <2>3, <2>4
<1>6. CASE /\ SyncParent(o)
           /\ UNCHANGED <<inDir, outDir, src, dst, content, up, meddled, disturbed, hidden>>
  <2>1. op[o].out_parent \in Dirs
    BY <1>6 DEF Inv, CallsOK, CallOK, SyncParent, At, Outgoing
  <2>2. \/ stable' = stable
        \/ stable' = [stable EXCEPT ![op[o].out_parent] = dst[op[o].out_parent]]
    BY <1>6 DEF SyncParent
  <2>3. TypeOK'
    BY <1>2, <1>6, <2>1, <2>2 DEF Inv, TypeOK, CallsOK
  <2>4. NamesLinked'
    BY <1>2, <1>6, <2>1, <2>2 DEF Inv, TypeOK, NamesLinked, Ops
  <2> QED BY <1>3, <2>3, <2>4
<1> QED BY <1>4, <1>5, <1>6 DEF OpStep

\* Other users of the file system do not touch the calls, nor put their files in place.
LEMMA MeddlingInv ==
  ASSUME Inv,
         \/ \E i \in Sources : EditSource(i)
         \/ \E d \in Dirs : ReplaceSource(d) \/ ReplaceDestination(d)
         \/ RebindParents
  PROVE  Inv'
<1>1. op' = op /\ pc' = pc
  BY DEF EditSource, ReplaceSource, ReplaceDestination, RebindParents
<1>2. CallsOK'
  BY <1>1 DEF Inv, CallsOK
<1>3. CASE \E i \in Sources : EditSource(i)
  <2>1. PICK i \in Sources : EditSource(i)
    BY <1>3
  <2>2. PICK tick \in {content[i].tick, content[i].tick + 1}, size \in Sizes :
          content' = [content EXCEPT ![i] = [edit |-> content[i].edit + 1,
                                             tick |-> tick, size |-> size]]
    BY <2>1 DEF EditSource
  <2>3. content[i] \in Version
    BY <2>1 DEF Inv, TypeOK
  <2>4. [edit |-> content[i].edit + 1, tick |-> tick, size |-> size] \in Version
    BY <2>2, <2>3, BoundAssumption DEF Version
  <2>5. content' \in [Sources -> Version]
    BY <2>2, <2>4 DEF Inv, TypeOK
  <2>6. hidden' \in [Ops -> BOOLEAN] /\ disturbed' \in [Ops -> BOOLEAN]
    BY <2>1 DEF EditSource, Inv, TypeOK, Disturbs, Hides, StillChecking, StillReading, SameStamp
  <2>7. UNCHANGED <<inDir, outDir, src, dst, stable, up, pc, op>> /\ meddled' = meddled + 1
    BY <2>1 DEF EditSource, Meddle
  <2> QED BY <1>2, <2>5, <2>6, <2>7 DEF Inv, TypeOK, NamesLinked
<1>4. CASE \E d \in Dirs : ReplaceSource(d)
  BY <1>2, <1>4 DEF Inv, TypeOK, CallsOK, NamesLinked, ReplaceSource, Meddle
<1>5. CASE \E d \in Dirs : ReplaceDestination(d)
  BY <1>2, <1>5 DEF Inv, TypeOK, CallsOK, NamesLinked, ReplaceDestination, Meddle
<1>6. CASE RebindParents
  BY <1>2, <1>6 DEF Inv, TypeOK, CallsOK, NamesLinked, RebindParents, Meddle
<1> QED BY <1>3, <1>4, <1>5, <1>6

\* What a power loss takes back was not synchronized, and sealed files are.
LEMMA PowerLossInv ==
  ASSUME Inv, PowerLoss
  PROVE  Inv'
<1>1. PICK lost \in SUBSET Ops :
        op' = [o \in Ops |-> IF o \in lost THEN [op[o] EXCEPT !.written = op[o].synced]
                                           ELSE op[o]]
  BY DEF PowerLoss
<1>2. ASSUME NEW o \in Ops
      PROVE  CallOK(o, op'[o], pc[o]) /\ op'[o].linked = op[o].linked
  <2> DEFINE t == [op[o] EXCEPT !.written = op[o].synced]
  <2>1. CallOK(o, op[o], pc[o]) /\ Kept(o, op[o]) /\ op[o].synced \in 0 .. OutBlocks
    BY DEF Inv, CallsOK, CallOK, Kept, Operation
  <2>2. t \in Operation
    BY <2>1, Zenon DEF Kept, Operation
  <2>3. CallOK(o, t, pc[o]) /\ t.linked = op[o].linked
    BY <2>1, <2>2 DEF CallOK, Kept, Sealed, Operation
  <2>4. op'[o] = t \/ op'[o] = op[o]
    BY <1>1
  <2> QED BY <2>1, <2>3, <2>4
<1>3. CallsOK'
  <2>1. pc' = pc
    BY DEF PowerLoss
  <2>2. \A o \in Ops : op'[o] \in Operation
    BY <1>2 DEF CallOK, Kept
  <2>3. op' \in [Ops -> Operation]
    BY <1>1, <2>2
  <2> QED BY <1>2, <2>1, <2>3 DEF Inv, CallsOK
<1>4. PICK kept \in SUBSET Dirs :
        dst' = [d \in Dirs |-> IF d \in kept THEN dst[d] ELSE stable[d]]
  BY DEF PowerLoss
<1>5. TypeOK'
  BY <1>3, <1>4 DEF Inv, TypeOK, CallsOK, PowerLoss
<1>6. NamesLinked'
  BY <1>2, <1>4 DEF Inv, NamesLinked, PowerLoss, Ops
<1> QED BY <1>3, <1>5, <1>6 DEF Inv

\* And so does every step of the host.
LEMMA NextInv == Inv /\ [Next]_vars => Inv'
<1> SUFFICES ASSUME Inv, [Next]_vars PROVE Inv'
  OBVIOUS
<1>1. CASE \E o \in Ops : OpStep(o) \/ (Escape(o) /\ UNCHANGED fs)
  BY <1>1, OpStepInv
<1>2. CASE Environment
  BY <1>2, MeddlingInv, PowerLossInv DEF Environment
<1>3. CASE UNCHANGED vars
  BY <1>3 DEF Inv, TypeOK, CallsOK, NamesLinked, vars
<1> QED BY <1>1, <1>2, <1>3 DEF Next, Stopped

\* What is on the disk, and how far every call is: an invariant of the host.
THEOREM Invariance == Spec => []Inv
BY InitInv, NextInv, PTL DEF Spec

\* Every variable keeps its type, whatever the calls and the rest of the host do.
THEOREM TypeCorrectness == Spec => []TypeOK
<1>1. Inv => TypeOK
  BY DEF Inv
<1> QED BY <1>1, Invariance, PTL

\* Every file under the output name is complete, also after a power loss.
THEOREM OnlyWholeFilesPublished == Spec => []PublishedComplete
<1>1. Inv => PublishedComplete
  BY DEF Inv, NamesLinked, CallsOK, CallOK, Kept, Sealed, PublishedComplete, Ops
<1> QED BY <1>1, Invariance, PTL

-----------------------------------------------------------------------------
(* The course of a call: what it has done, by where it is, and what of it  *)
(* still has to be told.                                                   *)

\* The places of a call after the link of its file was attempted, and at its end.
Publishing == {"observe", "afterLink", "syncFile", "syncParent", "complete", "pubParent",
               "pubName", "conclude"}
Ending     == {"settle", "release", "done"}

Cancellations  == {"CANCELLED", "CANCEL_CHECK_FAILED"}
Unsynchronized == {"PUBLISHED_SYNC_UNCONFIRMED", "PUBLICATION_UNCERTAIN"}

\* Nothing is claimed or kept for later before publication was attempted.
Unattempted(s) ==
  /\ ~s.linked /\ s.visibility = "not_published" /\ ~s.sync_completed
  /\ s.fsyncs = 0 /\ s.settled = "none" /\ s.link_failure = "none" /\ s.deferred = "none"

\* Where a call may be that has attempted publication, and what it may have seen.
Attempts(o, s, l) ==
  /\ ~s.attempted => Unattempted(s)
  /\ s.attempted => o \in Savers /\ l \in Publishing \cup Ending \cup {"escaped"}
  /\ o \in Savers /\ l \in Publishing => s.attempted /\ s.visibility # "not_published"
  /\ l \in Publishing \ {"complete"} => o \in Savers
  /\ s.phase = "return" => o \in Inspectors
  /\ s.visibility = "published" => s.linked
  /\ s.linked => s.visibility # "not_published"
  /\ l = "observe" => s.visibility = "uncertain" /\ s.link_failure = "none"

\* What is known of the link and of both synchronizations, until they are weighed.
Synced(o, s, l) ==
  /\ s.fsyncs \in 0 .. 2
  /\ s.sync_completed <=> (s.fsyncs = 2 /\ s.visibility = "published")
  /\ s.link_failure \in {"none", "IO_ERROR", "PUBLICATION_UNCERTAIN"}
  /\ o \in Savers /\ l \in Publishing \ {"observe"} /\ s.visibility = "uncertain" =>
       s.link_failure = "PUBLICATION_UNCERTAIN"
  /\ l \in {"observe", "afterLink", "syncFile"} => s.fsyncs = 0 /\ s.settled = "none"
  /\ l = "syncParent" =>
       \/ (s.fsyncs = 1 /\ s.settled = "none")
       \/ (s.fsyncs = 0 /\ s.settled = "PUBLISHED_SYNC_UNCONFIRMED")
  /\ o \in Savers /\ l \in {"complete", "pubParent", "pubName"} =>
       \/ (s.fsyncs = 2 /\ s.settled = "none")
       \/ (s.fsyncs < 2 /\ s.settled = "PUBLISHED_SYNC_UNCONFIRMED")
  /\ l = "conclude" =>
       \/ s.fsyncs = 2 /\ s.settled \in {"none", "PUBLISHED_PATH_CHANGED", "CLOSE_FAILED"}
       \/ s.fsyncs < 2 /\ s.settled = "PUBLISHED_SYNC_UNCONFIRMED"

\* A cancellation that was asked for is still to be told, or is told.
Cancels(o, s, l) ==
  /\ s.deferred = "CANCELLED" => s.cancel_requested
  /\ l \notin Ending \cup {"escaped"} => s.failure = "none"
  /\ l \in Ending /\ s.failure = "CANCELLED" => s.cancel_requested
  /\ s.cancel_requested => \/ s.deferred # "none" /\ l # "done"
                           \/ l \in Ending /\ s.failure # "none"
                           \/ l = "escaped"

\* What the failure that is about to be reported, or the lack of one, says.
Verdict(o, s, l) ==
  /\ l \in Ending /\ o \in Savers /\ s.failure = "none" => s.sync_completed
  /\ l \in Ending /\ s.visibility = "uncertain" => s.failure # "none"
  /\ l \in Ending /\ s.linked /\ ~s.sync_completed => s.failure \in Unsynchronized
  /\ l \in {"settle", "release"} /\ s.linked => s.failure \notin Cancellations
  /\ l = "done" /\ s.failure = "none" => s.deferred = "none"
  /\ l = "done" /\ s.failure \in Cancellations \cup {"none"} => ~s.close_failed

Course(o, s, l) ==
  Attempts(o, s, l) /\ Synced(o, s, l) /\ Cancels(o, s, l) /\ Verdict(o, s, l)

Courses == \A o \in Ops : Course(o, op[o], pc[o])

\* A call that has not published, nor been refused anything.
Fresh(o, s) == /\ ~s.attempted /\ Unattempted(s) /\ ~s.cancel_requested
               /\ s.failure = "none"
               /\ s.phase = "return" => o \in Inspectors

\* The places of a call before it publishes.
Early == {"admit", "walkIn", "pin", "qualify", "read", "pinned", "binding", "name", "decode",
          "walkOut", "prepare", "write", "outBinding", "link"}

USE DEF Publishing, Ending, Cancellations, Unsynchronized

-----------------------------------------------------------------------------
(* The course of one call.                                                 *)

\* Before it publishes, the course of a call is that nothing has happened yet.
LEMMA EarlyCourse ==
  ASSUME NEW o \in Ops, NEW s \in Operation,
         NEW l, l \in Early \/ (l = "complete" /\ o \in Inspectors)
  PROVE  Course(o, s, l) <=> Fresh(o, s)
<1> USE DEF Ops, Early
<1>1. Fresh(o, s) <=> Attempts(o, s, l) /\ Cancels(o, s, l)
  BY DEF Fresh, Unattempted, Attempts, Cancels
<1>2. Fresh(o, s) => Synced(o, s, l) /\ Verdict(o, s, l)
  BY DEF Fresh, Unattempted, Synced, Verdict
<1> QED BY <1>1, <1>2 DEF Course

\* A call raises before anything of it is published, whatever it noted of the caller.
LEMMA CourseRaised ==
  ASSUME NEW o \in Ops, NEW s, s \in Operation, Unattempted(s),
         s.attempted => o \in Savers, s.phase = "return" => o \in Inspectors,
         NEW code \in Codes, code = "CANCELLED" => s.cancel_requested
  PROVE  Course(o, [s EXCEPT !.failure = code], "settle")
<1> DEFINE t == [s EXCEPT !.failure = code]
<1>1. /\ t.failure = code /\ code # "none"
      /\ \A f \in {"attempted", "linked", "visibility", "sync_completed", "fsyncs", "settled",
                   "link_failure", "deferred", "cancel_requested", "phase", "close_failed"} :
           t[f] = s[f]
  BY DEF Operation, Codes
<1> HIDE DEF t
<1>2. Attempts(o, t, "settle") /\ Synced(o, t, "settle")
  BY <1>1 DEF Ops, Unattempted, Attempts, Synced
<1>3. Cancels(o, t, "settle") /\ Verdict(o, t, "settle")
  BY <1>1 DEF Unattempted, Cancels, Verdict
<1> QED BY <1>2, <1>3 DEF Course, t

\* What a step that moves call o leaves behind.
LEMMA Moved ==
  ASSUME CallsOK, NEW o \in Ops, NEW s, NEW l, Continue(o, s, l)
  PROVE  /\ op'[o] = s /\ pc'[o] = l
         /\ \A p \in Ops : p # o => op'[p] = op[p] /\ pc'[p] = pc[p]
BY DEF CallsOK, Continue

\* A call that raises before anything of it is published is in course.
LEMMA RaisedCourse ==
  ASSUME CallsOK, NEW o \in Ops, NEW s \in Operation, Unattempted(s),
         s.attempted => o \in Savers, s.phase = "return" => o \in Inspectors,
         NEW code \in Codes, code = "CANCELLED" => s.cancel_requested, Raise(o, s, code)
  PROVE  Course(o, op'[o], pc'[o])
BY CourseRaised, Moved DEF Raise

\* The answer of the callback, field by field.
LEMMA AnsweredFields ==
  ASSUME NEW s \in Operation, NEW r \in CallbackResults
  PROVE  /\ Answered(s, r) \in Operation
         /\ Answered(s, r).cancel_requested = (s.cancel_requested \/ r = "true")
         /\ Answered(s, r).deferred =
              IF r # "false" /\ s.attempted /\ s.deferred \in {"none", "CANCELLED"}
              THEN CheckpointCode(r) ELSE s.deferred
         /\ Answered(s, r).attempted = s.attempted /\ Answered(s, r).linked = s.linked
         /\ Answered(s, r).visibility = s.visibility
         /\ Answered(s, r).sync_completed = s.sync_completed
         /\ Answered(s, r).fsyncs = s.fsyncs /\ Answered(s, r).settled = s.settled
         /\ Answered(s, r).link_failure = s.link_failure /\ Answered(s, r).failure = s.failure
         /\ Answered(s, r).phase = s.phase /\ Answered(s, r).close_failed = s.close_failed
         /\ Answered(s, r).raw = s.raw /\ Answered(s, r).stamp = s.stamp
         /\ Answered(s, r).pinned = s.pinned /\ Answered(s, r).in_parent = s.in_parent
         /\ Answered(s, r).out_parent = s.out_parent
         /\ Answered(s, r).completion_sampled = s.completion_sampled
<1> DEFINE c == s.cancel_requested \/ r = "true"
           d == IF r # "false" /\ s.attempted /\ s.deferred \in {"none", "CANCELLED"}
                THEN CheckpointCode(r) ELSE s.deferred
<1>1. c \in BOOLEAN /\ d \in Deferrable
  BY DEF Operation, CheckpointCode, Deferrable
<1>2. Answered(s, r) = [s EXCEPT !.cancel_requested = c, !.deferred = d]
  BY DEF Answered
<1> HIDE DEF c, d
<1>3. [s EXCEPT !.cancel_requested = c] \in Operation
  BY <1>1, Zenon DEF Operation
<1>4. [[s EXCEPT !.cancel_requested = c] EXCEPT !.deferred = d] \in Operation
  BY <1>1, <1>3, Zenon DEF Operation
<1>5. Answered(s, r) \in Operation
  BY <1>2, <1>4
<1>6. /\ Answered(s, r).cancel_requested = (s.cancel_requested \/ r = "true")
      /\ Answered(s, r).deferred =
           IF r # "false" /\ s.attempted /\ s.deferred \in {"none", "CANCELLED"}
           THEN CheckpointCode(r) ELSE s.deferred
  <2>1. Answered(s, r).cancel_requested = c /\ Answered(s, r).deferred = d
    BY <1>2 DEF Operation
  <2> QED BY <2>1 DEF c, d
<1>7. /\ Answered(s, r).attempted = s.attempted /\ Answered(s, r).linked = s.linked
      /\ Answered(s, r).visibility = s.visibility
      /\ Answered(s, r).sync_completed = s.sync_completed
      /\ Answered(s, r).fsyncs = s.fsyncs /\ Answered(s, r).settled = s.settled
      /\ Answered(s, r).link_failure = s.link_failure /\ Answered(s, r).failure = s.failure
  BY <1>2 DEF Operation
<1>8. /\ Answered(s, r).phase = s.phase /\ Answered(s, r).close_failed = s.close_failed
      /\ Answered(s, r).raw = s.raw /\ Answered(s, r).stamp = s.stamp
      /\ Answered(s, r).pinned = s.pinned /\ Answered(s, r).in_parent = s.in_parent
      /\ Answered(s, r).out_parent = s.out_parent
      /\ Answered(s, r).completion_sampled = s.completion_sampled
  BY <1>2 DEF Operation
<1> QED BY <1>5, <1>6, <1>7, <1>8

\* A checkpoint before publication refuses, or leaves nothing behind.
LEMMA FreshCheckpoint ==
  ASSUME CallsOK, NEW o \in Ops, NEW s \in Operation, NEW t \in Operation, NEW next,
         Fresh(o, s), Fresh(o, t), next \in Early \/ (next = "complete" /\ o \in Inspectors),
         Checkpoint(o, s, t, next)
  PROVE  Course(o, op'[o], pc'[o])
<1>1. PICK r \in CallbackResults :
        IF Refused(s, r) THEN Raise(o, Answered(s, r), CheckpointCode(r))
                         ELSE Continue(o, Answered(t, r), next)
  BY DEF Checkpoint
<1>2. CASE Refused(s, r)
  <2>1. CheckpointCode(r) \in Codes /\ (CheckpointCode(r) = "CANCELLED" => r = "true")
    BY DEF CheckpointCode, Codes
  <2>2. Answered(s, r) \in Operation /\ Unattempted(Answered(s, r))
    BY AnsweredFields DEF Fresh, Unattempted
  <2>3. Answered(s, r).attempted = s.attempted /\ Answered(s, r).phase = s.phase
    BY AnsweredFields
  <2>4. Answered(s, r).cancel_requested = (s.cancel_requested \/ r = "true")
    BY AnsweredFields
  <2>5. /\ Answered(s, r).attempted => o \in Savers
        /\ Answered(s, r).phase = "return" => o \in Inspectors
    BY <2>3 DEF Fresh
  <2>6. r = "true" => Answered(s, r).cancel_requested
    BY <2>4
  <2> QED BY <1>1, <1>2, <2>1, <2>2, <2>5, <2>6, RaisedCourse
<1>3. CASE ~Refused(s, r)
  <2>1. r = "false"
    BY <1>3 DEF Refused, Fresh
  <2>2. Answered(t, r) \in Operation /\ Unattempted(Answered(t, r))
    BY AnsweredFields DEF Fresh, Unattempted
  <2>3. /\ Answered(t, r).attempted = t.attempted /\ Answered(t, r).phase = t.phase
        /\ Answered(t, r).failure = t.failure
    BY AnsweredFields
  <2>4. Answered(t, r).cancel_requested = (t.cancel_requested \/ r = "true")
    BY AnsweredFields
  <2>5. Fresh(o, Answered(t, r))
    BY <2>1, <2>2, <2>3, <2>4 DEF Fresh
  <2> QED BY <1>1, <1>3, <2>2, <2>5, EarlyCourse, Moved
<1> QED BY <1>2, <1>3

\* A fresh call that raises, or moves on before publishing.
LEMMA FreshRaise ==
  ASSUME CallsOK, NEW o \in Ops, Fresh(o, op[o]), NEW codes \in SUBSET (Codes \ {"CANCELLED"}),
         RaiseAny(o, codes)
  PROVE  Course(o, op'[o], pc'[o])
<1>1. PICK code \in codes : Raise(o, op[o], code)
  BY DEF RaiseAny
<1>2. op[o] \in Operation /\ code \in Codes /\ code # "CANCELLED"
  BY DEF CallsOK
<1> QED BY <1>1, <1>2, RaisedCourse DEF Fresh

\* A call that goes on before publication, with nothing noted, is in course.
LEMMA FreshMove ==
  ASSUME CallsOK, NEW o \in Ops, NEW s \in Operation, Fresh(o, s), NEW next,
         next \in Early \/ (next = "complete" /\ o \in Inspectors), Continue(o, s, next)
  PROVE  Course(o, op'[o], pc'[o])
BY EarlyCourse, Moved

\* What is remembered of publication and cancellation is what makes a call fresh.
LEMMA StillFresh ==
  ASSUME NEW o \in Ops, NEW s, NEW t, Fresh(o, s), t.phase = "return" => o \in Inspectors,
         t.attempted = s.attempted, t.linked = s.linked, t.visibility = s.visibility,
         t.sync_completed = s.sync_completed, t.fsyncs = s.fsyncs, t.settled = s.settled,
         t.link_failure = s.link_failure, t.deferred = s.deferred,
         t.cancel_requested = s.cancel_requested, t.failure = s.failure
  PROVE  Fresh(o, t)
BY DEF Fresh, Unattempted

\* A walk that fails keeps at most what it opened.
LEMMA FreshWalkFails ==
  ASSUME CallsOK, NEW o \in Ops, Fresh(o, op[o]), NEW codes \in SUBSET (Codes \ {"CANCELLED"}),
         WalkFails(o, codes)
  PROVE  Course(o, op'[o], pc'[o])
<1>1. PICK code \in codes, held \in BOOLEAN : Raise(o, [op[o] EXCEPT !.holding = held], code)
  BY DEF WalkFails
<1> DEFINE s == [op[o] EXCEPT !.holding = held]
<1>2. op[o] \in Operation
  BY DEF CallsOK
<1>3. s \in Operation
  BY <1>2, Zenon DEF Operation
<1>4. Fresh(o, s)
  <2>1. /\ s.attempted = op[o].attempted /\ s.linked = op[o].linked
        /\ s.visibility = op[o].visibility
        /\ s.sync_completed = op[o].sync_completed /\ s.fsyncs = op[o].fsyncs
        /\ s.settled = op[o].settled
        /\ s.link_failure = op[o].link_failure /\ s.deferred = op[o].deferred
        /\ s.cancel_requested = op[o].cancel_requested
        /\ s.failure = op[o].failure /\ s.phase = op[o].phase
    BY <1>2 DEF Operation
  <2> HIDE DEF s
  <2> QED BY <2>1, StillFresh DEF Fresh
<1> HIDE DEF s
<1>5. code \in Codes /\ code # "CANCELLED" /\ Raise(o, s, code)
  BY <1>1 DEF s
<1> QED BY <1>3, <1>4, <1>5, RaisedCourse DEF Fresh

\* The steps of intake are taken by a call that has not published.
LEMMA AdmitCourse ==
  ASSUME CallsOK, CallsOK', NEW o \in Ops, Course(o, op[o], pc[o]), Admit(o)
  PROVE  Course(o, op'[o], pc'[o])
<1>1. op[o] \in Operation /\ op'[o] \in Operation /\ Fresh(o, op[o])
  BY EarlyCourse DEF CallsOK, Admit, At, Early
<1>2. ASSUME NEW code \in {"INVALID_ARGUMENT", "INVALID_PATH"},
             Continue(o, [op[o] EXCEPT !.failure = code, !.completion_sampled = TRUE], "release")
      PROVE  Course(o, op'[o], pc'[o])
  <2> DEFINE s == op[o]
             t == op'[o]
  <2>1. t = [s EXCEPT !.failure = code, !.completion_sampled = TRUE] /\ pc'[o] = "release"
    BY <1>2, Moved
  <2>2. /\ t.attempted = s.attempted /\ t.linked = s.linked /\ t.visibility = s.visibility
        /\ t.sync_completed = s.sync_completed /\ t.fsyncs = s.fsyncs /\ t.settled = s.settled
        /\ t.link_failure = s.link_failure /\ t.deferred = s.deferred
        /\ t.cancel_requested = s.cancel_requested /\ t.failure = code /\ t.phase = s.phase
    BY <1>1, <2>1 DEF Operation
  <2> HIDE DEF s, t
  <2>3. ~t.attempted /\ Unattempted(t) /\ ~t.cancel_requested
        /\ (t.phase = "return" => o \in Inspectors)
    BY <1>1, <2>2 DEF Fresh, Unattempted, s
  <2>4. Course(o, t, "release")
    BY <2>2, <2>3 DEF Ops, Unattempted, Course, Attempts, Synced, Cancels, Verdict
  <2> QED BY <2>1, <2>4 DEF t
<1>3. ASSUME Checkpoint(o, op[o], op[o], "walkIn") PROVE Course(o, op'[o], pc'[o])
  BY <1>1, <1>3, FreshCheckpoint DEF Early
<1>4. ASSUME RaiseAny(o, {"UNSUPPORTED_PLATFORM"}) PROVE Course(o, op'[o], pc'[o])
  BY <1>1, <1>4, FreshRaise DEF Codes
<1> QED BY <1>2, <1>3, <1>4 DEF Admit

\* Selecting the input notes nothing of publication.
LEMMA WalkInCourse ==
  ASSUME CallsOK, CallsOK', NEW o \in Ops, Course(o, op[o], pc[o]), WalkIn(o)
  PROVE  Course(o, op'[o], pc'[o])
<1>1. op[o] \in Operation /\ op'[o] \in Operation /\ Fresh(o, op[o])
  BY EarlyCourse DEF CallsOK, WalkIn, At, Early
<1>2. ASSUME Continue(o, [op[o] EXCEPT !.in_parent = inDir, !.holding = TRUE], "pin")
      PROVE  Course(o, op'[o], pc'[o])
  <2>1. op'[o] = [op[o] EXCEPT !.in_parent = inDir, !.holding = TRUE] /\ pc'[o] = "pin"
    BY <1>2, Moved
  <2> DEFINE t == op'[o]
  <2>2. /\ t.attempted = op[o].attempted /\ t.linked = op[o].linked
        /\ t.visibility = op[o].visibility
        /\ t.sync_completed = op[o].sync_completed /\ t.fsyncs = op[o].fsyncs
        /\ t.settled = op[o].settled
        /\ t.link_failure = op[o].link_failure /\ t.deferred = op[o].deferred
        /\ t.cancel_requested = op[o].cancel_requested
        /\ t.failure = op[o].failure /\ t.phase = op[o].phase
    BY <1>1, <2>1 DEF Operation
  <2> HIDE DEF t
  <2>3. Fresh(o, t)
    BY <1>1, <2>2, StillFresh DEF Fresh
  <2> QED BY <1>1, <2>1, <2>3, EarlyCourse DEF Early, t
<1>3. ASSUME WalkFails(o, {"UNSAFE_INPUT", "IO_ERROR", "CLOSE_FAILED"})
      PROVE  Course(o, op'[o], pc'[o])
  BY <1>1, <1>3, FreshWalkFails DEF Codes
<1> QED BY <1>2, <1>3 DEF WalkIn

\* Neither does pinning it.
LEMMA PinCourse ==
  ASSUME CallsOK, CallsOK', NEW o \in Ops, Course(o, op[o], pc[o]), Pin(o)
  PROVE  Course(o, op'[o], pc'[o])
<1>1. op[o] \in Operation /\ op'[o] \in Operation /\ Fresh(o, op[o])
  BY EarlyCourse DEF CallsOK, Pin, At, Early
<1> DEFINE i == src[op[o].in_parent]
<1>2. ASSUME Continue(o, [op[o] EXCEPT !.pinned = i, !.stamp = content[i]], "qualify")
      PROVE  Course(o, op'[o], pc'[o])
  <2>1. op'[o] = [op[o] EXCEPT !.pinned = i, !.stamp = content[i]] /\ pc'[o] = "qualify"
    BY <1>2, Moved
  <2> HIDE DEF i
  <2>2. Fresh(o, op'[o])
    BY <1>1, <2>1, StillFresh DEF Fresh, Operation
  <2> QED BY <1>1, <2>1, <2>2, EarlyCourse DEF Early
<1>3. ASSUME NEW codes \in {{"UNSAFE_INPUT"}, {"IO_ERROR"}}, RaiseAny(o, codes)
      PROVE  Course(o, op'[o], pc'[o])
  BY <1>1, <1>3, FreshRaise DEF Codes
<1> QED BY <1>2, <1>3 DEF Pin

\* The steps that only ask the caller, look at the input or at the directories.
LEMMA LookCourse ==
  ASSUME CallsOK, NEW o \in Ops, Course(o, op[o], pc[o]),
         \/ Qualify(o) \/ EndRead(o) \/ CheckPinned(o) \/ CheckParent(o) \/ Decode(o)
         \/ Prepare(o) \/ CheckOutParent(o)
  PROVE  Course(o, op'[o], pc'[o])
<1>1. op[o] \in Operation /\ Fresh(o, op[o])
  BY EarlyCourse
  DEF CallsOK, Qualify, EndRead, CheckPinned, CheckParent, Decode, Prepare, CheckOutParent,
      At, Early
<1>2. ASSUME NEW codes \in SUBSET (Codes \ {"CANCELLED"}), RaiseAny(o, codes)
      PROVE  Course(o, op'[o], pc'[o])
  BY <1>1, <1>2, FreshRaise
<1>3. ASSUME NEW next \in Early, Checkpoint(o, op[o], op[o], next)
      PROVE  Course(o, op'[o], pc'[o])
  BY <1>1, <1>3, FreshCheckpoint
<1>4. ASSUME NEW next \in Early, Continue(o, op[o], next)
      PROVE  Course(o, op'[o], pc'[o])
  BY <1>1, <1>4, FreshMove
<1>5. {"read", "pinned", "binding", "name", "walkOut", "write", "link"} \subseteq Early
  BY DEF Early
<1>6. /\ Ext4Failures \cup {"INPUT_CHANGED", "RESOURCE_LIMIT"} \in SUBSET (Codes \ {"CANCELLED"})
      /\ Ext4Failures \cup {"OUTPUT_PARENT_CHANGED"} \in SUBSET (Codes \ {"CANCELLED"})
      /\ {"IO_ERROR", "RESOURCE_LIMIT", "CLOSE_FAILED"} \in SUBSET (Codes \ {"CANCELLED"})
      /\ {"INPUT_CHANGED"} \in SUBSET (Codes \ {"CANCELLED"})
      /\ {"IO_ERROR"} \in SUBSET (Codes \ {"CANCELLED"})
      /\ ParentFailures("INPUT_CHANGED") \in SUBSET (Codes \ {"CANCELLED"})
      /\ ParentFailures("OUTPUT_PARENT_CHANGED") \in SUBSET (Codes \ {"CANCELLED"})
      /\ CodecFailures \in SUBSET (Codes \ {"CANCELLED"})
  BY DEF Ext4Failures, ParentFailures, CodecCodes, Codes
<1>7. CASE Qualify(o)
  BY <1>2, <1>3, <1>5, <1>6, <1>7 DEF Qualify
<1>8. CASE EndRead(o)
  BY <1>2, <1>3, <1>5, <1>6, <1>8 DEF EndRead
<1>9. CASE CheckPinned(o)
  BY <1>2, <1>4, <1>5, <1>6, <1>9 DEF CheckPinned
<1>10. CASE CheckParent(o)
  BY <1>2, <1>4, <1>5, <1>6, <1>10 DEF CheckParent
<1>11. CASE Decode(o)
  <2>1. ASSUME Continue(o, op[o], "complete"), o \notin Savers
        PROVE  Course(o, op'[o], pc'[o])
    BY <1>1, <2>1, FreshMove DEF Ops
  <2> QED BY <1>2, <1>4, <1>5, <1>6, <1>11, <2>1 DEF Decode
<1>12. CASE Prepare(o)
  BY <1>2, <1>3, <1>5, <1>6, <1>12 DEF Prepare
<1>13. CASE CheckOutParent(o)
  BY <1>2, <1>4, <1>5, <1>6, <1>13 DEF CheckOutParent
<1> QED BY <1>7, <1>8, <1>9, <1>10, <1>11, <1>12, <1>13

\* Reading, preparing and writing keep a call fresh, or raise.
LEMMA ReadBlockCourse ==
  ASSUME TypeOK, CallsOK, NEW o \in Ops, Course(o, op[o], pc[o]), ReadBlock(o)
  PROVE  Course(o, op'[o], pc'[o])
<1>1. op[o] \in Operation /\ Fresh(o, op[o]) /\ op[o].pinned \in Sources
  BY EarlyCourse DEF CallsOK, CallOK, Unbound, ReadBlock, At, Early
<1> DEFINE blocks == Append(op[o].raw, content[op[o].pinned])
           t == [op[o] EXCEPT !.raw = blocks]
<1>2. ASSUME Checkpoint(o, op[o], t, "read") PROVE Course(o, op'[o], pc'[o])
  <2>1. op[o].raw \in Seq(Version) /\ content[op[o].pinned] \in Version
    BY <1>1 DEF TypeOK, Operation
  <2>2. blocks \in Seq(Version)
    BY <2>1
  <2> HIDE DEF blocks
  <2>3. t \in Operation
    BY <1>1, <2>2, Zenon DEF Operation
  <2>4. /\ t.attempted = op[o].attempted /\ t.linked = op[o].linked
        /\ t.visibility = op[o].visibility /\ t.sync_completed = op[o].sync_completed
        /\ t.fsyncs = op[o].fsyncs /\ t.settled = op[o].settled
        /\ t.link_failure = op[o].link_failure /\ t.deferred = op[o].deferred
        /\ t.cancel_requested = op[o].cancel_requested /\ t.failure = op[o].failure
        /\ t.phase = op[o].phase
    BY <1>1 DEF Operation
  <2> HIDE DEF t
  <2>5. Fresh(o, t)
    BY <1>1, <2>4, StillFresh DEF Fresh
  <2> QED BY <1>1, <1>2, <2>3, <2>5, FreshCheckpoint DEF Early
<1>3. ASSUME RaiseAny(o, {"IO_ERROR"}) PROVE Course(o, op'[o], pc'[o])
  BY <1>1, <1>3, FreshRaise DEF Codes
<1> QED BY <1>2, <1>3 DEF ReadBlock

\* The last look of an inspection leads to its end, without a failure.
LEMMA CheckNameCourse ==
  ASSUME CallsOK, NEW o \in Ops, Course(o, op[o], pc[o]), CheckName(o)
  PROVE  Course(o, op'[o], pc'[o])
<1>1. op[o] \in Operation /\ Fresh(o, op[o])
  BY EarlyCourse DEF CallsOK, CheckName, At, Early
<1>2. ASSUME RaiseAny(o, {"INPUT_CHANGED", "IO_ERROR", "CLOSE_FAILED"})
      PROVE  Course(o, op'[o], pc'[o])
  BY <1>1, <1>2, FreshRaise DEF Codes
<1>3. ASSUME Continue(o, op[o], AfterBinding(op[o])) PROVE Course(o, op'[o], pc'[o])
  <2>1. CASE op[o].phase \in {"read", "link"}
    <3>1. AfterBinding(op[o]) \in Early
      BY <2>1 DEF AfterBinding, Early
    <3> QED BY <1>1, <1>3, <3>1, FreshMove
  <2>2. CASE op[o].phase = "return"
    <3>1. op'[o] = op[o] /\ pc'[o] = "settle"
      BY <1>3, <2>2, Moved DEF AfterBinding
    <3>2. o \notin Savers
      BY <1>1, <2>2 DEF Fresh
    <3>3. Course(o, op[o], "settle")
      BY <1>1, <3>2 DEF Ops, Fresh, Unattempted, Course, Attempts, Synced, Cancels, Verdict
    <3> QED BY <3>1, <3>3
  <2> QED BY <1>1, <2>1, <2>2 DEF Operation
<1> QED BY <1>2, <1>3 DEF CheckName

\* Selecting the destination notes nothing of publication.
LEMMA WalkOutCourse ==
  ASSUME CallsOK, CallsOK', NEW o \in Ops, Course(o, op[o], pc[o]), WalkOut(o)
  PROVE  Course(o, op'[o], pc'[o])
<1>1. op[o] \in Operation /\ op'[o] \in Operation /\ Fresh(o, op[o])
  BY EarlyCourse DEF CallsOK, WalkOut, At, Early
<1>2. ASSUME Continue(o, [op[o] EXCEPT !.out_parent = outDir], "prepare")
      PROVE  Course(o, op'[o], pc'[o])
  <2>1. op'[o] = [op[o] EXCEPT !.out_parent = outDir] /\ pc'[o] = "prepare"
    BY <1>2, Moved
  <2> DEFINE t == op'[o]
  <2>2. /\ t.attempted = op[o].attempted /\ t.linked = op[o].linked
        /\ t.visibility = op[o].visibility /\ t.sync_completed = op[o].sync_completed
        /\ t.fsyncs = op[o].fsyncs /\ t.settled = op[o].settled
        /\ t.link_failure = op[o].link_failure /\ t.deferred = op[o].deferred
        /\ t.cancel_requested = op[o].cancel_requested /\ t.failure = op[o].failure
        /\ t.phase = op[o].phase
    BY <1>1, <2>1 DEF Operation
  <2> HIDE DEF t
  <2>3. Fresh(o, t)
    BY <1>1, <2>2, StillFresh DEF Fresh
  <2> QED BY <1>1, <2>1, <2>3, EarlyCourse DEF Early, t
<1>3. ASSUME WalkFails(o, {"UNSAFE_INPUT", "IO_ERROR", "CLOSE_FAILED"})
      PROVE  Course(o, op'[o], pc'[o])
  BY <1>1, <1>3, FreshWalkFails DEF Codes
<1> QED BY <1>2, <1>3 DEF WalkOut

\* Neither does a write to the temporary.
LEMMA WriteChunkCourse ==
  ASSUME CallsOK, NEW o \in Ops, Course(o, op[o], pc[o]), WriteChunk(o)
  PROVE  Course(o, op'[o], pc'[o])
<1>1. op[o] \in Operation /\ Fresh(o, op[o])
  BY EarlyCourse DEF CallsOK, WriteChunk, At, Early
<1>2. ASSUME NEW n \in Progress(op[o]),
             Checkpoint(o, op[o], [op[o] EXCEPT !.written = n], "write")
      PROVE  Course(o, op'[o], pc'[o])
  <2> DEFINE t == [op[o] EXCEPT !.written = n]
  <2>1. op[o].written \in 0 .. OutBlocks
    BY <1>1 DEF Operation
  <2>2. n \in 0 .. OutBlocks
    BY <2>1 DEF Progress
  <2>3. t \in Operation
    BY <1>1, <2>2, Zenon DEF Operation
  <2>4. /\ t.attempted = op[o].attempted /\ t.linked = op[o].linked
        /\ t.visibility = op[o].visibility /\ t.sync_completed = op[o].sync_completed
        /\ t.fsyncs = op[o].fsyncs /\ t.settled = op[o].settled
        /\ t.link_failure = op[o].link_failure /\ t.deferred = op[o].deferred
        /\ t.cancel_requested = op[o].cancel_requested /\ t.failure = op[o].failure
        /\ t.phase = op[o].phase
    BY <1>1 DEF Operation
  <2> HIDE DEF t
  <2>5. Fresh(o, t)
    BY <1>1, <2>4, StillFresh DEF Fresh
  <2>6. Checkpoint(o, op[o], t, "write")
    BY <1>2 DEF t
  <2> QED BY <1>1, <2>3, <2>5, <2>6, FreshCheckpoint DEF Early
<1>3. ASSUME RaiseAny(o, {"IO_ERROR"}) PROVE Course(o, op'[o], pc'[o])
  BY <1>1, <1>3, FreshRaise DEF Codes
<1> QED BY <1>2, <1>3 DEF WriteChunk

\* Synchronizing the temporary leaves the call fresh, on its way to the link.
LEMMA SyncTemporaryCourse ==
  ASSUME CallsOK, NEW o \in Ops, Course(o, op[o], pc[o]), SyncTemporary(o)
  PROVE  Course(o, op'[o], pc'[o])
<1>1. /\ op[o] \in Operation /\ Fresh(o, op[o]) /\ op[o].written \in 0 .. OutBlocks
      /\ o \in Savers
  BY EarlyCourse DEF CallsOK, CallOK, Outgoing, SyncTemporary, At, Early, Operation
<1> DEFINE s == Flushed(op[o])
           t == [s EXCEPT !.phase = "link"]
<1>2. ASSUME Checkpoint(o, s, t, LastRecheck) PROVE Course(o, op'[o], pc'[o])
  <2>1. s \in Operation
    BY <1>1, Zenon DEF Operation, Flushed
  <2>2. t \in Operation
    BY <2>1, Zenon DEF Operation
  <2>3. /\ s.attempted = op[o].attempted /\ s.linked = op[o].linked
        /\ s.visibility = op[o].visibility /\ s.sync_completed = op[o].sync_completed
        /\ s.fsyncs = op[o].fsyncs /\ s.settled = op[o].settled
        /\ s.link_failure = op[o].link_failure /\ s.deferred = op[o].deferred
        /\ s.cancel_requested = op[o].cancel_requested /\ s.failure = op[o].failure
        /\ s.phase = op[o].phase
    BY <1>1 DEF Operation, Flushed
  <2>4. /\ t.attempted = s.attempted /\ t.linked = s.linked /\ t.visibility = s.visibility
        /\ t.sync_completed = s.sync_completed /\ t.fsyncs = s.fsyncs /\ t.settled = s.settled
        /\ t.link_failure = s.link_failure /\ t.deferred = s.deferred
        /\ t.cancel_requested = s.cancel_requested /\ t.failure = s.failure
        /\ t.phase = "link"
    BY <2>1 DEF Operation
  <2> HIDE DEF s, t
  <2>5. Fresh(o, s)
    BY <1>1, <2>3, StillFresh DEF Fresh
  <2>6. Fresh(o, t)
    BY <2>4, <2>5, StillFresh
  <2> QED BY <1>2, <2>1, <2>2, <2>5, <2>6, FreshCheckpoint DEF Early, LastRecheck
<1>3. ASSUME RaiseAny(o, {"IO_ERROR"}) PROVE Course(o, op'[o], pc'[o])
  BY <1>1, <1>3, FreshRaise DEF Codes
<1> QED BY <1>2, <1>3 DEF SyncTemporary

\* The link fails, takes effect, or leaves it open whether it did.
LEMMA LinkCourse ==
  ASSUME CallsOK, CallsOK', NEW o \in Ops, Course(o, op[o], pc[o]), Link(o)
  PROVE  Course(o, op'[o], pc'[o])
<1>1. op[o] \in Operation /\ Fresh(o, op[o]) /\ o \in Savers /\ o \notin Inspectors
  BY EarlyCourse DEF CallsOK, CallOK, Outgoing, Link, At, Early
<1> DEFINE s == [op[o] EXCEPT !.attempted = TRUE]
<1>2. s \in Operation
  BY <1>1, Zenon DEF Operation
<1>3. /\ s.linked = op[o].linked /\ s.visibility = op[o].visibility
      /\ s.sync_completed = op[o].sync_completed /\ s.fsyncs = op[o].fsyncs
      /\ s.settled = op[o].settled /\ s.link_failure = op[o].link_failure
      /\ s.deferred = op[o].deferred /\ s.cancel_requested = op[o].cancel_requested
      /\ s.failure = op[o].failure /\ s.phase = op[o].phase
      /\ s.attempted
  BY <1>1 DEF Operation
<1>4. Link(o) <=>
        /\ At(o, "link")
        /\ \/ /\ LinkTakesEffect(o)
              /\ \/ Continue(o, [s EXCEPT !.visibility = "published", !.linked = TRUE], "afterLink")
                 \/ Continue(o, [Ambiguous(s) EXCEPT !.linked = TRUE], "observe")
           \/ /\ UNCHANGED dst
              /\ \/ dst[op[o].out_parent] # None /\ Raise(o, s, "DESTINATION_EXISTS")
                 \/ \E code \in {"UNSUPPORTED_PLATFORM", "IO_ERROR"} : Raise(o, s, code)
                 \/ Continue(o, Ambiguous(s), "observe")
  BY DEF Link
<1> HIDE DEF s
<1>5. Unattempted(s) /\ ~s.cancel_requested /\ s.failure = "none" /\ s.phase # "return"
  BY <1>1, <1>3 DEF Fresh, Unattempted
<1>6. ASSUME NEW code \in {"DESTINATION_EXISTS", "UNSUPPORTED_PLATFORM", "IO_ERROR"},
             Raise(o, s, code)
      PROVE  Course(o, op'[o], pc'[o])
  BY <1>1, <1>2, <1>3, <1>5, <1>6, RaisedCourse DEF Codes
<1>7. ASSUME NEW t, NEW l, Continue(o, t, l), l \in {"afterLink", "observe"},
             t.visibility = (IF l = "observe" THEN "uncertain" ELSE "published"),
             t.linked \in BOOLEAN, l = "afterLink" => t.linked,
             t.attempted = s.attempted, t.sync_completed = s.sync_completed,
             t.fsyncs = s.fsyncs, t.settled = s.settled, t.link_failure = s.link_failure,
             t.deferred = s.deferred, t.cancel_requested = s.cancel_requested,
             t.failure = s.failure, t.phase = s.phase
      PROVE  Course(o, op'[o], pc'[o])
  <2>1. Course(o, t, l)
    BY <1>1, <1>3, <1>5, <1>7
    DEF Unattempted, Course, Attempts, Synced, Cancels, Verdict
  <2> QED BY <1>7, <2>1, Moved
<1>8. CASE Continue(o, [s EXCEPT !.visibility = "published", !.linked = TRUE], "afterLink")
  <2> DEFINE t == [s EXCEPT !.visibility = "published", !.linked = TRUE]
  <2>1. /\ t.visibility = "published" /\ t.linked
        /\ t.attempted = s.attempted /\ t.sync_completed = s.sync_completed
        /\ t.fsyncs = s.fsyncs /\ t.settled = s.settled /\ t.link_failure = s.link_failure
        /\ t.deferred = s.deferred /\ t.cancel_requested = s.cancel_requested
        /\ t.failure = s.failure /\ t.phase = s.phase
    BY <1>2 DEF Operation
  <2> HIDE DEF t
  <2>2. Continue(o, t, "afterLink")
    BY <1>8 DEF t
  <2> QED BY <1>7, <2>1, <2>2
<1>9. CASE Continue(o, [Ambiguous(s) EXCEPT !.linked = TRUE], "observe")
  <2> DEFINE t == [Ambiguous(s) EXCEPT !.linked = TRUE]
  <2>1. /\ t.visibility = "uncertain" /\ t.linked
        /\ t.attempted = s.attempted /\ t.sync_completed = s.sync_completed
        /\ t.fsyncs = s.fsyncs /\ t.settled = s.settled /\ t.link_failure = s.link_failure
        /\ t.deferred = s.deferred /\ t.cancel_requested = s.cancel_requested
        /\ t.failure = s.failure /\ t.phase = s.phase
    BY <1>2 DEF Operation, Ambiguous
  <2> HIDE DEF t
  <2>2. Continue(o, t, "observe")
    BY <1>9 DEF t
  <2> QED BY <1>7, <2>1, <2>2
<1>10. CASE Continue(o, Ambiguous(s), "observe")
  <2> DEFINE t == Ambiguous(s)
  <2>1. /\ t.visibility = "uncertain" /\ t.linked = s.linked
        /\ t.attempted = s.attempted /\ t.sync_completed = s.sync_completed
        /\ t.fsyncs = s.fsyncs /\ t.settled = s.settled /\ t.link_failure = s.link_failure
        /\ t.deferred = s.deferred /\ t.cancel_requested = s.cancel_requested
        /\ t.failure = s.failure /\ t.phase = s.phase
    BY <1>2 DEF Operation, Ambiguous
  <2>2. s.linked \in BOOLEAN
    BY <1>2 DEF Operation
  <2> HIDE DEF t
  <2>3. Continue(o, t, "observe")
    BY <1>10 DEF t
  <2> QED BY <1>7, <2>1, <2>2, <2>3
<1> QED BY <1>4, <1>6, <1>8, <1>9, <1>10

-----------------------------------------------------------------------------
(* The course of a call after the link.                                    *)

\* After the link was attempted, a refusal is kept for later and told at the end.
LEMMA AnsweredCourse ==
  ASSUME NEW o \in Ops, NEW s \in Operation, NEW l, Course(o, s, l), s.attempted, l # "done",
         NEW r \in CallbackResults
  PROVE  Course(o, Answered(s, r), l)
<1> DEFINE t == Answered(s, r)
<1>1. t.cancel_requested = (s.cancel_requested \/ r = "true")
  BY AnsweredFields
<1>2. t.deferred = IF r # "false" /\ s.attempted /\ s.deferred \in {"none", "CANCELLED"}
                   THEN CheckpointCode(r) ELSE s.deferred
  BY AnsweredFields
<1>3. /\ t.attempted = s.attempted /\ t.linked = s.linked /\ t.visibility = s.visibility
      /\ t.sync_completed = s.sync_completed /\ t.fsyncs = s.fsyncs /\ t.settled = s.settled
      /\ t.link_failure = s.link_failure /\ t.failure = s.failure /\ t.phase = s.phase
      /\ t.close_failed = s.close_failed
  BY AnsweredFields
<1> HIDE DEF t
<1>4. Attempts(o, t, l)
  BY <1>3 DEF Course, Attempts
<1>5. Synced(o, t, l)
  BY <1>3 DEF Course, Synced
<1>6. Cancels(o, t, l)
  <2>1. CheckpointCode(r) # "none" /\ (CheckpointCode(r) = "CANCELLED" => r = "true")
    BY DEF CheckpointCode
  <2>2. CASE r = "false"
    BY <1>1, <1>2, <1>3, <2>2 DEF Course, Cancels
  <2>3. CASE r # "false"
    <3>1. t.deferred # "none" /\ (t.deferred = "CANCELLED" => t.cancel_requested)
      BY <1>1, <1>2, <2>1, <2>3 DEF Course, Cancels
    <3>2. s.cancel_requested => t.cancel_requested
      BY <1>1
    <3> QED BY <1>3, <3>1, <3>2 DEF Course, Cancels
  <2> QED BY <2>2, <2>3
<1>7. Verdict(o, t, l)
  BY <1>3 DEF Course, Verdict
<1> QED BY <1>4, <1>5, <1>6, <1>7 DEF Course, t

\* A checkpoint after the link was attempted always passes.
LEMMA AttemptedCheckpoint ==
  ASSUME CallsOK, NEW o \in Ops, NEW s, s.attempted, NEW t \in Operation, NEW next,
         Course(o, t, next), t.attempted, next # "done", Checkpoint(o, s, t, next)
  PROVE  Course(o, op'[o], pc'[o])
<1>1. PICK r \in CallbackResults : Continue(o, Answered(t, r), next)
  BY DEF Checkpoint, Refused
<1>2. Course(o, Answered(t, r), next)
  BY AnsweredCourse
<1> QED BY <1>1, <1>2, Moved

\* A saver at a place after the link has attempted it.
LEMMA PublishingAttempted ==
  ASSUME NEW o \in Ops, NEW s, NEW l \in Publishing, Course(o, s, l), o \in Savers
  PROVE  s.attempted /\ s.visibility # "not_published"
BY DEF Course, Attempts

\* What is found under the name tells a link that took effect from one that is open.
LEMMA ObserveCourse ==
  ASSUME CallsOK, NamesLinked, NEW o \in Ops, Course(o, op[o], pc[o]), Observe(o)
  PROVE  Course(o, op'[o], pc'[o])
<1>1. /\ op[o] \in Operation /\ o \in Savers /\ Course(o, op[o], "observe")
      /\ op[o].out_parent \in Dirs
  BY DEF CallsOK, CallOK, Outgoing, Observe, At
<1> DEFINE s == op[o]
<1>2. s.visibility = "uncertain" /\ s.attempted /\ s.link_failure = "none"
  BY <1>1 DEF Course, Attempts
<1>3. ASSUME NEW v, NEW k, NEW d,
             \/ v = "published" /\ s.linked /\ k = "IO_ERROR"
             \/ v = s.visibility /\ k = "PUBLICATION_UNCERTAIN",
             d \in {s.deferred, "PUBLICATION_UNCERTAIN", "CLOSE_FAILED"},
             Continue(o, [s EXCEPT !.visibility = v, !.link_failure = k, !.deferred = d],
                      "afterLink")
      PROVE  Course(o, op'[o], pc'[o])
  <2> DEFINE t == [s EXCEPT !.visibility = v, !.link_failure = k, !.deferred = d]
  <2>1. /\ t.visibility = v /\ t.link_failure = k /\ t.deferred = d
        /\ t.attempted = s.attempted /\ t.linked = s.linked
        /\ t.sync_completed = s.sync_completed /\ t.fsyncs = s.fsyncs /\ t.settled = s.settled
        /\ t.cancel_requested = s.cancel_requested /\ t.failure = s.failure /\ t.phase = s.phase
    BY <1>1 DEF Operation
  <2> HIDE DEF t, s
  <2>2. Attempts(o, t, "afterLink")
    BY <1>1, <1>2, <1>3, <2>1 DEF Course, Attempts, s
  <2>3. Synced(o, t, "afterLink")
    BY <1>1, <1>2, <1>3, <2>1 DEF Course, Synced, s
  <2>4. Cancels(o, t, "afterLink")
    BY <1>1, <1>3, <2>1 DEF Course, Cancels, s
  <2>5. Verdict(o, t, "afterLink")
    BY DEF Verdict
  <2>6. op'[o] = t /\ pc'[o] = "afterLink"
    BY <1>3, Moved DEF t
  <2> QED BY <2>2, <2>3, <2>4, <2>5, <2>6 DEF Course
<1> DEFINE found == dst[s.out_parent]
           v == IF OwnInode(o, found) THEN "published" ELSE s.visibility
           k == IF OwnInode(o, found) THEN "IO_ERROR" ELSE "PUBLICATION_UNCERTAIN"
<1>4. \/ v = "published" /\ s.linked /\ k = "IO_ERROR"
      \/ v = s.visibility /\ k = "PUBLICATION_UNCERTAIN"
  BY <1>1 DEF OwnInode, NamesLinked
<1>5. CASE Continue(o, [s EXCEPT !.visibility = v, !.link_failure = k], "afterLink")
  <2>1. [s EXCEPT !.visibility = v, !.link_failure = k]
          = [s EXCEPT !.visibility = v, !.link_failure = k, !.deferred = s.deferred]
    BY <1>1 DEF Operation
  <2> HIDE DEF v, k
  <2> QED BY <1>3, <1>4, <1>5, <2>1
<1>6. CASE Continue(o, [[s EXCEPT !.visibility = v, !.link_failure = k]
                          EXCEPT !.deferred = "CLOSE_FAILED"], "afterLink")
  <2> HIDE DEF v, k
  <2> QED BY <1>3, <1>4, <1>6
<1>7. CASE Continue(o, [s EXCEPT !.deferred = "PUBLICATION_UNCERTAIN",
                                 !.link_failure = "PUBLICATION_UNCERTAIN"], "afterLink")
  <2>1. [s EXCEPT !.deferred = "PUBLICATION_UNCERTAIN", !.link_failure = "PUBLICATION_UNCERTAIN"]
          = [s EXCEPT !.visibility = s.visibility, !.link_failure = "PUBLICATION_UNCERTAIN",
                      !.deferred = "PUBLICATION_UNCERTAIN"]
    BY <1>1 DEF Operation
  <2> QED BY <1>3, <1>7, <2>1
<1> QED BY <1>5, <1>6, <1>7 DEF Observe

\* The checkpoint that follows the link.
LEMMA AfterLinkCourse ==
  ASSUME CallsOK, NEW o \in Ops, Course(o, op[o], pc[o]), AfterLink(o)
  PROVE  Course(o, op'[o], pc'[o])
<1>1. op[o] \in Operation /\ o \in Savers /\ Course(o, op[o], "afterLink")
  BY DEF CallsOK, CallOK, Outgoing, AfterLink, At
<1>2. op[o].attempted /\ Course(o, op[o], "syncFile")
  BY <1>1 DEF Course, Attempts, Synced, Cancels, Verdict
<1> QED BY <1>1, <1>2, AttemptedCheckpoint DEF AfterLink

\* What a synchronization that succeeded, or failed, leaves behind.
LEMMA SynchronizedFields ==
  ASSUME NEW s \in Operation, NEW ok \in BOOLEAN, NEW t, t = Synchronized(s, ok)
  PROVE  /\ t.fsyncs = IF ok THEN s.fsyncs + 1 ELSE s.fsyncs
         /\ t.settled = IF ok \/ s.settled # "none" THEN s.settled
                        ELSE "PUBLISHED_SYNC_UNCONFIRMED"
         /\ t.attempted = s.attempted /\ t.linked = s.linked /\ t.visibility = s.visibility
         /\ t.sync_completed = s.sync_completed /\ t.link_failure = s.link_failure
         /\ t.deferred = s.deferred /\ t.cancel_requested = s.cancel_requested
         /\ t.failure = s.failure /\ t.phase = s.phase
<1>1. CASE ok
  BY <1>1 DEF Synchronized, Operation
<1>2. CASE ~ok
  BY <1>2 DEF Synchronized, KeepFirst, Operation
<1> QED BY <1>1, <1>2

\* The synchronization of the file, which may fail.
LEMMA SyncFileCourse ==
  ASSUME CallsOK, NEW o \in Ops, Course(o, op[o], pc[o]), SyncFile(o)
  PROVE  Course(o, op'[o], pc'[o])
<1>1. op[o] \in Operation /\ o \in Savers /\ Course(o, op[o], "syncFile")
  BY DEF CallsOK, CallOK, Outgoing, SyncFile, At
<1>2. PICK ok \in BOOLEAN : Continue(o, Synchronized(op[o], ok), "syncParent")
  BY DEF SyncFile
<1> DEFINE s == op[o]
           t == Synchronized(s, ok)
<1>3. /\ t.fsyncs = IF ok THEN s.fsyncs + 1 ELSE s.fsyncs
      /\ t.settled = IF ok \/ s.settled # "none" THEN s.settled
                     ELSE "PUBLISHED_SYNC_UNCONFIRMED"
  BY <1>1, SynchronizedFields
<1>4. /\ t.attempted = s.attempted /\ t.linked = s.linked /\ t.visibility = s.visibility
      /\ t.sync_completed = s.sync_completed /\ t.link_failure = s.link_failure
      /\ t.deferred = s.deferred /\ t.cancel_requested = s.cancel_requested
      /\ t.failure = s.failure /\ t.phase = s.phase
  BY <1>1, SynchronizedFields
<1> HIDE DEF s, t
<1>5. Attempts(o, t, "syncParent") /\ Synced(o, t, "syncParent")
  BY <1>1, <1>3, <1>4 DEF Course, Attempts, Synced, s
<1>6. Cancels(o, t, "syncParent") /\ Verdict(o, t, "syncParent")
  BY <1>1, <1>4 DEF Course, Cancels, Verdict, s
<1>7. op'[o] = t /\ pc'[o] = "syncParent"
  BY <1>2, Moved DEF s, t
<1> QED BY <1>5, <1>6, <1>7 DEF Course

\* The directory's synchronization completes it, or leaves it unconfirmed.
LEMMA SyncParentCourse ==
  ASSUME CallsOK, NEW o \in Ops, Course(o, op[o], pc[o]), SyncParent(o)
  PROVE  Course(o, op'[o], pc'[o])
<1>1. op[o] \in Operation /\ o \in Savers /\ Course(o, op[o], "syncParent")
  BY DEF CallsOK, CallOK, Outgoing, SyncParent, At
<1>2. PICK ok \in BOOLEAN :
        Continue(o, [Synchronized(op[o], ok) EXCEPT
                       !.sync_completed = SyncCompleted(Synchronized(op[o], ok))], "complete")
  BY DEF SyncParent
<1> DEFINE s == op[o]
           t == Synchronized(s, ok)
           b == SyncCompleted(t)
           u == [t EXCEPT !.sync_completed = b]
<1>3. /\ t.fsyncs = IF ok THEN s.fsyncs + 1 ELSE s.fsyncs
      /\ t.settled = IF ok \/ s.settled # "none" THEN s.settled
                     ELSE "PUBLISHED_SYNC_UNCONFIRMED"
  BY <1>1, SynchronizedFields
<1>4. /\ t.attempted = s.attempted /\ t.linked = s.linked /\ t.visibility = s.visibility
      /\ t.sync_completed = s.sync_completed /\ t.link_failure = s.link_failure
      /\ t.deferred = s.deferred /\ t.cancel_requested = s.cancel_requested
      /\ t.failure = s.failure /\ t.phase = s.phase
  BY <1>1, SynchronizedFields
<1>5. t \in Operation
  BY <1>1, SynchronizedKept DEF CallsOK, CallOK, Kept
<1>6. b <=> (t.fsyncs = 2 /\ t.visibility = "published")
  BY DEF SyncCompleted
<1> HIDE DEF s, t, b
<1>7. /\ u.sync_completed = b /\ u.fsyncs = t.fsyncs /\ u.settled = t.settled
      /\ u.attempted = t.attempted /\ u.linked = t.linked /\ u.visibility = t.visibility
      /\ u.link_failure = t.link_failure /\ u.deferred = t.deferred
      /\ u.cancel_requested = t.cancel_requested /\ u.failure = t.failure /\ u.phase = t.phase
  BY <1>5 DEF Operation
<1> HIDE DEF u
<1>8. Attempts(o, u, "complete") /\ Synced(o, u, "complete")
  BY <1>1, <1>3, <1>4, <1>6, <1>7 DEF Course, Attempts, Synced, s
<1>9. Cancels(o, u, "complete") /\ Verdict(o, u, "complete")
  BY <1>1, <1>4, <1>7 DEF Course, Cancels, Verdict, s
<1>10. op'[o] = u /\ pc'[o] = "complete"
  BY <1>2, Moved DEF s, t, b, u
<1> QED BY <1>8, <1>9, <1>10 DEF Course

\* The completion checkpoint: a saver keeps a refusal for later, an inspection raises it.
LEMMA CompleteCourse ==
  ASSUME CallsOK, NEW o \in Ops, Course(o, op[o], pc[o]), Complete(o)
  PROVE  Course(o, op'[o], pc'[o])
<1>1. op[o] \in Operation /\ Course(o, op[o], "complete")
  BY DEF CallsOK, CallOK, Complete, At
<1> DEFINE s == [op[o] EXCEPT !.completion_sampled = TRUE]
           t == [s EXCEPT !.phase = "return"]
<1>2. s \in Operation
  BY <1>1, Zenon DEF Operation
<1>3. t \in Operation
  BY <1>2, Zenon DEF Operation
<1>4. /\ s.attempted = op[o].attempted /\ s.linked = op[o].linked
      /\ s.visibility = op[o].visibility /\ s.sync_completed = op[o].sync_completed
      /\ s.fsyncs = op[o].fsyncs /\ s.settled = op[o].settled
      /\ s.link_failure = op[o].link_failure /\ s.deferred = op[o].deferred
      /\ s.cancel_requested = op[o].cancel_requested /\ s.failure = op[o].failure
      /\ s.phase = op[o].phase
      /\ s.close_failed = op[o].close_failed
  BY <1>1 DEF Operation
<1>5. /\ t.attempted = s.attempted /\ t.linked = s.linked /\ t.visibility = s.visibility
      /\ t.sync_completed = s.sync_completed /\ t.fsyncs = s.fsyncs /\ t.settled = s.settled
      /\ t.link_failure = s.link_failure /\ t.deferred = s.deferred
      /\ t.cancel_requested = s.cancel_requested /\ t.failure = s.failure
      /\ t.phase = "return"
  BY <1>2 DEF Operation
<1>6. IF o \in Savers THEN Checkpoint(o, s, s, "pubParent") ELSE Checkpoint(o, s, t, "pinned")
  BY DEF Complete
<1> HIDE DEF s, t
<1>7. CASE o \in Savers
  <2>1. op[o].attempted
    BY <1>1, <1>7 DEF Course, Attempts
  <2>2. Attempts(o, s, "pubParent") /\ Synced(o, s, "pubParent")
    BY <1>1, <1>4, <1>7, <2>1 DEF Course, Attempts, Synced
  <2>3. Cancels(o, s, "pubParent") /\ Verdict(o, s, "pubParent")
    BY <1>1, <1>4 DEF Course, Cancels, Verdict
  <2>4. Course(o, s, "pubParent") /\ s.attempted
    BY <1>4, <2>1, <2>2, <2>3 DEF Course
  <2> QED BY <1>2, <1>6, <1>7, <2>4, AttemptedCheckpoint
<1>8. CASE o \in Inspectors
  <2>1. Fresh(o, op[o]) /\ o \notin Savers
    BY <1>1, <1>8, EarlyCourse
  <2>2. Fresh(o, s)
    BY <1>4, <2>1, StillFresh DEF Fresh
  <2>3. Fresh(o, t)
    BY <1>5, <1>8, <2>2, StillFresh
  <2> QED BY <1>2, <1>3, <1>6, <2>1, <2>2, <2>3, FreshCheckpoint DEF Early
<1> QED BY <1>7, <1>8 DEF Ops

\* After publication, a path that changed is settled unless a failure is already.
LEMMA CheckPublishedCourse ==
  ASSUME CallsOK, NEW o \in Ops, Course(o, op[o], pc[o]),
         CheckPublishedParent(o) \/ CheckPublishedName(o)
  PROVE  Course(o, op'[o], pc'[o])
<1>1. /\ op[o] \in Operation /\ pc[o] \in {"pubParent", "pubName"} /\ Course(o, op[o], pc[o])
      /\ o \in Savers
  BY DEF CallsOK, CallOK, CheckPublishedParent, CheckPublishedName, At, Course, Attempts
<1>2. Course(o, op[o], "pubName") /\ Course(o, op[o], "conclude")
  <2>1. Attempts(o, op[o], "pubName") /\ Attempts(o, op[o], "conclude")
    BY <1>1 DEF Course, Attempts
  <2>2. Synced(o, op[o], "pubName") /\ Synced(o, op[o], "conclude")
    BY <1>1 DEF Course, Synced
  <2>3. Cancels(o, op[o], "pubName") /\ Cancels(o, op[o], "conclude")
    BY <1>1 DEF Course, Cancels
  <2> QED BY <2>1, <2>2, <2>3 DEF Course, Verdict
<1>3. ASSUME NEW next \in {"pubName", "conclude"}, Continue(o, op[o], next)
      PROVE  Course(o, op'[o], pc'[o])
  BY <1>2, <1>3, Moved
<1>4. ASSUME NEW code \in {"PUBLISHED_PATH_CHANGED", "CLOSE_FAILED"},
             Continue(o, KeepFirst(op[o], code), "conclude")
      PROVE  Course(o, op'[o], pc'[o])
  <2> DEFINE s == op[o]
             t == KeepFirst(s, code)
  <2>1. t.settled = IF s.settled = "none" THEN code ELSE s.settled
    BY <1>1 DEF KeepFirst, Operation
  <2>2. /\ t.attempted = s.attempted /\ t.linked = s.linked /\ t.visibility = s.visibility
        /\ t.sync_completed = s.sync_completed /\ t.fsyncs = s.fsyncs
        /\ t.link_failure = s.link_failure /\ t.deferred = s.deferred
        /\ t.cancel_requested = s.cancel_requested /\ t.failure = s.failure /\ t.phase = s.phase
    BY <1>1 DEF KeepFirst, Operation
  <2> HIDE DEF s, t
  <2>3. Attempts(o, t, "conclude")
    BY <1>1, <2>2 DEF Course, Attempts, s
  <2>4. Synced(o, t, "conclude")
    BY <1>1, <2>1, <2>2 DEF Course, Synced, s
  <2>5. Cancels(o, t, "conclude") /\ Verdict(o, t, "conclude")
    BY <1>1, <2>2 DEF Course, Cancels, Verdict, s
  <2>6. op'[o] = t /\ pc'[o] = "conclude"
    BY <1>4, Moved DEF s, t
  <2> QED BY <2>3, <2>4, <2>5, <2>6 DEF Course
<1>5. CASE CheckPublishedParent(o)
  BY <1>3, <1>4, <1>5 DEF CheckPublishedParent, ParentFailures
<1>6. CASE CheckPublishedName(o)
  BY <1>3, <1>4, <1>6 DEF CheckPublishedName
<1> QED BY <1>5, <1>6

\* The failure that outranks the others is the one that says what is not known.
LEMMA ConcludeCourse ==
  ASSUME CallsOK, NEW o \in Ops, Course(o, op[o], pc[o]), Conclude(o)
  PROVE  Course(o, op'[o], pc'[o])
<1>1. op[o] \in Operation /\ Course(o, op[o], "conclude") /\ o \in Savers
  BY DEF CallsOK, CallOK, Conclude, At, Course, Attempts
<1> DEFINE s == op[o]
           c == PublicationFailure(s)
           t == [s EXCEPT !.failure = c]
<1>2. /\ t.failure = c
      /\ t.attempted = s.attempted /\ t.linked = s.linked /\ t.visibility = s.visibility
      /\ t.sync_completed = s.sync_completed /\ t.fsyncs = s.fsyncs /\ t.settled = s.settled
      /\ t.link_failure = s.link_failure /\ t.deferred = s.deferred
      /\ t.cancel_requested = s.cancel_requested /\ t.phase = s.phase
  BY <1>1 DEF Operation
<1>3. /\ s.fsyncs < 2 \/ s.settled = "PUBLISHED_SYNC_UNCONFIRMED" =>
           c = "PUBLISHED_SYNC_UNCONFIRMED"
      
      /\ s.settled # "PUBLISHED_SYNC_UNCONFIRMED" =>
           c = (IF s.link_failure = "none" THEN s.settled ELSE s.link_failure)
  BY <1>1 DEF PublicationFailure, Course, Synced
<1>4. c \notin Cancellations
  BY <1>1, <1>3 DEF Course, Synced
<1>5. s.visibility = "uncertain" => s.link_failure = "PUBLICATION_UNCERTAIN"
  BY <1>1 DEF Course, Synced
<1> HIDE DEF s, c, t
<1>6. Attempts(o, t, "settle") /\ Synced(o, t, "settle")
  BY <1>1, <1>2 DEF Course, Attempts, Synced, s
<1>7. Cancels(o, t, "settle")
  BY <1>1, <1>2, <1>4 DEF Course, Cancels, s
<1>8. Verdict(o, t, "settle")
  <2>1. /\ s.attempted /\ s.visibility # "not_published"
        /\ s.visibility \in {"not_published", "published", "uncertain"}
    BY <1>1 DEF Course, Attempts, s, Operation
  <2>2. s.sync_completed <=> (s.fsyncs = 2 /\ s.visibility = "published")
    BY <1>1 DEF Course, Synced, s
  <2>3. s.fsyncs \in 0 .. 2
    BY <1>1 DEF Course, Synced, s
  <2>4. ~s.sync_completed => c \in Unsynchronized
    BY <1>3, <1>5, <2>1, <2>2, <2>3
  <2>5. s.visibility = "uncertain" => c # "none"
    BY <2>2, <2>4
  <2> QED BY <1>2, <1>4, <2>4, <2>5 DEF Verdict
<1>9. op'[o] = t /\ pc'[o] = "settle"
  BY Moved DEF Conclude, s, c, t
<1> QED BY <1>6, <1>7, <1>8, <1>9 DEF Course

\* The last sample of the callback, unless it was taken before.
LEMMA SettleCourse ==
  ASSUME CallsOK, NEW o \in Ops, Course(o, op[o], pc[o]), Settle(o)
  PROVE  Course(o, op'[o], pc'[o])
<1>1. op[o] \in Operation /\ Course(o, op[o], "settle")
  BY DEF CallsOK, CallOK, Settle, At
<1>2. Course(o, op[o], "release")
  BY <1>1 DEF Course, Attempts, Synced, Cancels, Verdict
<1>3. CASE Continue(o, op[o], "release")
  BY <1>2, <1>3, Moved
<1> DEFINE s == [op[o] EXCEPT !.completion_sampled = TRUE]
<1>4. s \in Operation
  BY <1>1, Zenon DEF Operation
<1>5. /\ s.attempted = op[o].attempted /\ s.linked = op[o].linked
      /\ s.visibility = op[o].visibility /\ s.sync_completed = op[o].sync_completed
      /\ s.fsyncs = op[o].fsyncs /\ s.settled = op[o].settled
      /\ s.link_failure = op[o].link_failure /\ s.deferred = op[o].deferred
      /\ s.cancel_requested = op[o].cancel_requested /\ s.failure = op[o].failure
      /\ s.phase = op[o].phase
      /\ s.close_failed = op[o].close_failed
  BY <1>1 DEF Operation
<1>6. ASSUME NEW r \in CallbackResults,
             Continue(o, [Answered(s, r) EXCEPT
                            !.failure = IF @ = "none" /\ Refused(s, r)
                                        THEN CheckpointCode(r) ELSE @], "release")
      PROVE  Course(o, op'[o], pc'[o])
  <2> DEFINE a == Answered(s, r)
             c == IF a.failure = "none" /\ Refused(s, r) THEN CheckpointCode(r) ELSE a.failure
             t == [a EXCEPT !.failure = c]
  <2>0. op'[o] = t /\ pc'[o] = "release"
    BY <1>6, Moved
  <2> HIDE DEF s
  <2>1. Course(o, s, "release")
    <3>1. Attempts(o, s, "release")
      BY <1>2, <1>5 DEF Course, Attempts, Unattempted
    <3>3. Synced(o, s, "release")
      BY <1>2, <1>5 DEF Course, Synced
    <3>2. Cancels(o, s, "release") /\ Verdict(o, s, "release")
      BY <1>2, <1>5 DEF Course, Cancels, Verdict
    <3> QED BY <3>1, <3>2, <3>3 DEF Course
  <2>2. a \in Operation
    BY <1>4, AnsweredFields
  <2>3. /\ t.failure = c
        /\ t.attempted = a.attempted /\ t.linked = a.linked /\ t.visibility = a.visibility
        /\ t.sync_completed = a.sync_completed /\ t.fsyncs = a.fsyncs /\ t.settled = a.settled
        /\ t.link_failure = a.link_failure /\ t.deferred = a.deferred
        /\ t.cancel_requested = a.cancel_requested /\ t.phase = a.phase
        /\ t.close_failed = a.close_failed
    BY <2>2 DEF Operation
  <2>4. CASE s.attempted
    <3>1. Course(o, a, "release")
      BY <1>4, <2>1, <2>4, AnsweredCourse
    <3>2. c = a.failure
      BY <2>4 DEF Refused
    <3> HIDE DEF a, c, t
    <3>3. Attempts(o, t, "release")
      BY <3>1, <2>3 DEF Course, Attempts, Unattempted
    <3>5. Synced(o, t, "release")
      BY <3>1, <2>3 DEF Course, Synced
    <3>4. Cancels(o, t, "release") /\ Verdict(o, t, "release")
      BY <3>1, <3>2, <2>3 DEF Course, Cancels, Verdict
    <3> QED BY <2>0, <3>3, <3>4, <3>5 DEF Course
  <2>5. CASE ~s.attempted
    <3>1. Unattempted(s) /\ (s.phase = "return" => o \in Inspectors)
      BY <2>1, <2>5 DEF Course, Attempts
    <3>2. /\ a.attempted = s.attempted /\ a.phase = s.phase /\ a.failure = s.failure
          /\ Unattempted(a)
      BY <1>4, <2>5, <3>1, AnsweredFields DEF Unattempted
    <3>3. a.cancel_requested = (s.cancel_requested \/ r = "true")
      BY <1>4, AnsweredFields
    <3>4. c = IF s.failure = "none" /\ r # "false" THEN CheckpointCode(r) ELSE s.failure
      BY <2>5, <3>2 DEF Refused
    <3>5. /\ s.failure = "CANCELLED" => s.cancel_requested
          /\ s.cancel_requested => s.failure # "none"
          /\ o \in Savers => s.failure # "none"
      BY <2>1, <3>1 DEF Course, Cancels, Verdict, Unattempted
    <3>6. /\ c = "CANCELLED" => a.cancel_requested
          /\ a.cancel_requested => c # "none"
          /\ o \in Savers => c # "none"
      BY <3>3, <3>4, <3>5 DEF CheckpointCode
    <3> HIDE DEF a, c, t
    <3>7. ~t.attempted /\ Unattempted(t) /\ (t.phase = "return" => o \in Inspectors)
      BY <2>3, <2>5, <3>1, <3>2 DEF Unattempted
    <3>8. Attempts(o, t, "release") /\ Synced(o, t, "release")
      BY <3>7 DEF Attempts, Synced, Unattempted
    <3>9. Cancels(o, t, "release") /\ Verdict(o, t, "release")
      BY <2>3, <3>6, <3>7 DEF Cancels, Verdict, Unattempted
    <3> QED BY <2>0, <3>8, <3>9 DEF Course
  <2> QED BY <2>4, <2>5
<1> QED BY <1>3, <1>6 DEF Settle

\* A failed cleanup replaces a cancellation, never what says that a file is in doubt.
LEMMA ReleaseCourse ==
  ASSUME CallsOK, NEW o \in Ops, Course(o, op[o], pc[o]), Release(o)
  PROVE  Course(o, op'[o], pc'[o])
<1>1. op[o] \in Operation /\ Course(o, op[o], "release")
  BY DEF CallsOK, CallOK, Release, At
<1>2. PICK closeFailed \in BOOLEAN :
        Continue(o, [op[o] EXCEPT !.failure = FinalFailure(op[o], closeFailed),
                                  !.close_failed = closeFailed, !.holding = FALSE], "done")
  BY DEF Release
<1> DEFINE s == op[o]
           c == FinalFailure(s, closeFailed)
           t == [s EXCEPT !.failure = c, !.close_failed = closeFailed, !.holding = FALSE]
<1>3. op'[o] = t /\ pc'[o] = "done"
  BY <1>2, Moved
<1>4. c = IF closeFailed /\ s.failure \in Cancellations \cup {"none"} THEN "CLOSE_FAILED"
          ELSE IF s.failure = "none" THEN s.deferred ELSE s.failure
  BY DEF FinalFailure
<1>5. /\ t.failure = c /\ t.close_failed = closeFailed
      /\ t.attempted = s.attempted /\ t.linked = s.linked /\ t.visibility = s.visibility
      /\ t.sync_completed = s.sync_completed /\ t.fsyncs = s.fsyncs /\ t.settled = s.settled
      /\ t.link_failure = s.link_failure /\ t.deferred = s.deferred
      /\ t.cancel_requested = s.cancel_requested /\ t.phase = s.phase
  BY <1>1 DEF Operation
<1> HIDE DEF s, c, t
<1>6. Attempts(o, t, "done")
  BY <1>1, <1>5 DEF Course, Attempts, Unattempted, s
<1>9. Synced(o, t, "done")
  BY <1>1, <1>5 DEF Course, Synced, s
<1>7. Cancels(o, t, "done")
  <2>1. c = "CANCELLED" => s.cancel_requested
    BY <1>1, <1>4 DEF Course, Cancels, s
  <2>2. s.cancel_requested => c # "none"
    BY <1>1, <1>4 DEF Course, Cancels, s
  <2> QED BY <1>1, <1>5, <2>1, <2>2 DEF Course, Cancels, s
<1>8. Verdict(o, t, "done")
  BY <1>1, <1>4, <1>5 DEF Course, Verdict, s
<1> QED BY <1>3, <1>6, <1>7, <1>8, <1>9 DEF Course

\* Wherever another exception leaves a call, nothing is reported of it any more.
LEMMA EscapeCourse ==
  ASSUME CallsOK, NEW o \in Ops, Course(o, op[o], pc[o]), Escape(o)
  PROVE  Course(o, op'[o], pc'[o])
<1>1. op[o] \in Operation
  BY DEF CallsOK
<1> DEFINE s == op[o]
           h == s.holding /\ pc[o] = "settle"
           t == [s EXCEPT !.holding = h]
<1>2. op'[o] = t /\ pc'[o] = "escaped"
  BY Moved DEF Escape
<1>3. /\ t.attempted = s.attempted /\ t.linked = s.linked /\ t.visibility = s.visibility
      /\ t.sync_completed = s.sync_completed /\ t.fsyncs = s.fsyncs /\ t.settled = s.settled
      /\ t.link_failure = s.link_failure /\ t.deferred = s.deferred
      /\ t.cancel_requested = s.cancel_requested /\ t.failure = s.failure /\ t.phase = s.phase
  BY <1>1 DEF Operation
<1> HIDE DEF s, t
<1>4. Attempts(o, t, "escaped")
  BY <1>3 DEF Course, Attempts, Unattempted, s
<1>6. Synced(o, t, "escaped")
  BY <1>3 DEF Course, Synced, s
<1>5. Cancels(o, t, "escaped") /\ Verdict(o, t, "escaped")
  BY <1>3 DEF Course, Cancels, Verdict, s
<1> QED BY <1>2, <1>4, <1>5, <1>6 DEF Course

-----------------------------------------------------------------------------
(* Every call keeps its course.                                            *)

\* Whatever a call does, it keeps its course.
LEMMA CallCourse ==
  ASSUME Inv, CallsOK', NEW o \in Ops, Course(o, op[o], pc[o]),
         LocalStep(o) \/ Link(o) \/ SyncParent(o) \/ Escape(o)
  PROVE  Course(o, op'[o], pc'[o])
BY AdmitCourse, WalkInCourse, PinCourse, LookCourse, ReadBlockCourse, CheckNameCourse,
   WalkOutCourse, WriteChunkCourse, SyncTemporaryCourse, LinkCourse, ObserveCourse,
   AfterLinkCourse, SyncFileCourse, SyncParentCourse, CompleteCourse, CheckPublishedCourse,
   ConcludeCourse, SettleCourse, ReleaseCourse, EscapeCourse
DEF LocalStep, Inv

\* A step of a call is one of its actions and moves no other call.
LEMMA OneCallMoves ==
  ASSUME CallsOK, NEW o \in Ops, LocalStep(o) \/ Link(o) \/ SyncParent(o) \/ Escape(o), TypeOK
  PROVE  \A p \in Ops : p # o => op'[p] = op[p] /\ pc'[p] = pc[p]
<1>1. PICK s \in Operation, l \in Labels : Continue(o, s, l)
  BY CallAdvances DEF Advances
<1> QED BY <1>1, Moved

\* A power loss takes nothing from a call but what it had written.
LEMMA PowerLossKeeps ==
  ASSUME CallsOK, PowerLoss, NEW o \in Ops
  PROVE  /\ pc'[o] = pc[o]
         /\ op'[o].attempted = op[o].attempted /\ op'[o].linked = op[o].linked
         /\ op'[o].visibility = op[o].visibility /\ op'[o].sync_completed = op[o].sync_completed
         /\ op'[o].fsyncs = op[o].fsyncs /\ op'[o].settled = op[o].settled
         /\ op'[o].link_failure = op[o].link_failure /\ op'[o].deferred = op[o].deferred
         /\ op'[o].cancel_requested = op[o].cancel_requested /\ op'[o].failure = op[o].failure
         /\ op'[o].phase = op[o].phase
         /\ op'[o].close_failed = op[o].close_failed /\ op'[o].raw = op[o].raw
         /\ op'[o].stamp = op[o].stamp /\ op'[o].pinned = op[o].pinned
         /\ op'[o].out_parent = op[o].out_parent
<1>1. op'[o] = op[o] \/ op'[o] = [op[o] EXCEPT !.written = op[o].synced]
  BY DEF PowerLoss
<1>2. op[o] \in Operation /\ pc'[o] = pc[o]
  BY DEF CallsOK, PowerLoss
<1>3. CASE op'[o] = [op[o] EXCEPT !.written = op[o].synced]
  BY <1>2, <1>3 DEF Operation
<1> QED BY <1>1, <1>2, <1>3

\* Calls start in course.
LEMMA InitCourses == Init => Courses
<1> SUFFICES ASSUME Init, NEW o \in Ops PROVE Course(o, op[o], pc[o])
  BY DEF Courses
<1>1. op[o] = NewOperation /\ pc[o] = "admit"
  BY DEF Init
<1>2. NewOperation \in Operation
  BY NewOperationTyped
<1>3. Fresh(o, NewOperation)
  BY DEF NewOperation, Fresh, Unattempted
<1> QED BY <1>1, <1>2, <1>3, EarlyCourse DEF Early

\* And no step, of a call or of another user, takes one off it.
LEMMA NextCourses == Inv /\ Courses /\ [Next]_vars => Courses'
<1> SUFFICES ASSUME Inv, Courses, [Next]_vars, NEW p \in Ops
             PROVE  Course(p, op'[p], pc'[p])
  BY DEF Courses
<1>1. CallsOK' /\ CallsOK /\ TypeOK /\ Course(p, op[p], pc[p])
  BY NextInv DEF Inv, Courses
<1>2. ASSUME NEW o \in Ops, LocalStep(o) \/ Link(o) \/ SyncParent(o) \/ Escape(o)
      PROVE  Course(p, op'[p], pc'[p])
  <2>1. CASE p = o
    BY <1>1, <1>2, <2>1, CallCourse
  <2>2. CASE p # o
    <3>1. op'[p] = op[p] /\ pc'[p] = pc[p]
      BY <1>1, <1>2, <2>2, OneCallMoves
    <3> QED BY <1>1, <3>1
  <2> QED BY <2>1, <2>2
<1>3. CASE PowerLoss
  <2> DEFINE s == op[p]
             t == op'[p]
  <2>1. /\ t.attempted = s.attempted /\ t.linked = s.linked /\ t.visibility = s.visibility
      /\ t.sync_completed = s.sync_completed /\ t.fsyncs = s.fsyncs /\ t.settled = s.settled
      /\ t.link_failure = s.link_failure /\ t.deferred = s.deferred
      /\ t.cancel_requested = s.cancel_requested /\ t.failure = s.failure /\ t.phase = s.phase
    BY <1>1, <1>3, PowerLossKeeps
  <2>2. pc'[p] = pc[p] /\ t.close_failed = s.close_failed
    BY <1>1, <1>3, PowerLossKeeps
  <2> HIDE DEF s, t
  <2>3. Attempts(p, t, pc[p])
    BY <1>1, <2>1 DEF Course, Attempts, Unattempted, s
  <2>4. Synced(p, t, pc[p])
    BY <1>1, <2>1 DEF Course, Synced, s
  <2>5. Cancels(p, t, pc[p]) /\ Verdict(p, t, pc[p])
    BY <1>1, <2>1, <2>2 DEF Course, Cancels, Verdict, s
  <2> QED BY <2>2, <2>3, <2>4, <2>5 DEF Course, t
<1>4. CASE UNCHANGED <<op, pc>>
  BY <1>1, <1>4
<1>5. CASE Environment
  BY <1>3, <1>4, <1>5
  DEF Environment, EditSource, ReplaceSource, ReplaceDestination, RebindParents
<1> QED BY <1>2, <1>4, <1>5 DEF Next, OpStep, Stopped, vars

\* What is known of every call: what is on the disk, and what it still has to tell.
Settled == Inv /\ Courses

\* The course of every call is an invariant of the host.
THEOREM CoursesInvariance == Spec => []Settled
<1>1. Init => Settled
  BY InitInv, InitCourses DEF Settled
<1>2. Settled /\ [Next]_vars => Settled'
  BY NextInv, NextCourses DEF Settled
<1> QED BY <1>1, <1>2, PTL DEF Spec

\* What a returned call reports of visibility and synchronization is what happened.
THEOREM ReportsTruthful == Spec => []TruthfulReport
<1>1. Settled => TruthfulReport
  BY DEF Settled, Courses, Course, Attempts, Synced, Verdict, TruthfulReport
<1> QED BY <1>1, CoursesInvariance, PTL

\* A save that returns its path has published, synchronized and cleaned up, and no
\* call that returns has lost a refusal or a failed cleanup.
THEOREM ReturnedSavesAreSaved == Spec => []SuccessMeansSaved
<1> SUFFICES Settled => SuccessMeansSaved
  BY CoursesInvariance, PTL
<1> SUFFICES ASSUME Settled, NEW o \in Ops, pc[o] = "done", op[o].failure = "none"
             PROVE  /\ o \in Savers => op[o].linked /\ op[o].sync_completed
                    /\ ~op[o].cancel_requested /\ op[o].deferred = "none" /\ ~op[o].close_failed
  BY DEF SuccessMeansSaved
<1>1. Course(o, op[o], "done")
  BY DEF Settled, Courses
<1>2. o \in Savers => op[o].sync_completed
  BY <1>1 DEF Course, Verdict
<1>3. op[o].sync_completed => op[o].linked
  BY <1>1 DEF Course, Attempts, Synced
<1>4. ~op[o].cancel_requested
  BY <1>1 DEF Course, Cancels
<1>5. op[o].deferred = "none" /\ ~op[o].close_failed
  BY <1>1 DEF Course, Verdict
<1> QED BY <1>2, <1>3, <1>4, <1>5

\* A cancellation is reported after the link only when both synchronizations are
\* acknowledged, and never in place of a failed cleanup.
THEOREM CancellationsSettled == Spec => []CancellationSettled
<1>1. Settled => CancellationSettled
  <2> SUFFICES ASSUME Settled, NEW o \in Ops, pc[o] = "done", op[o].failure \in Cancellations
               PROVE  (op[o].linked => op[o].sync_completed) /\ ~op[o].close_failed
    BY DEF CancellationSettled
  <2>1. Course(o, op[o], "done")
    BY DEF Settled, Courses
  <2> QED BY <2>1 DEF Course, Verdict
<1> QED BY <1>1, CoursesInvariance, PTL

\* A publication that is not known to be synchronized is reported as exactly that.
THEOREM UnsynchronizedReported == Spec => []SyncFailureWins
<1>1. Settled => SyncFailureWins
  <2> SUFFICES ASSUME Settled, NEW o \in Savers, pc[o] = "done", op[o].linked,
                      ~op[o].sync_completed
               PROVE  op[o].failure \in Unsynchronized
    BY DEF SyncFailureWins
  <2>1. Course(o, op[o], "done")
    BY DEF Settled, Courses, Ops
  <2> QED BY <2>1 DEF Course, Verdict
<1> QED BY <1>1, CoursesInvariance, PTL
===============================================================================
