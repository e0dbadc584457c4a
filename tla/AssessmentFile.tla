---------------------------- MODULE AssessmentFile ----------------------------
(***************************************************************************)
(* The selected-file workflow of faultatlas/assessment_file.py: any number *)
(* of concurrent calls of save_assessment_as_new (Savers) and of           *)
(* inspect_assessment_file (Inspectors), the file system they run on, and  *)
(* the other users of that file system.                                    *)
(*                                                                         *)
(* Every call has selected the same input path and every saver the same    *)
(* output path, which is the case in which they can disturb each other.    *)
(* A step of a call is one observation or one effect on state it shares    *)
(* (plus the private work up to the next one).  The bytes of a file are    *)
(* abstracted to the version they come from, block k of the input being    *)
(* the version it was read from, and the canonical output is OutBlocks     *)
(* blocks computed from what was read.  The calls never see a version:     *)
(* they see its size and the tick of the clock in which it was written,    *)
(* and two edits within one tick may agree in both.                        *)
(***************************************************************************)
EXTENDS Naturals, Sequences

CONSTANTS
  Savers,          \* calls of save_assessment_as_new; also names their temporary inode
  Inspectors,      \* calls of inspect_assessment_file
  Dirs,            \* directory inodes the two selected parents can be bound to
  Sources,         \* inodes the selected input name can be bound to
  None,            \* no inode under a name
  Foreign,         \* an inode another program put under the output name
  Sizes,           \* sizes the input may have, in blocks of at most _BLOCK bytes
  OutBlocks,       \* write progress units of the canonical output
  CallbackResults, \* what the caller's cancelled() may do: "false", "true", "bad"
  CodecFailures,   \* codes _codec and _view may fail with
  MaxInterference  \* bound on the steps of other users of the file system

Ops == Savers \cup Inspectors

Codes == {"INVALID_ARGUMENT", "INVALID_PATH", "UNSUPPORTED_PLATFORM", "UNSAFE_INPUT",
          "INPUT_CHANGED", "OUTPUT_PARENT_CHANGED", "INVALID_ENCODING", "INVALID_JSON",
          "UNSUPPORTED_FORMAT", "UNSUPPORTED_VERSION", "INVALID_ASSESSMENT",
          "RESOURCE_LIMIT", "DESTINATION_EXISTS", "IO_ERROR", "PUBLICATION_UNCERTAIN",
          "PUBLISHED_SYNC_UNCONFIRMED", "PUBLISHED_PATH_CHANGED", "CLOSE_FAILED",
          "CANCELLED", "CANCEL_CHECK_FAILED"}

\* What _codec and _view raise.
CodecCodes == {"INVALID_ENCODING", "INVALID_JSON", "UNSUPPORTED_FORMAT", "UNSUPPORTED_VERSION",
               "INVALID_ASSESSMENT", "RESOURCE_LIMIT"}

ASSUME OpsAssumption == Savers \cap Inspectors = {}
ASSUME InodeAssumption == /\ None \notin Savers \cup Sources
                          /\ Foreign \notin Savers \cup {None}
ASSUME BoundAssumption == /\ Sizes \subseteq Nat
                          /\ OutBlocks \in Nat \ {0}
                          /\ MaxInterference \in Nat
ASSUME AnswerAssumption == /\ CallbackResults \subseteq {"false", "true", "bad"}
                           /\ CodecFailures \subseteq CodecCodes

VARIABLES
  inDir, outDir,  \* the directories the two selected parent paths are bound to
  src,            \* src[d]: the inode under the selected input name in directory d
  dst,            \* dst[d]: the inode under the selected output name in directory d
  content,        \* content[i]: the version of source inode i that is there now
  stable,         \* stable[d]: the part of dst[d] an fsync of d acknowledged
  up,             \* FALSE once the host has lost power
  meddled,        \* steps other users of the file system have taken
  disturbed,      \* history: o's input was edited before its last check, in a later tick
  hidden,         \* history: o's input was edited while it was read, under the same stamp
  pc,             \* pc[o]: where call o is in _perform
  op              \* op[o]: the _Operation of call o and the locals of _perform

fs == <<inDir, outDir, src, dst, content, stable, up, meddled, disturbed, hidden>>
vars == <<inDir, outDir, src, dst, content, stable, up, meddled, disturbed, hidden, pc, op>>

Labels == {"admit", "walkIn", "pin", "qualify", "read", "pinned", "binding", "name",
           "decode", "walkOut", "prepare", "write", "outBinding", "link", "observe",
           "afterLink", "syncFile", "syncParent", "complete", "pubParent", "pubName",
           "conclude", "settle", "release", "done", "escaped"}

\* What a call keeps for its end once publication was attempted.
Deferrable == {"none", "CANCELLED", "CANCEL_CHECK_FAILED", "PUBLICATION_UNCERTAIN",
               "CLOSE_FAILED"}

\* A version of a file: the edit that made it, and what fstat tells of it, the tick
\* both its timestamps have and its size.
Version == [edit: Nat, tick: Nat, size: Nat]

Operation ==
  [visibility: {"not_published", "published", "uncertain"},
   sync_completed: BOOLEAN, cancel_requested: BOOLEAN, attempted: BOOLEAN,
   completion_sampled: BOOLEAN, deferred: Deferrable,
   holding: BOOLEAN,                     \* descriptors is not empty
   failure: Codes \cup {"none"},         \* failure, link_failure of _perform
   link_failure: Codes \cup {"none"},
   settled: Codes \cup {"none"},         \* failure of _post_link
   close_failed: BOOLEAN,                \* close_failure of _perform is not None
   phase: {"read", "link", "return"},    \* which call of _input_binding is running
   in_parent: Dirs \cup {None},          \* parent_identity
   pinned: Sources \cup {None}, stamp: Version,
   raw: Seq(Version),                    \* the blocks read so far
   out_parent: Dirs \cup {None},         \* output_parent_identity
   written: 0 .. OutBlocks,              \* units written and units an fsync acknowledged
   synced: 0 .. OutBlocks,
   fsyncs: Nat,                          \* successes of _post_link
   linked: BOOLEAN]                      \* history: the link took effect

NewOperation ==
  [visibility |-> "not_published", sync_completed |-> FALSE, cancel_requested |-> FALSE,
   attempted |-> FALSE, completion_sampled |-> FALSE, deferred |-> "none",
   holding |-> FALSE, failure |-> "none", link_failure |-> "none", settled |-> "none",
   close_failed |-> FALSE, phase |-> "read", in_parent |-> None, pinned |-> None,
   stamp |-> [edit |-> 0, tick |-> 0, size |-> 0], raw |-> <<>>,
   out_parent |-> None, written |-> 0, synced |-> 0,
   fsyncs |-> 0, linked |-> FALSE]

Init ==
  /\ inDir \in Dirs /\ outDir \in Dirs
  /\ src \in [Dirs -> Sources \cup {None}]
  /\ dst \in [Dirs -> {Foreign, None}]
  /\ content \in [Sources -> {[edit |-> 0, tick |-> 0, size |-> n] : n \in Sizes}]
  /\ stable = dst
  /\ up = TRUE
  /\ meddled = 0
  /\ disturbed = [o \in Ops |-> FALSE]
  /\ hidden = [o \in Ops |-> FALSE]
  /\ pc = [o \in Ops |-> "admit"]
  /\ op = [o \in Ops |-> NewOperation]

-----------------------------------------------------------------------------
(* Control flow shared by the steps of a call.                             *)

At(o, label) == up /\ pc[o] = label

Continue(o, s, next) == /\ op' = [op EXCEPT ![o] = s]
                        /\ pc' = [pc EXCEPT ![o] = next]

\* An AssessmentFileError, or an OSError turned into one, leaves the try block.
Raise(o, s, code) == Continue(o, [s EXCEPT !.failure = code], "settle")

RaiseAny(o, codes) == \E code \in codes : Raise(o, op[o], code)

\* _checkpoint: the state after the callback answered r.  Once publication was
\* attempted a refusal is kept for the end instead of being raised.
CheckpointCode(r) == IF r = "true" THEN "CANCELLED" ELSE "CANCEL_CHECK_FAILED"

Answered(s, r) ==
  [s EXCEPT !.cancel_requested = @ \/ r = "true",
            !.deferred = IF r # "false" /\ s.attempted /\ @ \in {"none", "CANCELLED"}
                         THEN CheckpointCode(r) ELSE @]

RefusedAnyTime(s, r) == r # "false"                     \* mutant: also after the link
RefusedIfBroken(s, r) == r = "bad" /\ ~s.attempted      \* mutant: a request only noted
Refused(s, r) == r # "false" /\ ~s.attempted

\* A checkpoint reached in state s, followed when it passes by work that leads to t.
Checkpoint(o, s, t, next) ==
  \E r \in CallbackResults :
    IF Refused(s, r) THEN Raise(o, Answered(s, r), CheckpointCode(r))
                     ELSE Continue(o, Answered(t, r), next)

-----------------------------------------------------------------------------
(* Intake: select, pin, read and recheck the input.                        *)

\* _perform up to _platform: the arguments, the start checkpoint, the platform.
\* The callback is only installed, and so sampled, once the arguments are valid.
Admit(o) ==
  /\ At(o, "admit")
  /\ \/ \E code \in {"INVALID_ARGUMENT", "INVALID_PATH"} :
          Continue(o, [op[o] EXCEPT !.failure = code, !.completion_sampled = TRUE], "release")
     \/ Checkpoint(o, op[o], op[o], "walkIn")
     \/ RaiseAny(o, {"UNSUPPORTED_PLATFORM"})

\* A walk that fails may do so before it owns its first descriptor, but only at an open.
WalkFails(o, codes) ==
  \E code \in codes, held \in BOOLEAN :
    /\ code # "IO_ERROR" \/ op[o].holding => held
    /\ Raise(o, [op[o] EXCEPT !.holding = held], code)

WalkIn(o) ==
  /\ At(o, "walkIn")
  /\ \/ Continue(o, [op[o] EXCEPT !.in_parent = inDir, !.holding = TRUE], "pin")
     \/ WalkFails(o, {"UNSAFE_INPUT", "IO_ERROR", "CLOSE_FAILED"})

Pin(o) ==
  LET i == src[op[o].in_parent] IN
  /\ At(o, "pin")
  /\ \/ /\ i # None
        /\ Continue(o, [op[o] EXCEPT !.pinned = i, !.stamp = content[i]], "qualify")
     \/ i # None /\ RaiseAny(o, {"UNSAFE_INPUT"})
     \/ RaiseAny(o, {"IO_ERROR"})

\* _ext4 reads two fixed files of /proc and only goes on when it finds ext4 there.
Ext4Failures == {"UNSUPPORTED_PLATFORM", "IO_ERROR", "CLOSE_FAILED"}

\* _ext4 of the pinned file, the reopen through /proc/self/fd and the size check.
Qualify(o) ==
  /\ At(o, "qualify")
  /\ \/ Checkpoint(o, op[o], op[o], "read")
     \/ RaiseAny(o, Ext4Failures \cup {"INPUT_CHANGED", "RESOURCE_LIMIT"})

\* One iteration of _bounded_read.
ReadBlock(o) ==
  /\ At(o, "read") /\ Len(op[o].raw) < content[op[o].pinned].size
  /\ \/ Checkpoint(o, op[o], [op[o] EXCEPT !.raw = Append(@, content[op[o].pinned])], "read")
     \/ RaiseAny(o, {"IO_ERROR"})

\* The iteration that reads nothing, and the close of the reader.
EndRead(o) ==
  /\ At(o, "read") /\ Len(op[o].raw) >= content[op[o].pinned].size
  /\ \/ Checkpoint(o, op[o], op[o], "pinned")
     \/ RaiseAny(o, {"IO_ERROR", "RESOURCE_LIMIT", "CLOSE_FAILED"})

\* _input_binding looks at the pinned inode, at the parent and at the name in turn,
\* and compares device, inode, size and the two timestamps.
SameStamp(v, w) == v.tick = w.tick /\ v.size = w.size

IdentityIs(s, i) == i = s.pinned                        \* mutant: dev and inode only
TimesAre(s, i) == i = s.pinned /\ content[i].tick = s.stamp.tick     \* mutant: no size
StampIs(s, i) == i = s.pinned /\ SameStamp(content[i], s.stamp)

\* _parent_binding walks the path again; whatever stops it becomes one code.
ParentFailures(code) == {code, "CLOSE_FAILED"}

CheckPinned(o) ==
  /\ At(o, "pinned")
  /\ \/ StampIs(op[o], op[o].pinned) /\ Continue(o, op[o], "binding")
     \/ ~StampIs(op[o], op[o].pinned) /\ RaiseAny(o, {"INPUT_CHANGED"})
     \/ RaiseAny(o, {"IO_ERROR"})

CheckParent(o) ==
  /\ At(o, "binding")
  /\ \/ inDir = op[o].in_parent /\ Continue(o, op[o], "name")
     \/ RaiseAny(o, ParentFailures("INPUT_CHANGED"))

AfterBinding(s) == CASE s.phase = "read"   -> "decode"
                     [] s.phase = "link"   -> "outBinding"
                     [] s.phase = "return" -> "settle"

CheckName(o) ==
  LET i == src[op[o].in_parent] IN
  /\ At(o, "name")
  /\ \/ i # None /\ StampIs(op[o], i) /\ Continue(o, op[o], AfterBinding(op[o]))
     \/ RaiseAny(o, {"INPUT_CHANGED", "IO_ERROR", "CLOSE_FAILED"})

\* _codec and the complete views; whether the bytes decode is left open.
Decode(o) ==
  /\ At(o, "decode")
  /\ \/ Continue(o, op[o], IF o \in Savers THEN "walkOut" ELSE "complete")
     \/ RaiseAny(o, CodecFailures)

-----------------------------------------------------------------------------
(* Saving: prepare an unnamed file, recheck, link it once, synchronize.    *)

WalkOut(o) ==
  /\ At(o, "walkOut")
  /\ \/ Continue(o, [op[o] EXCEPT !.out_parent = outDir], "prepare")
     \/ WalkFails(o, {"UNSAFE_INPUT", "IO_ERROR", "CLOSE_FAILED"})

\* _ext4 and reopen of the destination parent, the O_TMPFILE inode, fchmod.
Prepare(o) ==
  /\ At(o, "prepare")
  /\ \/ Checkpoint(o, op[o], op[o], "write")
     \/ RaiseAny(o, Ext4Failures \cup {"OUTPUT_PARENT_CHANGED"})

\* One write; it may be short, and one without progress is an error.
ProgressFromStart(s) == (s.written + 1) .. (s.written + OutBlocks)  \* mutant: no slice
Progress(s) == (s.written + 1) .. OutBlocks

WriteChunk(o) ==
  /\ At(o, "write") /\ op[o].written < OutBlocks
  /\ \/ \E n \in Progress(op[o]) :
          Checkpoint(o, op[o], [op[o] EXCEPT !.written = n], "write")
     \/ RaiseAny(o, {"IO_ERROR"})

\* The fsync of the complete file and the before_link checkpoint; what follows is
\* the last _input_binding.
Unflushed(s) == s                                       \* mutant: no fsync before the link
Flushed(s) == [s EXCEPT !.synced = s.written]

NoRecheck == "outBinding"                               \* mutant: checked after reading only
LastRecheck == "pinned"

SyncTemporary(o) ==
  /\ At(o, "write") /\ op[o].written = OutBlocks
  /\ \/ LET s == Flushed(op[o])
        IN  Checkpoint(o, s, [s EXCEPT !.phase = "link"], LastRecheck)
     \/ RaiseAny(o, {"IO_ERROR"})

CheckOutParent(o) ==
  /\ At(o, "outBinding")
  /\ \/ outDir = op[o].out_parent /\ Continue(o, op[o], "link")
     \/ RaiseAny(o, ParentFailures("OUTPUT_PARENT_CHANGED"))

\* linkat(2): the name is made only where there is none.
LinkReplaces(o) == dst' = [dst EXCEPT ![op[o].out_parent] = o]      \* mutant: rename
LinkTakesEffect(o) == /\ dst[op[o].out_parent] = None
                      /\ dst' = [dst EXCEPT ![op[o].out_parent] = o]

\* After EIO or EINTR it is open whether the link took effect.
Unsuspecting(s) == s                                    \* mutant: as every other errno
Ambiguous(s) == [s EXCEPT !.visibility = "uncertain"]

Link(o) ==
  LET s == [op[o] EXCEPT !.attempted = TRUE] IN
  /\ At(o, "link")
  /\ \/ /\ LinkTakesEffect(o)
        /\ \/ Continue(o, [s EXCEPT !.visibility = "published", !.linked = TRUE], "afterLink")
           \/ Continue(o, [Ambiguous(s) EXCEPT !.linked = TRUE], "observe")
     \/ /\ UNCHANGED dst
        /\ \/ dst[op[o].out_parent] # None /\ Raise(o, s, "DESTINATION_EXISTS")
           \/ \E code \in {"UNSUPPORTED_PLATFORM", "IO_ERROR"} : Raise(o, s, code)
           \/ Continue(o, Ambiguous(s), "observe")

\* After an ambiguous link: does the selected name identify the temporary inode?
LinkAgain(o) ==                                         \* mutant: simply retry
  /\ At(o, "observe")
  /\ Continue(o, op[o], "link")

ObserveAndRetry(o) ==                                   \* mutant: link until it is seen
  /\ At(o, "observe")
  /\ Continue(o, op[o], IF dst[op[o].out_parent] = o THEN "afterLink" ELSE "link")

AnyInode(o, found) == TRUE                              \* mutant: the name merely exists
OwnInode(o, found) == found = o

Observe(o) ==
  LET found  == dst[op[o].out_parent]
      seen   == [op[o] EXCEPT !.visibility = IF OwnInode(o, found) THEN "published" ELSE @,
                              !.link_failure = IF OwnInode(o, found) THEN "IO_ERROR"
                                               ELSE "PUBLICATION_UNCERTAIN"]
      failed == [op[o] EXCEPT !.deferred = "PUBLICATION_UNCERTAIN",
                              !.link_failure = "PUBLICATION_UNCERTAIN"]
  IN
  /\ At(o, "observe")
  /\ \/ /\ found # None
        /\ \/ Continue(o, seen, "afterLink")
           \/ Continue(o, [seen EXCEPT !.deferred = "CLOSE_FAILED"], "afterLink")
     \/ Continue(o, failed, "afterLink")

AfterLink(o) == At(o, "afterLink") /\ Checkpoint(o, op[o], op[o], "syncFile")

\* _post_link synchronizes the file, then the directory whatever became of the file.
KeepFirst(s, code) == [s EXCEPT !.settled = IF @ = "none" THEN code ELSE @]

Synchronized(s, ok) ==
  IF ok THEN [s EXCEPT !.fsyncs = @ + 1] ELSE KeepFirst(s, "PUBLISHED_SYNC_UNCONFIRMED")

SyncStarted(s) == s.fsyncs > 0 /\ s.visibility = "published"  \* mutant: either is enough
SyncCompleted(s) == s.fsyncs = 2 /\ s.visibility = "published"

SyncFile(o) == /\ At(o, "syncFile")
               /\ \E ok \in BOOLEAN : Continue(o, Synchronized(op[o], ok), "syncParent")

SyncParent(o) ==
  /\ At(o, "syncParent")
  /\ \E ok \in BOOLEAN :
       LET s == Synchronized(op[o], ok) IN
       /\ stable' = IF ok THEN [stable EXCEPT ![op[o].out_parent] = dst[op[o].out_parent]]
                          ELSE stable
       /\ Continue(o, [s EXCEPT !.sync_completed = SyncCompleted(s)], "complete")

\* The completion checkpoint; an inspection then rechecks its input once more.
CompleteAtOnce(o) ==                                    \* mutant: no recheck before returning
  LET s == [op[o] EXCEPT !.completion_sampled = TRUE] IN
  At(o, "complete") /\ Checkpoint(o, s, s, IF o \in Savers THEN "pubParent" ELSE "settle")

Complete(o) ==
  LET s == [op[o] EXCEPT !.completion_sampled = TRUE] IN
  /\ At(o, "complete")
  /\ IF o \in Savers THEN Checkpoint(o, s, s, "pubParent")
                     ELSE Checkpoint(o, s, [s EXCEPT !.phase = "return"], "pinned")

\* The selected parent and name are looked up again after publication.
CheckPublishedParent(o) ==
  /\ At(o, "pubParent")
  /\ \/ outDir = op[o].out_parent /\ Continue(o, op[o], "pubName")
     \/ \E code \in ParentFailures("PUBLISHED_PATH_CHANGED") :
          Continue(o, KeepFirst(op[o], code), "conclude")

CheckPublishedName(o) ==
  /\ At(o, "pubName")
  /\ \/ dst[op[o].out_parent] = o /\ Continue(o, op[o], "conclude")
     \/ \E code \in {"PUBLISHED_PATH_CHANGED", "CLOSE_FAILED"} :
          Continue(o, KeepFirst(op[o], code), "conclude")

\* A synchronization failure outranks the link failure, which outranks the rest.
LinkFailureFirst(s) ==                                  \* mutant: the earliest failure
  IF s.link_failure = "none" THEN s.settled ELSE s.link_failure

PublicationFailure(s) ==
  IF s.settled = "PUBLISHED_SYNC_UNCONFIRMED" \/ s.link_failure = "none"
  THEN s.settled ELSE s.link_failure

Conclude(o) == /\ At(o, "conclude")
               /\ Continue(o, [op[o] EXCEPT !.failure = PublicationFailure(op[o])], "settle")

-----------------------------------------------------------------------------
(* The end of every call.                                                  *)

\* Sample the callback once at completion, also when the try block was left early.
Settle(o) ==
  LET s == [op[o] EXCEPT !.completion_sampled = TRUE] IN
  /\ At(o, "settle")
  /\ IF op[o].completion_sampled
     THEN Continue(o, op[o], "release")
     ELSE \E r \in CallbackResults :
            Continue(o, [Answered(s, r) EXCEPT
                           !.failure = IF @ = "none" /\ Refused(s, r)
                                       THEN CheckpointCode(r) ELSE @], "release")

\* A failed close is reported unless an earlier failure other than cancellation is.
PromptFailure(s, closeFailed) ==                        \* mutant: what was deferred is lost
  IF closeFailed /\ s.failure = "none" THEN "CLOSE_FAILED" ELSE s.failure

FinalFailure(s, closeFailed) ==
  LET primary == IF closeFailed /\ s.failure \in {"none", "CANCELLED", "CANCEL_CHECK_FAILED"}
                 THEN "CLOSE_FAILED" ELSE s.failure
  IN  IF primary = "none" THEN s.deferred ELSE primary

Release(o) ==
  /\ At(o, "release")
  /\ \E closeFailed \in BOOLEAN :
       /\ closeFailed => op[o].holding
       /\ Continue(o, [op[o] EXCEPT !.failure = FinalFailure(op[o], closeFailed),
                                    !.close_failed = closeFailed,
                                    !.holding = FALSE], "done")

\* An exception that is no AssessmentFileError or OSError leaves without a report;
\* the try block closes what it owns first, the sample after it does not.
Escape(o) ==
  /\ up /\ pc[o] \notin {"release", "done", "escaped"}
  /\ pc[o] = "settle" => ~op[o].completion_sampled
  /\ Continue(o, [op[o] EXCEPT !.holding = @ /\ pc[o] = "settle"], "escaped")

LocalStep(o) ==
  \/ Admit(o) \/ WalkIn(o) \/ Pin(o) \/ Qualify(o) \/ ReadBlock(o) \/ EndRead(o)
  \/ CheckPinned(o) \/ CheckParent(o) \/ CheckName(o) \/ Decode(o)
  \/ WalkOut(o) \/ Prepare(o) \/ WriteChunk(o) \/ SyncTemporary(o) \/ CheckOutParent(o)
  \/ Observe(o) \/ AfterLink(o) \/ SyncFile(o) \/ Complete(o)
  \/ CheckPublishedParent(o) \/ CheckPublishedName(o) \/ Conclude(o)
  \/ Settle(o) \/ Release(o)

OpStep(o) ==
  \/ LocalStep(o) /\ UNCHANGED fs
  \/ Link(o) /\ UNCHANGED <<inDir, outDir, src, content, stable, up, meddled, disturbed, hidden>>
  \/ SyncParent(o) /\ UNCHANGED <<inDir, outDir, src, dst, content, up, meddled, disturbed, hidden>>

-----------------------------------------------------------------------------
(* The rest of the host: other users of the same files, and power.         *)

Meddle == up /\ meddled < MaxInterference /\ meddled' = meddled + 1

\* Before its last look at the pinned inode a call can still notice an edit.
StillChecking(o) ==
  \/ pc[o] \in {"qualify", "read", "decode", "walkOut", "prepare", "write"}
  \/ pc[o] \in {"pinned", "binding", "name"}
  \/ pc[o] = "complete" /\ o \in Inspectors

StillReading(o) ==
  pc[o] \in {"qualify", "read", "pinned", "binding", "name"} /\ op[o].phase = "read"

\* Version v of inode i is later than what o pinned, or looks the same to o.
Disturbs(o, i, v) == op[o].pinned = i /\ v.tick > op[o].stamp.tick /\ StillChecking(o)
Hides(o, i, v) == op[o].pinned = i /\ SameStamp(v, op[o].stamp) /\ StillReading(o)

\* An edit, in the tick of the edit before it or in the next one.
EditSource(i) ==
  /\ Meddle
  /\ \E tick \in {content[i].tick, content[i].tick + 1}, size \in Sizes :
       LET v == [edit |-> content[i].edit + 1, tick |-> tick, size |-> size] IN
       /\ content' = [content EXCEPT ![i] = v]
       /\ disturbed' = [o \in Ops |-> disturbed[o] \/ Disturbs(o, i, v)]
       /\ hidden' = [o \in Ops |-> hidden[o] \/ Hides(o, i, v)]
  /\ UNCHANGED <<inDir, outDir, src, dst, stable, up, pc, op>>

ReplaceSource(d) ==
  /\ Meddle
  /\ \E i \in Sources \cup {None} : src' = [src EXCEPT ![d] = i]
  /\ UNCHANGED <<inDir, outDir, dst, content, stable, up, disturbed, hidden, pc, op>>

RebindParents ==
  /\ Meddle
  /\ inDir' \in Dirs /\ outDir' \in Dirs
  /\ UNCHANGED <<src, dst, content, stable, up, disturbed, hidden, pc, op>>

ReplaceDestination(d) ==
  /\ Meddle
  /\ \E i \in {Foreign, None} : dst' = [dst EXCEPT ![d] = i]
  /\ UNCHANGED <<inDir, outDir, src, content, stable, up, disturbed, hidden, pc, op>>

\* What no fsync acknowledged may or may not be on the disk after a power loss.
PowerLoss ==
  /\ up /\ up' = FALSE
  /\ \E kept \in SUBSET Dirs : dst' = [d \in Dirs |-> IF d \in kept THEN dst[d] ELSE stable[d]]
  /\ \E lost \in SUBSET Ops :
       op' = [o \in Ops |-> IF o \in lost THEN [op[o] EXCEPT !.written = op[o].synced]
                                          ELSE op[o]]
  /\ UNCHANGED <<inDir, outDir, src, content, stable, meddled, disturbed, hidden, pc>>

Returned == \A o \in Ops : pc[o] \in {"done", "escaped"}

Stopped == (~up \/ Returned) /\ UNCHANGED vars

Environment ==
  \/ \E i \in Sources : EditSource(i)
  \/ \E d \in Dirs : ReplaceSource(d) \/ ReplaceDestination(d)
  \/ RebindParents
  \/ PowerLoss

Next ==
  \/ \E o \in Ops : OpStep(o) \/ (Escape(o) /\ UNCHANGED fs)
  \/ Environment
  \/ Stopped

Spec == Init /\ [][Next]_vars

\* The interpreter keeps running every call until it returns.
FairSpec == Spec /\ \A o \in Ops : WF_vars(OpStep(o))

-----------------------------------------------------------------------------
(* What must hold.                                                         *)

\* Every variable keeps its type; a saver's name is its temporary inode.
TypeOK ==
  /\ inDir \in Dirs /\ outDir \in Dirs
  /\ src \in [Dirs -> Sources \cup {None}]
  /\ dst \in [Dirs -> Savers \cup {Foreign, None}]
  /\ content \in [Sources -> Version]
  /\ stable \in [Dirs -> Savers \cup {Foreign, None}]
  /\ up \in BOOLEAN
  /\ meddled \in Nat
  /\ disturbed \in [Ops -> BOOLEAN]
  /\ hidden \in [Ops -> BOOLEAN]
  /\ pc \in [Ops -> Labels]
  /\ op \in [Ops -> Operation]

\* What a call decodes, publishes or reports on was its input in the tick it was
\* pinned in, and is one version of it from end to end unless an edit during the
\* reading left both size and tick as they were.  That much of a snapshot the rechecks
\* give although nothing stops an edit between two blocks of _bounded_read.
SnapshotConsistent ==
  \A o \in Ops :
    pc[o] \in {"decode", "walkOut", "prepare", "write", "complete"} \/ op[o].linked =>
      /\ \A k \in DOMAIN op[o].raw : op[o].raw[k].tick = op[o].stamp.tick
      /\ ~hidden[o] => /\ Len(op[o].raw) = op[o].stamp.size
                       /\ \A k \in DOMAIN op[o].raw : op[o].raw[k] = op[o].stamp

\* A file under the output name is whole, before and after a power loss: the name
\* is only made for a temporary that was written and synchronized completely.
PublishedComplete ==
  \A d \in Dirs : \A o \in Savers : dst[d] = o => op[o].written = OutBlocks

\* What a returned call reports of visibility and synchronization is what happened.
TruthfulReport ==
  \A o \in Ops : pc[o] = "done" =>
    /\ op[o].visibility = "published" => op[o].linked
    /\ op[o].visibility = "not_published" => ~op[o].linked
    /\ op[o].visibility = "uncertain" => op[o].failure # "none"
    /\ op[o].sync_completed => op[o].linked /\ op[o].fsyncs = 2

\* A save that returns its path published, synchronized and cleaned up, and neither
\* it nor an inspection that returns has lost a refusal or a cleanup failure.
SuccessMeansSaved ==
  \A o \in Ops : pc[o] = "done" /\ op[o].failure = "none" =>
    /\ o \in Savers => op[o].linked /\ op[o].sync_completed
    /\ ~op[o].cancel_requested /\ op[o].deferred = "none" /\ ~op[o].close_failed

\* An input edited before the last look at it, in a later tick than the one it was
\* pinned in, is neither published nor reported on.
StaleNeverUsed ==
  \A o \in Ops : disturbed[o] =>
    /\ ~op[o].linked
    /\ pc[o] = "done" => op[o].failure # "none"

\* Cancellation after the link is reported only once both synchronizations are
\* acknowledged, and a cleanup failure is never hidden behind a cancellation.
CancellationSettled ==
  \A o \in Ops :
    pc[o] = "done" /\ op[o].failure \in {"CANCELLED", "CANCEL_CHECK_FAILED"} =>
      /\ op[o].linked => op[o].sync_completed
      /\ ~op[o].close_failed

\* A publication that is not known to be synchronized is reported as exactly that.
SyncFailureWins ==
  \A o \in Savers :
    pc[o] = "done" /\ op[o].linked /\ ~op[o].sync_completed =>
      op[o].failure \in {"PUBLISHED_SYNC_UNCONFIRMED", "PUBLICATION_UNCERTAIN"}

\* Undisturbed calls race for the name and at most one of them gets it.
OneWinner ==
  meddled = 0 => \A o, p \in Savers : op[o].linked /\ op[p].linked => o = p

\* While nobody else meddles, a save that is told its destination exists has lost to
\* the file of another: never to the one its own ambiguous link may have made.
TakenByAnother ==
  meddled = 0 /\ up =>
    \A o \in Savers : pc[o] = "done" /\ op[o].failure = "DESTINATION_EXISTS" =>
      dst[outDir] \notin {None, o}

\* Every way out of a call leaves it without descriptors.
AllReleased == \A o \in Ops : pc[o] \in {"done", "escaped"} => ~op[o].holding

\* A publication whose synchronization was reported complete survives a power loss.
DurableOnceSynced ==
  [][\A o \in Savers, d \in Dirs :
       up /\ ~up' /\ dst[d] = o /\ op[o].sync_completed => dst'[d] = o]_vars

\* Every call returns, or ends with the host.
Terminates == \A o \in Ops : <>(pc[o] \in {"done", "escaped"} \/ ~up)
=============================================================================
