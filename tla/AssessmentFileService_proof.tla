---------------------- MODULE AssessmentFileService_proof ----------------------
(***************************************************************************)
(* What is proved of the files the calls of AssessmentFile read and make,  *)
(* and of the promise of FileService that every call keeps.                *)
(*                                                                         *)
(* To the course of a call, of AssessmentFile_proof, the invariant adds    *)
(* what the call knows of its input (Inputs: every block it holds is of    *)
(* the version it pinned, or a recheck that refuses it is still ahead, or  *)
(* it was edited under the stamp it had), what names the calls have made   *)
(* (Names: a synchronized file is on the disk, and without interference    *)
(* there is one winner), and whose file another call found (Losers: a call *)
(* told that its destination exists linked nothing itself).  The promise   *)
(* is kept step by step: a link is a Publish, the second synchronization a *)
(* Synchronize, a checkpoint at most a Sample, and a release a Conclude    *)
(* with an honest report.                                                  *)
(***************************************************************************)
EXTENDS AssessmentFile_proof, AssessmentFileService

USE OpsAssumption, InodeAssumption, BoundAssumption, AnswerAssumption
USE DEF Publishing, Ending, Cancellations, Unsynchronized

-----------------------------------------------------------------------------
(* What the calls hold of their files.                                     *)

\* The places from which a call goes on with what it has read.
Reading == {"qualify", "read"} \cup Rechecking

\* Whole, or so far, of the version that was pinned.
Exact(s) == Len(s.raw) = s.stamp.size /\ \A k \in DOMAIN s.raw : s.raw[k] = s.stamp
Begun(s) == Len(s.raw) <= s.stamp.size /\ \A k \in DOMAIN s.raw : s.raw[k] = s.stamp

\* An edit was made that the next recheck refuses, or that none can see.
Spoiled(o, s) == hidden[o] \/ ~SameStamp(content[s.pinned], s.stamp)

Read(o, s) == /\ \A k \in DOMAIN s.raw : s.raw[k].tick = s.stamp.tick
              /\ hidden[o] \/ Exact(s)

\* What was read lies between the version pinned and the one that is there now.
Tracks(o, s, l) ==
  /\ l \in {"admit", "walkIn", "pin", "qualify"} => s.raw = <<>>
  /\ l \in Reading => \A k \in DOMAIN s.raw : /\ s.stamp.tick <= s.raw[k].tick
                                            /\ s.raw[k].tick <= content[s.pinned].tick
  /\ l \notin Unbound \cup {"pin"} => s.stamp.tick <= content[s.pinned].tick
  /\ l \in {"qualify", "read"} =>
       Spoiled(o, s) \/ (content[s.pinned] = s.stamp /\ Begun(s))
  /\ l \in Rechecking /\ s.phase = "read" => Spoiled(o, s) \/ Exact(s)
  /\ l \notin Reading \cup Unbound \cup {"pin"} \/ s.phase # "read" \/ s.linked => Read(o, s)

\* A call whose input was edited in time is on its way to notice it, or has failed.
Notices(o, s, l) ==
  disturbed[o] =>
    /\ ~s.linked /\ l # "admit"
    /\ l \notin {"walkIn", "pin"}
    /\ \/ /\ s.pinned \in Sources /\ s.stamp.tick < content[s.pinned].tick
          /\ StillChecking(o)
       \/ l \in Ending /\ s.failure # "none"
       \/ l = "escaped"

Inputs == \A o \in Ops : Tracks(o, op[o], pc[o]) /\ Notices(o, op[o], pc[o])

\* A name leads to the file of a call only where that call has linked it; what was
\* reported as synchronized there is on the disk.
Names ==
  /\ \A d \in Dirs : \A o \in Savers :
       /\ dst[d] = o \/ stable[d] = o => d = op[o].out_parent
       /\ dst[d] = o /\ op[o].sync_completed => stable[d] = o
  /\ meddled = 0 /\ up =>
       \A o \in Savers :
         /\ pc[o] \in Outgoing => op[o].out_parent = outDir
         /\ pc[o] \in Rechecking /\ op[o].phase = "link" => op[o].out_parent = outDir
         /\ op[o].linked => dst[outDir] = o
  /\ OneWinner

\* A state that holds the same of the input and the output as another.
SameFiles(s, t) == /\ t.raw = s.raw /\ t.stamp = s.stamp /\ t.pinned = s.pinned
                   /\ t.linked = s.linked /\ t.phase = s.phase /\ t.out_parent = s.out_parent
                   /\ t.sync_completed = s.sync_completed

\* How a step of call o ends: with a failure, or at next with the files of state t.
Failed(o)        == /\ SameFiles(op[o], op'[o])
                    /\ pc'[o] = "settle" /\ op'[o].failure # "none"
Goes(o, t, next) == SameFiles(t, op'[o]) /\ pc'[o] = next

\* A failure is noted without touching the files.
LEMMA FailureFiles ==
  ASSUME NEW s \in Operation, NEW code \in Codes
  PROVE  SameFiles(s, [s EXCEPT !.failure = code]) /\ [s EXCEPT !.failure = code].failure = code
BY DEF SameFiles, Operation

\* Holding the same files is an equivalence.
LEMMA SameFilesTransitive ==
  ASSUME NEW s, NEW t, NEW u, SameFiles(s, t), SameFiles(t, u)
  PROVE  SameFiles(s, u)
BY DEF SameFiles

\* Every state holds its own files.
LEMMA SameFilesReflexive == \A s : SameFiles(s, s)
BY DEF SameFiles

\* An answer of the callback touches no files.
LEMMA AnsweredFiles ==
  ASSUME NEW s \in Operation, NEW r \in CallbackResults
  PROVE  SameFiles(s, Answered(s, r)) /\ Answered(s, r) \in Operation
BY AnsweredFields DEF SameFiles

\* A call that raises ends with a failure and the files it has.
LEMMA RaiseFails ==
  ASSUME CallsOK, NEW o \in Ops, NEW s \in Operation, SameFiles(op[o], s), NEW code \in Codes,
         Raise(o, s, code)
  PROVE  Failed(o)
<1> DEFINE t == [s EXCEPT !.failure = code]
<1>1. op'[o] = t /\ pc'[o] = "settle"
  BY Moved DEF Raise
<1>2. SameFiles(s, t) /\ t.failure = code
  BY FailureFiles
<1> HIDE DEF t
<1>3. SameFiles(op[o], t)
  BY <1>2, SameFilesTransitive
<1> QED BY <1>1, <1>2, <1>3 DEF Failed, Codes

\* So does one that raises any of several codes.
LEMMA RaiseAnyFails ==
  ASSUME CallsOK, NEW o \in Ops, NEW codes \in SUBSET Codes, RaiseAny(o, codes)
  PROVE  Failed(o)
<1>1. PICK code \in codes : Raise(o, op[o], code)
  BY DEF RaiseAny
<1>2. op[o] \in Operation /\ SameFiles(op[o], op[o]) /\ code \in Codes
  BY SameFilesReflexive DEF CallsOK
<1> QED BY <1>1, <1>2, RaiseFails

\* A checkpoint fails, or goes on with the files of the state it leads to.
LEMMA CheckpointGoes ==
  ASSUME CallsOK, NEW o \in Ops, NEW s \in Operation, SameFiles(op[o], s), NEW t \in Operation,
         NEW next, Checkpoint(o, s, t, next)
  PROVE  Failed(o) \/ Goes(o, t, next)
<1>1. PICK r \in CallbackResults :
        IF Refused(s, r) THEN Raise(o, Answered(s, r), CheckpointCode(r))
                         ELSE Continue(o, Answered(t, r), next)
  BY DEF Checkpoint
<1>2. CASE Refused(s, r)
  <2>1. CheckpointCode(r) \in Codes
    BY DEF CheckpointCode, Codes
  <2>2. SameFiles(op[o], Answered(s, r)) /\ Answered(s, r) \in Operation
    BY AnsweredFiles, SameFilesTransitive
  <2> QED BY <1>1, <1>2, <2>1, <2>2, RaiseFails
<1>3. CASE ~Refused(s, r)
  <2>1. op'[o] = Answered(t, r) /\ pc'[o] = next
    BY <1>1, <1>3, Moved
  <2>2. SameFiles(t, Answered(t, r))
    BY AnsweredFiles
  <2> QED BY <2>1, <2>2 DEF Goes
<1> QED BY <1>2, <1>3

\* A step that goes on holds the files of the state it leads to.
LEMMA ContinueGoes ==
  ASSUME CallsOK, NEW o \in Ops, NEW t, NEW next, Continue(o, t, next)
  PROVE  Goes(o, t, next)
BY Moved, SameFilesReflexive DEF Goes

\* A walk that fails leaves the files alone.
LEMMA WalkFailsFiles ==
  ASSUME CallsOK, NEW o \in Ops, NEW codes \in SUBSET Codes, WalkFails(o, codes)
  PROVE  Failed(o)
<1>1. PICK code \in codes, held \in BOOLEAN : Raise(o, [op[o] EXCEPT !.holding = held], code)
  BY DEF WalkFails
<1> DEFINE s == [op[o] EXCEPT !.holding = held]
<1>2. op[o] \in Operation
  BY DEF CallsOK
<1>3. s \in Operation
  BY <1>2, Zenon DEF Operation
<1>4. SameFiles(op[o], s)
  BY <1>2 DEF SameFiles, Operation
<1>5. Raise(o, s, code) /\ code \in Codes
  BY <1>1
<1> HIDE DEF s
<1> QED BY <1>3, <1>4, <1>5, RaiseFails

\* The steps of a call that leave its files as they are, by where they lead.
Onward(o) ==
  \/ pc[o] = "admit"      /\ Goes(o, op[o], "walkIn")
  \/ pc[o] = "walkIn"     /\ Goes(o, op[o], "pin")
  \/ pc[o] = "qualify"    /\ Goes(o, op[o], "read")
  \/ pc[o] = "pinned"     /\ Goes(o, op[o], "binding")
  \/ pc[o] = "binding"    /\ Goes(o, op[o], "name")
  \/ pc[o] = "decode"     /\ Goes(o, op[o], "walkOut")
  \/ pc[o] = "decode"     /\ o \in Inspectors /\ Goes(o, op[o], "complete")
  \/ pc[o] = "prepare"    /\ Goes(o, op[o], "write")
  \/ pc[o] = "write"      /\ Goes(o, op[o], "write")
  \/ pc[o] = "outBinding" /\ Goes(o, op[o], "link")
  \/ pc[o] = "observe"    /\ Goes(o, op[o], "afterLink")
  \/ pc[o] = "afterLink"  /\ Goes(o, op[o], "syncFile")
  \/ pc[o] = "syncFile"   /\ Goes(o, op[o], "syncParent")
  \/ pc[o] = "complete"   /\ o \in Savers /\ Goes(o, op[o], "pubParent")
  \/ pc[o] = "pubParent"  /\ (Goes(o, op[o], "pubName") \/ Goes(o, op[o], "conclude"))
  \/ pc[o] = "pubName"    /\ Goes(o, op[o], "conclude")

Ends(o) ==
  \/ Failed(o)
  \/ Goes(o, op[o], "escaped")
  \/ pc[o] \in {"admit", "conclude"} /\ (Goes(o, op[o], "release") \/ Goes(o, op[o], "settle"))
  \/ /\ pc[o] \in Ending /\ (Goes(o, op[o], "release") \/ Goes(o, op[o], "done"))
     /\ op[o].failure # "none" => op'[o].failure # "none"

\* Going on with the same files, under another name.
LEMMA SameFilesGoes ==
  ASSUME NEW o \in Ops, NEW t, SameFiles(op[o], t), NEW next, Goes(o, t, next)
  PROVE  Goes(o, op[o], next)
BY SameFilesTransitive DEF Goes

\* The steps of intake that only look.
LEMMA IntakeFiles ==
  ASSUME CallsOK, NEW o \in Ops,
         \/ Admit(o) \/ WalkIn(o) \/ Qualify(o) \/ CheckPinned(o) \/ CheckParent(o)
         \/ Decode(o)
  PROVE  Onward(o) \/ Ends(o)
<1>1. op[o] \in Operation /\ SameFiles(op[o], op[o])
  BY SameFilesReflexive DEF CallsOK
<1>2. ASSUME NEW codes \in SUBSET Codes, RaiseAny(o, codes) PROVE Failed(o)
  BY <1>2, RaiseAnyFails
<1>3. ASSUME NEW next, Checkpoint(o, op[o], op[o], next) PROVE Failed(o) \/ Goes(o, op[o], next)
  BY <1>1, <1>3, CheckpointGoes
<1>4. ASSUME NEW next, Continue(o, op[o], next) PROVE Goes(o, op[o], next)
  BY <1>4, ContinueGoes
<1>5. CASE Admit(o)
  <2>1. ASSUME NEW code \in {"INVALID_ARGUMENT", "INVALID_PATH"},
               Continue(o, [op[o] EXCEPT !.failure = code, !.completion_sampled = TRUE],
                        "release")
        PROVE  Goes(o, op[o], "release")
    <3> DEFINE t == [op[o] EXCEPT !.failure = code, !.completion_sampled = TRUE]
    <3>1. SameFiles(op[o], t)
      BY <1>1 DEF SameFiles, Operation
    <3>2. Continue(o, t, "release")
      BY <2>1
    <3> HIDE DEF t
    <3> QED BY <3>1, <3>2, ContinueGoes, SameFilesGoes
  <2>2. pc[o] = "admit" /\ {"UNSUPPORTED_PLATFORM"} \in SUBSET Codes
    BY <1>5 DEF Admit, At, Codes
  <2> QED BY <1>2, <1>3, <1>5, <2>1, <2>2 DEF Admit, Onward, Ends
<1>6. CASE WalkIn(o)
  <2>1. ASSUME Continue(o, [op[o] EXCEPT !.in_parent = inDir, !.holding = TRUE], "pin")
        PROVE  Goes(o, op[o], "pin")
    <3> DEFINE t == [op[o] EXCEPT !.in_parent = inDir, !.holding = TRUE]
    <3>1. SameFiles(op[o], t)
      BY <1>1 DEF SameFiles, Operation
    <3>2. Continue(o, t, "pin")
      BY <2>1
    <3> HIDE DEF t
    <3> QED BY <3>1, <3>2, ContinueGoes, SameFilesGoes
  <2>2. pc[o] = "walkIn" /\ {"UNSAFE_INPUT", "IO_ERROR", "CLOSE_FAILED"} \in SUBSET Codes
    BY <1>6 DEF WalkIn, At, Codes
  <2> QED BY <1>6, <2>1, <2>2, WalkFailsFiles DEF WalkIn, Onward, Ends
<1>7. CASE Qualify(o)
  <2>1. pc[o] = "qualify" /\ Ext4Failures \cup {"INPUT_CHANGED", "RESOURCE_LIMIT"} \in SUBSET Codes
    BY <1>7 DEF Qualify, At, Ext4Failures, Codes
  <2> QED BY <1>2, <1>3, <1>7, <2>1 DEF Qualify, Onward, Ends
<1>8. CASE CheckPinned(o)
  <2>1. pc[o] = "pinned" /\ {"INPUT_CHANGED"} \in SUBSET Codes /\ {"IO_ERROR"} \in SUBSET Codes
    BY <1>8 DEF CheckPinned, At, Codes
  <2> QED BY <1>2, <1>4, <1>8, <2>1 DEF CheckPinned, Onward, Ends
<1>9. CASE CheckParent(o)
  <2>1. pc[o] = "binding" /\ ParentFailures("INPUT_CHANGED") \in SUBSET Codes
    BY <1>9 DEF CheckParent, At, ParentFailures, Codes
  <2> QED BY <1>2, <1>4, <1>9, <2>1 DEF CheckParent, Onward, Ends
<1>10. CASE Decode(o)
  <2>1. pc[o] = "decode" /\ CodecFailures \in SUBSET Codes
    BY <1>10 DEF Decode, At, CodecCodes, Codes
  <2>2. CASE RaiseAny(o, CodecFailures)
    BY <1>2, <2>1, <2>2 DEF Ends
  <2>3. CASE Continue(o, op[o], IF o \in Savers THEN "walkOut" ELSE "complete")
    <3>1. Goes(o, op[o], IF o \in Savers THEN "walkOut" ELSE "complete")
      BY <1>4, <2>3
    <3>2. o \notin Savers => o \in Inspectors
      BY DEF Ops
    <3> QED BY <2>1, <3>1, <3>2 DEF Onward
  <2> QED BY <1>10, <2>2, <2>3 DEF Decode
<1> QED BY <1>5, <1>6, <1>7, <1>8, <1>9, <1>10

\* A synchronization changes no file but on the disk.
LEMMA SynchronizedFiles ==
  ASSUME NEW s \in Operation, NEW ok \in BOOLEAN
  PROVE  SameFiles(s, Synchronized(s, ok))
BY DEF Synchronized, KeepFirst, SameFiles, Operation

\* The steps of a save that change no file of the call.
LEMMA SavingFiles ==
  ASSUME CallsOK, NEW o \in Ops,
         \/ Prepare(o) \/ WriteChunk(o) \/ CheckOutParent(o) \/ Observe(o) \/ AfterLink(o)
         \/ SyncFile(o) \/ CheckPublishedParent(o) \/ CheckPublishedName(o)
  PROVE  Onward(o) \/ Ends(o)
<1>1. op[o] \in Operation /\ SameFiles(op[o], op[o])
  BY SameFilesReflexive DEF CallsOK
<1>2. ASSUME NEW codes \in SUBSET Codes, RaiseAny(o, codes) PROVE Failed(o)
  BY <1>2, RaiseAnyFails
<1>3. ASSUME NEW next, Checkpoint(o, op[o], op[o], next) PROVE Failed(o) \/ Goes(o, op[o], next)
  BY <1>1, <1>3, CheckpointGoes
<1>4. ASSUME NEW next, Continue(o, op[o], next) PROVE Goes(o, op[o], next)
  BY <1>4, ContinueGoes
<1>5. CASE Prepare(o)
  <2>1. pc[o] = "prepare" /\ Ext4Failures \cup {"OUTPUT_PARENT_CHANGED"} \in SUBSET Codes
    BY <1>5 DEF Prepare, At, Ext4Failures, Codes
  <2> QED BY <1>2, <1>3, <1>5, <2>1 DEF Prepare, Onward, Ends
<1>6. CASE WriteChunk(o)
  <2>1. pc[o] = "write" /\ {"IO_ERROR"} \in SUBSET Codes
    BY <1>6 DEF WriteChunk, At, Codes
  <2>2. ASSUME NEW n \in Progress(op[o]),
               Checkpoint(o, op[o], [op[o] EXCEPT !.written = n], "write")
        PROVE  Failed(o) \/ Goes(o, op[o], "write")
    <3> DEFINE t == [op[o] EXCEPT !.written = n]
    <3>1. op[o].written \in 0 .. OutBlocks
      BY <1>1 DEF Operation
    <3>2. n \in 0 .. OutBlocks
      BY <3>1 DEF Progress
    <3>3. t \in Operation
      BY <1>1, <3>2, Zenon DEF Operation
    <3>4. SameFiles(op[o], t)
      BY <1>1 DEF SameFiles, Operation
    <3>5. Checkpoint(o, op[o], t, "write")
      BY <2>2
    <3> HIDE DEF t
    <3> QED BY <1>1, <3>3, <3>4, <3>5, CheckpointGoes, SameFilesGoes
  <2> QED BY <1>2, <1>6, <2>1, <2>2 DEF WriteChunk, Onward, Ends
<1>7. CASE CheckOutParent(o)
  <2>1. pc[o] = "outBinding" /\ ParentFailures("OUTPUT_PARENT_CHANGED") \in SUBSET Codes
    BY <1>7 DEF CheckOutParent, At, ParentFailures, Codes
  <2> QED BY <1>2, <1>4, <1>7, <2>1 DEF CheckOutParent, Onward, Ends
<1>8. CASE Observe(o)
  <2>1. pc[o] = "observe"
    BY <1>8 DEF Observe, At
  <2>2. ASSUME NEW v, NEW k, NEW d,
               Continue(o, [op[o] EXCEPT !.visibility = v, !.link_failure = k, !.deferred = d],
                        "afterLink")
        PROVE  Goes(o, op[o], "afterLink")
    <3> DEFINE t == [op[o] EXCEPT !.visibility = v, !.link_failure = k, !.deferred = d]
    <3>1. SameFiles(op[o], t)
      BY <1>1 DEF SameFiles, Operation
    <3>2. Continue(o, t, "afterLink")
      BY <2>2
    <3> HIDE DEF t
    <3> QED BY <3>1, <3>2, ContinueGoes, SameFilesGoes
  <2>3. ASSUME NEW v, NEW k,
               Continue(o, [op[o] EXCEPT !.visibility = v, !.link_failure = k], "afterLink")
        PROVE  Goes(o, op[o], "afterLink")
    <3> DEFINE t == [op[o] EXCEPT !.visibility = v, !.link_failure = k]
    <3>1. SameFiles(op[o], t)
      BY <1>1 DEF SameFiles, Operation
    <3>2. Continue(o, t, "afterLink")
      BY <2>3
    <3> HIDE DEF t
    <3> QED BY <3>1, <3>2, ContinueGoes, SameFilesGoes
  <2>4. ASSUME NEW k, NEW d,
               Continue(o, [op[o] EXCEPT !.deferred = d, !.link_failure = k], "afterLink")
        PROVE  Goes(o, op[o], "afterLink")
    <3> DEFINE t == [op[o] EXCEPT !.deferred = d, !.link_failure = k]
    <3>1. SameFiles(op[o], t)
      BY <1>1 DEF SameFiles, Operation
    <3>2. Continue(o, t, "afterLink")
      BY <2>4
    <3> HIDE DEF t
    <3> QED BY <3>1, <3>2, ContinueGoes, SameFilesGoes
  <2>5. Goes(o, op[o], "afterLink")
    BY <1>8, <2>2, <2>3, <2>4 DEF Observe
  <2> QED BY <2>1, <2>5 DEF Onward
<1>9. CASE AfterLink(o)
  BY <1>3, <1>9 DEF AfterLink, At, Onward, Ends
<1>10. CASE SyncFile(o)
  <2>1. PICK ok \in BOOLEAN : Continue(o, Synchronized(op[o], ok), "syncParent")
    BY <1>10 DEF SyncFile
  <2> DEFINE t == Synchronized(op[o], ok)
  <2>2. SameFiles(op[o], t)
    BY <1>1, SynchronizedFiles
  <2>3. Continue(o, t, "syncParent") /\ pc[o] = "syncFile"
    BY <1>10, <2>1 DEF SyncFile, At
  <2> HIDE DEF t
  <2> QED BY <2>2, <2>3, ContinueGoes, SameFilesGoes DEF Onward
<1>11. ASSUME NEW code, Continue(o, KeepFirst(op[o], code), "conclude")
       PROVE  Goes(o, op[o], "conclude")
  <2> DEFINE t == KeepFirst(op[o], code)
  <2>1. SameFiles(op[o], t)
    BY <1>1 DEF KeepFirst, SameFiles, Operation
  <2>2. Continue(o, t, "conclude")
    BY <1>11
  <2> HIDE DEF t
  <2> QED BY <2>1, <2>2, ContinueGoes, SameFilesGoes
<1>12. CASE CheckPublishedParent(o)
  <2>1. pc[o] = "pubParent"
    BY <1>12 DEF CheckPublishedParent, At
  <2> QED BY <1>4, <1>11, <1>12, <2>1 DEF CheckPublishedParent, Onward
<1>13. CASE CheckPublishedName(o)
  <2>1. pc[o] = "pubName"
    BY <1>13 DEF CheckPublishedName, At
  <2> QED BY <1>4, <1>11, <1>13, <2>1 DEF CheckPublishedName, Onward
<1> QED BY <1>5, <1>6, <1>7, <1>8, <1>9, <1>10, <1>12, <1>13

\* The steps that end a call.
LEMMA EndingFiles ==
  ASSUME CallsOK, NEW o \in Ops, Conclude(o) \/ Settle(o) \/ Release(o) \/ Escape(o)
  PROVE  Ends(o)
<1>1. op[o] \in Operation
  BY DEF CallsOK
<1>2. CASE Conclude(o)
  <2> DEFINE t == [op[o] EXCEPT !.failure = PublicationFailure(op[o])]
  <2>1. SameFiles(op[o], t)
    BY <1>1 DEF SameFiles, Operation
  <2>2. Continue(o, t, "settle") /\ pc[o] = "conclude"
    BY <1>2 DEF Conclude, At
  <2> HIDE DEF t
  <2> QED BY <2>1, <2>2, ContinueGoes, SameFilesGoes DEF Ends
<1>3. CASE Settle(o)
  <2>1. pc[o] = "settle"
    BY <1>3 DEF Settle, At
  <2>2. ASSUME Continue(o, op[o], "release") PROVE Ends(o)
    BY <2>1, <2>2, ContinueGoes, Moved DEF Ends
  <2> DEFINE s == [op[o] EXCEPT !.completion_sampled = TRUE]
  <2>3. s \in Operation
    BY <1>1, Zenon DEF Operation
  <2>4. SameFiles(op[o], s) /\ s.failure = op[o].failure
    BY <1>1 DEF SameFiles, Operation
  <2> HIDE DEF s
  <2>5. ASSUME NEW r \in CallbackResults,
               Continue(o, [Answered(s, r) EXCEPT
                              !.failure = IF @ = "none" /\ Refused(s, r)
                                          THEN CheckpointCode(r) ELSE @], "release")
        PROVE  Ends(o)
    <3> DEFINE a == Answered(s, r)
               c == IF a.failure = "none" /\ Refused(s, r) THEN CheckpointCode(r) ELSE a.failure
               t == [a EXCEPT !.failure = c]
    <3>1. a \in Operation /\ SameFiles(op[o], a) /\ a.failure = op[o].failure
      BY <2>3, <2>4, AnsweredFiles, AnsweredFields, SameFilesTransitive
    <3>2. Continue(o, t, "release")
      BY <2>5
    <3>3. op[o].failure # "none" => c # "none"
      BY <3>1 DEF CheckpointCode
    <3> HIDE DEF a, c
    <3>4. SameFiles(a, t) /\ t.failure = c
      BY <3>1 DEF SameFiles, Operation
    <3> HIDE DEF t
    <3>5. Goes(o, op[o], "release") /\ op'[o] = t
      BY <3>1, <3>2, <3>4, ContinueGoes, SameFilesGoes, SameFilesTransitive, Moved
    <3> QED BY <2>1, <3>3, <3>4, <3>5 DEF Ends
  <2> QED BY <1>3, <2>2, <2>5 DEF Settle, s
<1>4. CASE Release(o)
  <2>1. PICK closeFailed \in BOOLEAN :
          Continue(o, [op[o] EXCEPT !.failure = FinalFailure(op[o], closeFailed),
                                    !.close_failed = closeFailed, !.holding = FALSE], "done")
    BY <1>4 DEF Release
  <2> DEFINE c == FinalFailure(op[o], closeFailed)
             t == [op[o] EXCEPT !.failure = c, !.close_failed = closeFailed, !.holding = FALSE]
  <2>2. op[o].failure # "none" => c # "none"
    BY DEF FinalFailure
  <2>3. Continue(o, t, "done") /\ pc[o] = "release"
    BY <1>4, <2>1 DEF Release, At
  <2> HIDE DEF c
  <2>4. SameFiles(op[o], t) /\ t.failure = c
    BY <1>1 DEF SameFiles, Operation
  <2> HIDE DEF t
  <2>5. Goes(o, op[o], "done") /\ op'[o] = t
    BY <2>3, <2>4, ContinueGoes, SameFilesGoes, Moved
  <2> QED BY <2>2, <2>3, <2>4, <2>5 DEF Ends
<1>5. CASE Escape(o)
  <2> DEFINE h == op[o].holding /\ pc[o] = "settle"
             t == [op[o] EXCEPT !.holding = h]
  <2>1. Continue(o, t, "escaped")
    BY <1>5 DEF Escape
  <2>2. SameFiles(op[o], t)
    BY <1>1 DEF SameFiles, Operation
  <2> HIDE DEF t
  <2> QED BY <2>1, <2>2, ContinueGoes, SameFilesGoes DEF Ends
<1> QED BY <1>2, <1>3, <1>4, <1>5

\* The steps of a call that change its files, and what they change.
LEMMA PinFiles ==
  ASSUME CallsOK, NEW o \in Ops, Pin(o)
  PROVE  \/ Failed(o)
         \/ /\ pc[o] = "pin" /\ pc'[o] = "qualify" /\ op'[o].pinned = src[op[o].in_parent]
            /\ op'[o].stamp = content[op'[o].pinned]
            /\ op'[o].raw = op[o].raw /\ op'[o].linked = op[o].linked
            /\ op'[o].phase = op[o].phase /\ op'[o].out_parent = op[o].out_parent
            /\ op'[o].sync_completed = op[o].sync_completed
<1>1. op[o] \in Operation /\ pc[o] = "pin"
  BY DEF CallsOK, Pin, At
<1> DEFINE i == src[op[o].in_parent]
<1>2. ASSUME NEW codes \in {{"UNSAFE_INPUT"}, {"IO_ERROR"}}, RaiseAny(o, codes) PROVE Failed(o)
  BY <1>2, RaiseAnyFails DEF Codes
<1>3. CASE Continue(o, [op[o] EXCEPT !.pinned = i, !.stamp = content[i]], "qualify")
  <2>1. op'[o] = [op[o] EXCEPT !.pinned = i, !.stamp = content[i]] /\ pc'[o] = "qualify"
    BY <1>3, Moved
  <2> HIDE DEF i
  <2>2. op'[o].pinned = i /\ op'[o].stamp = content[i]
    BY <1>1, <2>1 DEF Operation
  <2>3. /\ op'[o].raw = op[o].raw /\ op'[o].linked = op[o].linked /\ op'[o].phase = op[o].phase
        /\ op'[o].out_parent = op[o].out_parent /\ op'[o].sync_completed = op[o].sync_completed
    BY <1>1, <2>1 DEF Operation
  <2> QED BY <1>1, <2>1, <2>2, <2>3 DEF i
<1> QED BY <1>2, <1>3 DEF Pin

\* One more block, of the version the input is in now.
LEMMA ReadBlockFiles ==
  ASSUME TypeOK, CallsOK, NEW o \in Ops, ReadBlock(o)
  PROVE  \/ Failed(o)
         \/ /\ pc[o] = "read" /\ pc'[o] = "read" /\ Len(op[o].raw) < content[op[o].pinned].size
            /\ op'[o].raw = Append(op[o].raw, content[op[o].pinned])
            /\ op'[o].stamp = op[o].stamp /\ op'[o].pinned = op[o].pinned
            /\ op'[o].linked = op[o].linked /\ op'[o].phase = op[o].phase
            /\ op'[o].out_parent = op[o].out_parent
            /\ op'[o].sync_completed = op[o].sync_completed
<1>1. /\ op[o] \in Operation /\ pc[o] = "read" /\ op[o].pinned \in Sources
      /\ Len(op[o].raw) < content[op[o].pinned].size
  BY DEF CallsOK, CallOK, Unbound, ReadBlock, At
<1> DEFINE blocks == Append(op[o].raw, content[op[o].pinned])
           t == [op[o] EXCEPT !.raw = blocks]
<1>2. CASE Checkpoint(o, op[o], t, "read")
  <2>1. op[o].raw \in Seq(Version) /\ content[op[o].pinned] \in Version
    BY <1>1 DEF TypeOK, Operation
  <2>2. blocks \in Seq(Version)
    BY <2>1
  <2> HIDE DEF blocks
  <2>3. t \in Operation
    BY <1>1, <2>2, Zenon DEF Operation
  <2>4. /\ t.raw = blocks
        /\ t.stamp = op[o].stamp /\ t.pinned = op[o].pinned /\ t.linked = op[o].linked
        /\ t.phase = op[o].phase /\ t.out_parent = op[o].out_parent
        /\ t.sync_completed = op[o].sync_completed
    BY <1>1 DEF Operation
  <2> HIDE DEF t
  <2>5. Failed(o) \/ Goes(o, t, "read")
    BY <1>1, <1>2, <2>3, CheckpointGoes, SameFilesReflexive
  <2> QED BY <1>1, <2>4, <2>5 DEF Goes, SameFiles, blocks
<1>3. CASE RaiseAny(o, {"IO_ERROR"})
  BY <1>3, RaiseAnyFails DEF Codes
<1> QED BY <1>2, <1>3 DEF ReadBlock

\* The read ends where the input does.
LEMMA EndReadFiles ==
  ASSUME CallsOK, NEW o \in Ops, EndRead(o)
  PROVE  \/ Failed(o)
         \/ /\ pc[o] = "read" /\ Len(op[o].raw) >= content[op[o].pinned].size
            /\ Goes(o, op[o], "pinned")
<1>1. op[o] \in Operation /\ SameFiles(op[o], op[o])
  BY SameFilesReflexive DEF CallsOK
<1>2. {"IO_ERROR", "RESOURCE_LIMIT", "CLOSE_FAILED"} \in SUBSET Codes
  BY DEF Codes
<1>3. CASE Checkpoint(o, op[o], op[o], "pinned")
  BY <1>1, <1>3, CheckpointGoes DEF EndRead, At
<1> QED BY <1>2, <1>3, RaiseAnyFails DEF EndRead

\* A name that passes leads to the input that was pinned, under the stamp it had then.
LEMMA CheckNameFiles ==
  ASSUME CallsOK, NEW o \in Ops, CheckName(o)
  PROVE  \/ Failed(o)
         \/ /\ pc[o] = "name" /\ SameStamp(content[op[o].pinned], op[o].stamp)
            /\ Goes(o, op[o], AfterBinding(op[o]))
<1>1. {"INPUT_CHANGED", "IO_ERROR", "CLOSE_FAILED"} \in SUBSET Codes
  BY DEF Codes
<1> QED BY <1>1, RaiseAnyFails, ContinueGoes DEF CheckName, At, StampIs

\* The destination that was selected is the one bound then.
LEMMA WalkOutFiles ==
  ASSUME CallsOK, NEW o \in Ops, WalkOut(o)
  PROVE  \/ Failed(o)
         \/ /\ pc[o] = "walkOut" /\ pc'[o] = "prepare" /\ op'[o].out_parent = outDir
            /\ op'[o].raw = op[o].raw /\ op'[o].stamp = op[o].stamp
            /\ op'[o].pinned = op[o].pinned /\ op'[o].linked = op[o].linked
            /\ op'[o].phase = op[o].phase /\ op'[o].sync_completed = op[o].sync_completed
<1>1. op[o] \in Operation /\ pc[o] = "walkOut"
  BY DEF CallsOK, WalkOut, At
<1>2. CASE Continue(o, [op[o] EXCEPT !.out_parent = outDir], "prepare")
  <2>1. op'[o] = [op[o] EXCEPT !.out_parent = outDir] /\ pc'[o] = "prepare"
    BY <1>2, Moved
  <2> QED BY <1>1, <2>1 DEF Operation
<1>3. {"UNSAFE_INPUT", "IO_ERROR", "CLOSE_FAILED"} \in SUBSET Codes
  BY DEF Codes
<1> QED BY <1>2, <1>3, WalkFailsFiles DEF WalkOut

\* The last recheck of the input follows the synchronized temporary.
LEMMA SyncTemporaryFiles ==
  ASSUME CallsOK, NEW o \in Ops, SyncTemporary(o)
  PROVE  \/ Failed(o)
         \/ /\ pc[o] = "write" /\ pc'[o] = "pinned" /\ op'[o].phase = "link"
            /\ op'[o].raw = op[o].raw /\ op'[o].stamp = op[o].stamp
            /\ op'[o].pinned = op[o].pinned /\ op'[o].linked = op[o].linked
            /\ op'[o].out_parent = op[o].out_parent
            /\ op'[o].sync_completed = op[o].sync_completed
<1>1. op[o] \in Operation /\ pc[o] = "write" /\ op[o].written \in 0 .. OutBlocks
  BY DEF CallsOK, SyncTemporary, At, Operation
<1> DEFINE s == Flushed(op[o])
           t == [s EXCEPT !.phase = "link"]
<1>2. CASE Checkpoint(o, s, t, LastRecheck)
  <2>1. s \in Operation
    BY <1>1, Zenon DEF Operation, Flushed
  <2>2. t \in Operation
    BY <2>1, Zenon DEF Operation
  <2>3. SameFiles(op[o], s)
    BY <1>1 DEF SameFiles, Operation, Flushed
  <2> HIDE DEF s
  <2>4. /\ t.phase = "link"
        /\ t.raw = s.raw /\ t.stamp = s.stamp /\ t.pinned = s.pinned /\ t.linked = s.linked
        /\ t.out_parent = s.out_parent /\ t.sync_completed = s.sync_completed
    BY <2>1 DEF Operation
  <2> HIDE DEF t
  <2>5. Failed(o) \/ Goes(o, t, "pinned")
    BY <1>2, <2>1, <2>2, <2>3, CheckpointGoes DEF LastRecheck
  <2> QED BY <1>1, <2>3, <2>4, <2>5 DEF Goes, SameFiles
<1>3. CASE RaiseAny(o, {"IO_ERROR"})
  BY <1>3, RaiseAnyFails DEF Codes
<1> QED BY <1>2, <1>3 DEF SyncTemporary

\* The name is made, by this call, exactly when the call counts as linked.
LEMMA LinkFiles ==
  ASSUME CallsOK, NEW o \in Ops, Link(o)
  PROVE  \/ UNCHANGED dst /\ Failed(o)
         \/ /\ pc[o] = "link" /\ pc'[o] \in {"afterLink", "observe"}
            /\ \/ UNCHANGED dst /\ op'[o].linked = op[o].linked
               \/ LinkTakesEffect(o) /\ op'[o].linked = TRUE
            /\ op'[o].raw = op[o].raw /\ op'[o].stamp = op[o].stamp
            /\ op'[o].pinned = op[o].pinned /\ op'[o].phase = op[o].phase
            /\ op'[o].out_parent = op[o].out_parent
            /\ op'[o].sync_completed = op[o].sync_completed
<1>1. op[o] \in Operation /\ pc[o] = "link"
  BY DEF CallsOK, Link, At
<1> DEFINE s == [op[o] EXCEPT !.attempted = TRUE]
<1>2. s \in Operation
  BY <1>1, Zenon DEF Operation
<1>3. SameFiles(op[o], s)
  BY <1>1 DEF SameFiles, Operation
<1>4. Link(o) <=>
        /\ At(o, "link")
        /\ \/ /\ LinkTakesEffect(o)
              /\ \/ Continue(o, [s EXCEPT !.visibility = "published", !.linked = TRUE], "afterLink")
                 \/ Continue(o, [Ambiguous(s) EXCEPT !.linked = TRUE], "observe")
           \/ /\ UNCHANGED dst
              /\ \/ dst[op[o].out_parent] # None /\ Raise(o, s, "DESTINATION_EXISTS")
                 \/ \E code \in {"UNSUPPORTED_PLATFORM", "IO_ERROR"} : Raise(o, s, code)
                 \/ Continue(o, Ambiguous(s), "observe")
  BY DEF Link
<1> HIDE DEF s
<1>5. ASSUME NEW code \in {"DESTINATION_EXISTS", "UNSUPPORTED_PLATFORM", "IO_ERROR"},
             Raise(o, s, code)
      PROVE  Failed(o)
  BY <1>2, <1>3, <1>5, RaiseFails DEF Codes
<1> DEFINE Effect(t) == \/ UNCHANGED dst /\ t.linked = s.linked
                        \/ LinkTakesEffect(o) /\ t.linked = TRUE
           Others(t) == /\ t.raw = s.raw /\ t.stamp = s.stamp /\ t.pinned = s.pinned
                        /\ t.phase = s.phase /\ t.out_parent = s.out_parent
                        /\ t.sync_completed = s.sync_completed
           Linked == /\ pc'[o] \in {"afterLink", "observe"}
                     /\ \/ UNCHANGED dst /\ op'[o].linked = op[o].linked
                        \/ LinkTakesEffect(o) /\ op'[o].linked = TRUE
                     /\ op'[o].raw = op[o].raw /\ op'[o].stamp = op[o].stamp
                     /\ op'[o].pinned = op[o].pinned /\ op'[o].phase = op[o].phase
                     /\ op'[o].out_parent = op[o].out_parent
                     /\ op'[o].sync_completed = op[o].sync_completed
<1>6. ASSUME NEW t, NEW l \in {"afterLink", "observe"}, Continue(o, t, l), Effect(t), Others(t)
      PROVE  Linked
  <2>1. op'[o] = t /\ pc'[o] = l
    BY <1>6, Moved
  <2> QED BY <1>3, <1>6, <2>1 DEF SameFiles
<1>7. ASSUME LinkTakesEffect(o),
             Continue(o, [s EXCEPT !.visibility = "published", !.linked = TRUE], "afterLink")
      PROVE  Linked
  <2> DEFINE t == [s EXCEPT !.visibility = "published", !.linked = TRUE]
  <2>1. Effect(t) /\ Others(t)
    BY <1>2, <1>7 DEF Operation
  <2>2. Continue(o, t, "afterLink")
    BY <1>7
  <2> HIDE DEF t, Effect, Others, Linked
  <2> QED BY <1>6, <2>1, <2>2
<1>8. ASSUME LinkTakesEffect(o), Continue(o, [Ambiguous(s) EXCEPT !.linked = TRUE], "observe")
      PROVE  Linked
  <2> DEFINE t == [Ambiguous(s) EXCEPT !.linked = TRUE]
  <2>1. Effect(t) /\ Others(t)
    BY <1>2, <1>8 DEF Operation, Ambiguous
  <2>2. Continue(o, t, "observe")
    BY <1>8
  <2> HIDE DEF t, Effect, Others, Linked
  <2> QED BY <1>6, <2>1, <2>2
<1>9. ASSUME UNCHANGED dst, Continue(o, Ambiguous(s), "observe") PROVE Linked
  <2> DEFINE t == Ambiguous(s)
  <2>1. Effect(t) /\ Others(t)
    BY <1>2, <1>9 DEF Operation, Ambiguous
  <2>2. Continue(o, t, "observe")
    BY <1>9
  <2> HIDE DEF t, Effect, Others, Linked
  <2> QED BY <1>6, <2>1, <2>2
<1>10. (UNCHANGED dst /\ Failed(o)) \/ Linked
  <2> HIDE DEF Linked
  <2> QED BY <1>4, <1>5, <1>7, <1>8, <1>9
<1> QED BY <1>1, <1>10

\* The directory's synchronization changes no file of the call.
LEMMA SyncParentFiles ==
  ASSUME CallsOK, NEW o \in Ops, SyncParent(o)
  PROVE  /\ pc[o] = "syncParent" /\ pc'[o] = "complete"
         /\ op'[o].raw = op[o].raw /\ op'[o].stamp = op[o].stamp /\ op'[o].pinned = op[o].pinned
         /\ op'[o].linked = op[o].linked /\ op'[o].phase = op[o].phase
         /\ op'[o].out_parent = op[o].out_parent
<1>1. op[o] \in Operation /\ pc[o] = "syncParent" /\ CallOK(o, op[o], pc[o])
  BY DEF CallsOK, SyncParent, At
<1>2. PICK ok \in BOOLEAN :
        Continue(o, [Synchronized(op[o], ok) EXCEPT
                       !.sync_completed = SyncCompleted(Synchronized(op[o], ok))], "complete")
  BY DEF SyncParent
<1> DEFINE s == Synchronized(op[o], ok)
           b == SyncCompleted(s)
           t == [s EXCEPT !.sync_completed = b]
<1>3. SameFiles(op[o], s) /\ s \in Operation
  BY <1>1, SynchronizedFiles, SynchronizedKept DEF CallOK, Kept
<1> HIDE DEF s, b
<1>4. /\ t.raw = s.raw /\ t.stamp = s.stamp /\ t.pinned = s.pinned /\ t.linked = s.linked
      /\ t.phase = s.phase /\ t.out_parent = s.out_parent
  BY <1>3 DEF Operation
<1>5. op'[o] = t /\ pc'[o] = "complete"
  BY <1>2, Moved DEF s, b
<1> HIDE DEF t
<1> QED BY <1>1, <1>3, <1>4, <1>5 DEF SameFiles

\* Completion ends a save, and sends an inspection to its input once more.
LEMMA CompleteFiles ==
  ASSUME CallsOK, NEW o \in Ops, Complete(o)
  PROVE  \/ Failed(o) \/ Onward(o)
         \/ /\ pc[o] = "complete" /\ pc'[o] = "pinned" /\ op'[o].phase = "return"
            /\ o \in Inspectors
            /\ op'[o].raw = op[o].raw /\ op'[o].stamp = op[o].stamp
            /\ op'[o].pinned = op[o].pinned /\ op'[o].linked = op[o].linked
            /\ op'[o].out_parent = op[o].out_parent
            /\ op'[o].sync_completed = op[o].sync_completed
<1>1. op[o] \in Operation /\ pc[o] = "complete"
  BY DEF CallsOK, Complete, At
<1> DEFINE s == [op[o] EXCEPT !.completion_sampled = TRUE]
           t == [s EXCEPT !.phase = "return"]
<1>2. s \in Operation
  BY <1>1, Zenon DEF Operation
<1>3. t \in Operation
  BY <1>2, Zenon DEF Operation
<1>4. SameFiles(op[o], s)
  BY <1>1 DEF SameFiles, Operation
<1>5. /\ t.phase = "return"
      /\ t.raw = s.raw /\ t.stamp = s.stamp /\ t.pinned = s.pinned /\ t.linked = s.linked
        /\ t.out_parent = s.out_parent /\ t.sync_completed = s.sync_completed
  BY <1>2 DEF Operation
<1>6. IF o \in Savers THEN Checkpoint(o, s, s, "pubParent") ELSE Checkpoint(o, s, t, "pinned")
  BY DEF Complete
<1> HIDE DEF s, t
<1>7. CASE o \in Savers
  <2>1. Failed(o) \/ Goes(o, s, "pubParent")
    BY <1>2, <1>4, <1>6, <1>7, CheckpointGoes
  <2> QED BY <1>1, <1>4, <1>7, <2>1, SameFilesGoes DEF Onward
<1>8. CASE o \in Inspectors
  <2>1. o \notin Savers
    BY <1>8
  <2>2. Failed(o) \/ Goes(o, t, "pinned")
    BY <1>2, <1>3, <1>4, <1>6, <2>1, CheckpointGoes
  <2> QED BY <1>1, <1>4, <1>5, <1>8, <2>2 DEF Goes, SameFiles
<1> QED BY <1>7, <1>8 DEF Ops

\* A call that goes on with the files it has keeps track of its input.
LEMMA OnwardTracks ==
  ASSUME CallsOK, NEW o \in Ops, Tracks(o, op[o], pc[o]), Onward(o) \/ Ends(o)
  PROVE  Tracks(o, op'[o], pc'[o])
<1> DEFINE s == op[o]
           t == op'[o]
<1>1. /\ t.raw = s.raw /\ t.stamp = s.stamp /\ t.pinned = s.pinned /\ t.linked = s.linked
      /\ t.phase = s.phase
  BY DEF Onward, Ends, Failed, Goes, SameFiles
<1>2. pc[o] \in Labels
  BY DEF CallsOK
<1>3. CASE Onward(o)
  <2>1. \/ pc[o] = "admit"   /\ pc'[o] = "walkIn"
        \/ pc[o] = "walkIn"  /\ pc'[o] = "pin"
        \/ pc[o] = "qualify" /\ pc'[o] = "read"
        \/ pc[o] = "pinned"  /\ pc'[o] = "binding"
        \/ pc[o] = "binding" /\ pc'[o] = "name"
        \/ /\ pc[o] \notin Reading \cup Unbound \cup {"pin"}
           /\ pc'[o] \notin Reading \cup Unbound \cup {"pin"}
    BY <1>3 DEF Onward, Goes, Reading, Rechecking, Unbound
  <2> HIDE DEF s, t
  <2> QED BY <1>1, <1>2, <2>1
  DEF Tracks, Read, Exact, Begun, Spoiled, Reading, Rechecking, Unbound, s, t
<1>4. CASE Ends(o)
  <2>1. pc'[o] \in Ending \cup {"escaped"}
    BY <1>4 DEF Ends, Failed, Goes
  <2> HIDE DEF s, t
  <2> QED BY <1>1, <2>1 DEF Tracks, Read, Exact, Reading, Rechecking, Unbound, s, t
<1> QED BY <1>3, <1>4

\* What is read at one moment is no older than what was pinned, no newer than what is there.
LEMMA ReadBlockTracks ==
  ASSUME TypeOK, CallsOK, Courses, NEW o \in Ops, Tracks(o, op[o], pc[o]), ReadBlock(o)
  PROVE  Tracks(o, op'[o], pc'[o])
<1> DEFINE s == op[o]
           t == op'[o]
           e == content[s.pinned]
<1>1. CASE Failed(o)
  BY <1>1, OnwardTracks DEF Ends
<1>2. CASE /\ pc[o] = "read" /\ pc'[o] = "read" /\ Len(s.raw) < e.size
           /\ t.raw = Append(s.raw, e) /\ t.stamp = s.stamp /\ t.pinned = s.pinned
           /\ t.linked = s.linked /\ t.phase = s.phase
  <2>1. /\ s.raw \in Seq(Version) /\ s.pinned \in Sources /\ ~s.linked /\ s.phase = "read"
        /\ s.stamp \in Version
    <3>1. s \in Operation /\ CallOK(o, s, "read")
      BY <1>2 DEF CallsOK
    <3>2. ~s.linked
      BY <1>2, <3>1, EarlyCourse DEF Courses, Early, Fresh, Unattempted
    <3> QED BY <3>1, <3>2 DEF CallOK, Unbound, Operation
  <2>2. /\ e \in Version /\ s.stamp.tick <= e.tick
        /\ \A k \in DOMAIN s.raw : s.stamp.tick <= s.raw[k].tick /\ s.raw[k].tick <= e.tick
        /\ Spoiled(o, s) \/ (e = s.stamp /\ Begun(s))
    BY <1>2, <2>1 DEF TypeOK, Tracks, Reading, Unbound
  <2>3. Spoiled(o, t) <=> Spoiled(o, s)
    BY <1>2 DEF Spoiled
  <2> HIDE DEF s, t, e
  <2>4. /\ Len(t.raw) = Len(s.raw) + 1 /\ DOMAIN t.raw = 1 .. Len(s.raw) + 1
        /\ DOMAIN s.raw = 1 .. Len(s.raw) /\ t.raw[Len(s.raw) + 1] = e
        /\ \A k \in DOMAIN s.raw : t.raw[k] = s.raw[k]
    BY <1>2, <2>1, <2>2
  <2>5. e.tick \in Nat /\ e.size \in Nat /\ Len(s.raw) \in Nat
    BY <2>1, <2>2 DEF Version
  <2>6. \A k \in DOMAIN t.raw : t.stamp.tick <= t.raw[k].tick /\ t.raw[k].tick <= e.tick
    <3> SUFFICES ASSUME NEW k \in DOMAIN t.raw
                 PROVE  t.stamp.tick <= t.raw[k].tick /\ t.raw[k].tick <= e.tick
      OBVIOUS
    <3>1. k \in DOMAIN s.raw \/ k = Len(s.raw) + 1
      BY <2>4, <2>5
    <3>2. CASE k \in DOMAIN s.raw
      BY <1>2, <2>2, <2>4, <3>2
    <3>3. CASE k = Len(s.raw) + 1
      BY <1>2, <2>2, <2>4, <2>5, <3>3
    <3> QED BY <3>1, <3>2, <3>3
  <2>7. e = s.stamp /\ Begun(s) => Begun(t)
    <3> SUFFICES ASSUME e = s.stamp, Begun(s) PROVE Begun(t)
      OBVIOUS
    <3>1. Len(t.raw) <= t.stamp.size
      BY <1>2, <2>4, <2>5
    <3>2. ASSUME NEW k \in DOMAIN t.raw PROVE t.raw[k] = t.stamp
      <4>1. k \in DOMAIN s.raw \/ k = Len(s.raw) + 1
        BY <2>4, <2>5
      <4> QED BY <1>2, <2>4, <4>1 DEF Begun
    <3> QED BY <3>1, <3>2 DEF Begun
  <2>8. t.stamp = s.stamp /\ content[t.pinned] = e /\ ~t.linked /\ t.phase = "read"
    BY <1>2, <2>1 DEF e
  <2> QED BY <1>2, <2>2, <2>3, <2>6, <2>7, <2>8 DEF Tracks, Reading, Rechecking, Unbound, t
<1> QED BY <1>1, <1>2, ReadBlockFiles

\* A call whose step changes what it has of its files still keeps track of its input.
LEMMA OtherTracks ==
  ASSUME Inv, Courses, CallsOK', NEW o \in Ops, Tracks(o, op[o], pc[o]),
         \/ Pin(o) \/ EndRead(o) \/ CheckName(o) \/ WalkOut(o) \/ SyncTemporary(o)
         \/ Link(o) \/ SyncParent(o) \/ Complete(o)
  PROVE  Tracks(o, op'[o], pc'[o])
<1> DEFINE s == op[o]
           t == op'[o]
<1> USE DEF Reading, Rechecking, Unbound
<1>1. CallsOK /\ TypeOK /\ s \in Operation /\ CallOK(o, s, pc[o]) /\ CallOK(o, t, pc'[o])
  BY DEF Inv, CallsOK
<1>2. ASSUME Onward(o) \/ Failed(o) PROVE Tracks(o, op'[o], pc'[o])
  BY <1>1, <1>2, OnwardTracks DEF Ends
<1>3. CASE Pin(o)
  <2>1. CASE /\ pc[o] = "pin" /\ pc'[o] = "qualify" /\ t.stamp = content[t.pinned]
             /\ t.raw = s.raw /\ t.linked = s.linked
    <3>1. t.pinned \in Sources /\ t.phase = "read" /\ s.raw = <<>> /\ ~s.linked
      <4>1. t.pinned \in Sources /\ t.phase = "read" /\ s.raw = <<>>
        BY <1>1, <2>1 DEF CallOK, Tracks
      <4>2. Fresh(o, s)
        BY <1>1, <2>1, EarlyCourse DEF Courses, Early
      <4> QED BY <4>1, <4>2 DEF Fresh, Unattempted
    <3>2. t.stamp \in Version
      BY <1>1, <2>1, <3>1 DEF TypeOK
    <3> HIDE DEF s, t
    <3>3. t.stamp.tick <= content[t.pinned].tick /\ Begun(t)
      BY <2>1, <3>1, <3>2 DEF Version, Begun
    <3> QED BY <2>1, <3>1, <3>3 DEF Tracks, t
  <2> QED BY <1>1, <1>2, <1>3, <2>1, PinFiles
<1>4. CASE EndRead(o)
  <2>1. CASE pc[o] = "read" /\ Len(s.raw) >= content[s.pinned].size /\ Goes(o, s, "pinned")
    <3>1. /\ t.raw = s.raw /\ t.stamp = s.stamp /\ t.pinned = s.pinned /\ t.linked = s.linked
          /\ t.phase = s.phase /\ pc'[o] = "pinned"
      BY <2>1 DEF Goes, SameFiles
    <3>2. s.stamp.size \in Nat /\ Len(s.raw) \in Nat /\ s.phase = "read" /\ ~s.linked
      <4>1. s.phase = "read" /\ s.stamp \in Version /\ s.raw \in Seq(Version)
        BY <1>1, <2>1 DEF CallOK, Operation
      <4>2. ~s.linked
        BY <1>1, <2>1, EarlyCourse DEF Courses, Early, Fresh, Unattempted
      <4> QED BY <4>1, <4>2 DEF Version
    <3> HIDE DEF s, t
    <3>3. content[s.pinned] = s.stamp /\ Begun(s) => Exact(t)
      BY <2>1, <3>1, <3>2 DEF Begun, Exact
    <3>4. Spoiled(o, s) => Spoiled(o, t)
      BY <3>1 DEF Spoiled
    <3> QED BY <2>1, <3>1, <3>2, <3>3, <3>4 DEF Tracks, s, t
  <2> QED BY <1>1, <1>2, <1>4, <2>1, EndReadFiles
<1>5. CASE CheckName(o)
  <2>1. CASE /\ pc[o] = "name" /\ SameStamp(content[s.pinned], s.stamp)
             /\ Goes(o, s, AfterBinding(s))
    <3>1. /\ t.raw = s.raw /\ t.stamp = s.stamp /\ t.pinned = s.pinned /\ t.linked = s.linked
          /\ t.phase = s.phase /\ pc'[o] \in {"decode", "outBinding", "settle"}
      BY <1>1, <2>1 DEF Goes, SameFiles, AfterBinding, Operation
    <3>2. s.stamp \in Version /\ s.raw \in Seq(Version) /\ s.phase \in {"read", "link", "return"}
      BY <1>1 DEF Operation
    <3>3. Read(o, s)
      <4>1. content[s.pinned].tick = s.stamp.tick
        BY <2>1 DEF SameStamp
      <4>2. s.stamp.tick \in Nat /\ \A k \in DOMAIN s.raw : s.raw[k].tick \in Nat
        <5>1. \A k \in DOMAIN s.raw : s.raw[k] \in Version
          BY <3>2
        <5> QED BY <3>2, <5>1 DEF Version
      <4>3. \A k \in DOMAIN s.raw : s.stamp.tick <= s.raw[k].tick /\ s.raw[k].tick <= s.stamp.tick
        BY <2>1, <4>1 DEF Tracks
      <4>4. s.phase = "read" => hidden[o] \/ Exact(s)
        BY <2>1 DEF Tracks, Spoiled
      <4>5. s.phase # "read" => hidden[o] \/ Exact(s)
        BY <2>1 DEF Tracks, Read
      <4>6. \A k \in DOMAIN s.raw : s.raw[k].tick = s.stamp.tick
        BY <4>2, <4>3
      <4> QED BY <4>4, <4>5, <4>6 DEF Read
    <3>4. s.stamp.tick <= content[s.pinned].tick
      BY <2>1 DEF Tracks
    <3> HIDE DEF s, t
    <3> QED BY <2>1, <3>1, <3>3, <3>4 DEF Tracks, Read, Exact, s, t
  <2> QED BY <1>1, <1>2, <1>5, <2>1, CheckNameFiles
<1>6. ASSUME pc[o] \notin Reading \cup Unbound \cup {"pin"},
             pc'[o] \notin Reading \cup Unbound \cup {"pin"},
             t.raw = s.raw, t.stamp = s.stamp, t.pinned = s.pinned
      PROVE  Tracks(o, op'[o], pc'[o])
  <2> HIDE DEF s, t
  <2> QED BY <1>6 DEF Tracks, Read, Exact, s, t
<1>7. ASSUME pc[o] \notin Reading \cup Unbound \cup {"pin"}, pc'[o] = "pinned",
             t.raw = s.raw, t.stamp = s.stamp, t.pinned = s.pinned
      PROVE  Tracks(o, op'[o], pc'[o])
  <2>1. s.stamp.tick <= content[s.pinned].tick /\ Read(o, s) /\ s.stamp \in Version
    BY <1>1, <1>7 DEF Tracks, Operation
  <2> HIDE DEF s, t
  <2> QED BY <1>7, <2>1 DEF Tracks, Read, Exact, Spoiled, Version, t
<1>8. CASE WalkOut(o)
  BY <1>1, <1>2, <1>6, <1>8, WalkOutFiles
<1>9. CASE SyncTemporary(o)
  BY <1>1, <1>2, <1>7, <1>9, SyncTemporaryFiles
<1>10. CASE Link(o)
  BY <1>1, <1>2, <1>6, <1>10, LinkFiles
<1>11. CASE SyncParent(o)
  BY <1>1, <1>6, <1>11, SyncParentFiles
<1>12. CASE Complete(o)
  BY <1>1, <1>2, <1>7, <1>12, CompleteFiles
<1> QED BY <1>3, <1>4, <1>5, <1>8, <1>9, <1>10, <1>11, <1>12

\* Whatever a call does, it keeps track of its input.
LEMMA CallTracks ==
  ASSUME Inv, Courses, CallsOK', NEW o \in Ops, Tracks(o, op[o], pc[o]),
         LocalStep(o) \/ Link(o) \/ SyncParent(o) \/ Escape(o)
  PROVE  Tracks(o, op'[o], pc'[o])
BY OnwardTracks, ReadBlockTracks, OtherTracks, IntakeFiles, SavingFiles, EndingFiles
DEF LocalStep, Inv

\* Where a call at a label can still notice an edit of its input.
Looking(o, l) == \/ l \in {"qualify", "read", "decode", "walkOut", "prepare", "write"}
                 \/ l \in {"pinned", "binding", "name"}
                 \/ l = "complete" /\ o \in Inspectors

\* That is where the model lets it notice one.
LEMMA StillLooking == \A o : StillChecking(o) <=> Looking(o, pc[o])
BY DEF StillChecking, Looking

\* A call whose input was edited in time goes on to notice it, or ends with a failure.
LEMMA CallNotices ==
  ASSUME Inv, CallsOK', NEW o \in Ops, Notices(o, op[o], pc[o]), disturbed[o],
         LocalStep(o) \/ Link(o) \/ SyncParent(o) \/ Escape(o)
  PROVE  /\ ~op'[o].linked /\ pc'[o] # "admit" /\ pc'[o] \notin {"walkIn", "pin"}
         /\ \/ /\ op'[o].pinned \in Sources /\ op'[o].stamp.tick < content[op'[o].pinned].tick
               /\ Looking(o, pc'[o])
            \/ pc'[o] \in Ending /\ op'[o].failure # "none"
            \/ pc'[o] = "escaped"
<1> DEFINE s == op[o]
           t == op'[o]
           Goal == /\ ~t.linked /\ pc'[o] # "admit" /\ pc'[o] \notin {"walkIn", "pin"}
                   /\ \/ /\ t.pinned \in Sources /\ t.stamp.tick < content[t.pinned].tick
                         /\ Looking(o, pc'[o])
                      \/ pc'[o] \in Ending /\ t.failure # "none"
                      \/ pc'[o] = "escaped"
<1> SUFFICES Goal
  OBVIOUS
<1>1. CallsOK /\ TypeOK /\ s \in Operation
  BY DEF Inv, CallsOK
<1>2. /\ ~s.linked /\ pc[o] \notin {"admit", "walkIn", "pin"}
      /\ \/ /\ s.pinned \in Sources /\ s.stamp.tick < content[s.pinned].tick
            /\ Looking(o, pc[o])
         \/ pc[o] \in Ending /\ s.failure # "none"
         \/ pc[o] = "escaped"
  BY StillLooking DEF Notices
<1>3. ASSUME t.stamp = s.stamp, t.pinned = s.pinned, t.linked = s.linked,
             Looking(o, pc[o]), Looking(o, pc'[o])
      PROVE  Goal
  BY <1>2, <1>3 DEF Looking
<1>4. CASE Failed(o)
  BY <1>2, <1>4 DEF Failed, SameFiles
<1>5. CASE Ends(o)
  BY <1>2, <1>4, <1>5 DEF Ends, Goes, SameFiles, Looking
<1>6. CASE Onward(o)
  <2>1. t.stamp = s.stamp /\ t.pinned = s.pinned /\ t.linked = s.linked
    BY <1>6 DEF Onward, Goes, SameFiles
  <2>2. Looking(o, pc'[o]) /\ Looking(o, pc[o])
    BY <1>2, <1>6 DEF Onward, Goes, Looking, Ops
  <2> QED BY <1>3, <2>1, <2>2
<1>7. CASE Pin(o)
  BY <1>2, <1>7 DEF Pin, At
<1>8. CASE ReadBlock(o)
  BY <1>1, <1>3, <1>4, <1>8, ReadBlockFiles DEF Looking
<1>9. CASE EndRead(o)
  BY <1>1, <1>3, <1>4, <1>9, EndReadFiles DEF Goes, SameFiles, Looking
<1>10. CASE CheckName(o)
  <2>1. CASE pc[o] = "name" /\ SameStamp(content[s.pinned], s.stamp)
    BY <1>1, <1>2, <2>1 DEF Operation, Version, SameStamp
  <2> QED BY <1>1, <1>4, <1>10, <2>1, CheckNameFiles
<1>11. CASE WalkOut(o)
  BY <1>1, <1>3, <1>4, <1>11, WalkOutFiles DEF Looking
<1>12. CASE SyncTemporary(o)
  BY <1>1, <1>3, <1>4, <1>12, SyncTemporaryFiles DEF Looking
<1>13. CASE Link(o)
  BY <1>2, <1>13 DEF Link, At, Looking
<1>14. CASE SyncParent(o)
  BY <1>2, <1>14 DEF SyncParent, At, Looking
<1>15. CASE Complete(o)
  BY <1>1, <1>3, <1>4, <1>6, <1>15, CompleteFiles DEF Looking
<1>16. CASE Onward(o) \/ Ends(o)
  BY <1>5, <1>6, <1>16
<1> HIDE DEF Goal
<1> QED
  BY <1>1, <1>7, <1>8, <1>9, <1>10, <1>11, <1>12, <1>13, <1>14, <1>15, <1>16, IntakeFiles,
     SavingFiles, EndingFiles
  DEF LocalStep

\* No input was selected at the start.
LEMMA InitInputs == Init => Inputs
<1> SUFFICES ASSUME Init, NEW o \in Ops PROVE Tracks(o, op[o], pc[o]) /\ Notices(o, op[o], pc[o])
  BY DEF Inputs
<1>1. op[o] = NewOperation /\ pc[o] = "admit" /\ ~disturbed[o]
  BY DEF Init
<1>2. op[o].raw = <<>> /\ ~op[o].linked /\ op[o].phase = "read"
  BY <1>1 DEF NewOperation
<1> QED BY <1>1, <1>2 DEF Tracks, Notices, Reading, Rechecking, Unbound

\* A call that can still notice an edit has not published, and has pinned its input.
LEMMA LookingFresh ==
  ASSUME Inv, Courses, Inputs, NEW o \in Ops, Looking(o, pc[o])
  PROVE  /\ ~op[o].linked /\ op[o].pinned \in Sources
         /\ op[o].stamp.tick <= content[op[o].pinned].tick
         /\ pc[o] \notin {"admit", "walkIn", "pin"}
<1>1. op[o] \in Operation /\ CallOK(o, op[o], pc[o]) /\ Course(o, op[o], pc[o])
  BY DEF Inv, CallsOK, Courses
<1>2. pc[o] \in Early \/ (pc[o] = "complete" /\ o \in Inspectors)
  BY DEF Looking, Early
<1>3. ~op[o].linked
  BY <1>1, <1>2, EarlyCourse DEF Fresh, Unattempted
<1>4. pc[o] \notin Unbound \cup {"pin"}
  BY DEF Looking, Unbound
<1> QED BY <1>1, <1>3, <1>4 DEF CallOK, Inputs, Tracks, Unbound

\* Every step, of a call or of another user, keeps track of the inputs.
LEMMA NextInputs == Inv /\ Courses /\ Inputs /\ [Next]_vars => Inputs'
<1> SUFFICES ASSUME Inv, Courses, Inputs, [Next]_vars, NEW p \in Ops
             PROVE  Tracks(p, op[p], pc[p])' /\ Notices(p, op[p], pc[p])'
  BY DEF Inputs
<1>1. /\ CallsOK' /\ CallsOK /\ TypeOK /\ op[p] \in Operation
      /\ Tracks(p, op[p], pc[p]) /\ Notices(p, op[p], pc[p])
  BY NextInv DEF Inv, Inputs, CallsOK
<1>2. ASSUME UNCHANGED <<content, disturbed, hidden>>, pc'[p] = pc[p],
             op'[p].raw = op[p].raw, op'[p].stamp = op[p].stamp, op'[p].pinned = op[p].pinned,
             op'[p].linked = op[p].linked, op'[p].phase = op[p].phase,
             op'[p].failure = op[p].failure
      PROVE  Tracks(p, op[p], pc[p])' /\ Notices(p, op[p], pc[p])'
  <2>1. Tracks(p, op[p], pc[p])'
    BY <1>1, <1>2 DEF Tracks, Read, Exact, Begun, Spoiled, SameStamp
  <2>2. Notices(p, op[p], pc[p])'
    BY <1>1, <1>2 DEF Notices, StillChecking
  <2> QED BY <2>1, <2>2
<1>3. ASSUME NEW o \in Ops, LocalStep(o) \/ Link(o) \/ SyncParent(o) \/ Escape(o),
             UNCHANGED <<content, disturbed, hidden>>
      PROVE  Tracks(p, op[p], pc[p])' /\ Notices(p, op[p], pc[p])'
  <2>1. CASE p = o
    <3>1. Tracks(p, op'[p], pc'[p])
      BY <1>1, <1>3, <2>1, CallTracks
    <3>2. Tracks(p, op[p], pc[p])'
      BY <1>3, <3>1 DEF Tracks, Read, Spoiled, Exact, Begun, SameStamp
    <3>3. CASE disturbed[p]
      <4>1. /\ ~op'[o].linked /\ pc'[o] # "admit" /\ pc'[o] \notin {"walkIn", "pin"}
            /\ \/ /\ op'[o].pinned \in Sources /\ op'[o].stamp.tick < content[op'[o].pinned].tick
                  /\ Looking(o, pc'[o])
               \/ pc'[o] \in Ending /\ op'[o].failure # "none"
               \/ pc'[o] = "escaped"
        BY <1>1, <1>3, <2>1, <3>3, CallNotices
      <4>2. StillChecking(o)' <=> Looking(o, pc'[o])
        BY DEF StillChecking, Looking
      <4> QED BY <1>3, <2>1, <3>2, <4>1, <4>2 DEF Notices
    <3>4. CASE ~disturbed[p]
      BY <1>3, <3>2, <3>4 DEF Notices
    <3> QED BY <3>3, <3>4
  <2>2. CASE p # o
    <3>1. op'[p] = op[p] /\ pc'[p] = pc[p]
      BY <1>1, <1>3, <2>2, OneCallMoves
    <3> QED BY <1>2, <1>3, <3>1
  <2> QED BY <2>1, <2>2
<1>4. ASSUME NEW i \in Sources, EditSource(i)
      PROVE  Tracks(p, op[p], pc[p])' /\ Notices(p, op[p], pc[p])'
  <2> DEFINE s == op[p]
             c == content[s.pinned]
             e == content'[s.pinned]
  <2>1. PICK tick \in {content[i].tick, content[i].tick + 1}, size \in Sizes :
          LET v == [edit |-> content[i].edit + 1, tick |-> tick, size |-> size] IN
          /\ content' = [content EXCEPT ![i] = v]
          /\ disturbed' = [o \in Ops |-> disturbed[o] \/ Disturbs(o, i, v)]
          /\ hidden' = [o \in Ops |-> hidden[o] \/ Hides(o, i, v)]
    BY <1>4 DEF EditSource
  <2>2. op' = op /\ pc' = pc
    BY <1>4 DEF EditSource
  <2>3. content'[i] = [edit |-> content[i].edit + 1, tick |-> tick, size |-> size]
    BY <1>1, <1>4, <2>1 DEF TypeOK
  <2>4. /\ \A j \in Sources : j # i => content'[j] = content[j]
        /\ disturbed'[p] <=> (disturbed[p] \/ Disturbs(p, i, content'[i]))
        /\ hidden'[p] <=> (hidden[p] \/ Hides(p, i, content'[i]))
    BY <1>1, <2>1, <2>3 DEF TypeOK
  <2>5. \A j \in Sources : /\ content[j].tick \in Nat /\ content'[j].tick \in Nat
                           /\ content[j].tick <= content'[j].tick
    <3> SUFFICES ASSUME NEW j \in Sources
                 PROVE  /\ content[j].tick \in Nat /\ content'[j].tick \in Nat
                        /\ content[j].tick <= content'[j].tick
      OBVIOUS
    <3>1. content[j].tick \in Nat /\ content[i].tick \in Nat
      BY <1>1 DEF TypeOK, Version
    <3> QED BY <2>1, <2>3, <2>4, <3>1
  <2>6. pc[p] \notin Unbound \cup {"pin"} => s.pinned \in Sources
    BY <1>1 DEF CallsOK, CallOK
  <2>7. s.stamp.tick \in Nat /\ \A k \in DOMAIN s.raw : s.raw[k].tick \in Nat
    <3>1. s.stamp \in Version /\ s.raw \in Seq(Version)
      BY <1>1 DEF Operation
    <3>2. \A k \in DOMAIN s.raw : s.raw[k] \in Version
      BY <3>1
    <3> QED BY <3>1, <3>2 DEF Version
  <2>8. pc[p] \notin Unbound \cup {"pin"} => s.stamp.tick <= e.tick
    <3>1. pc[p] \notin Unbound \cup {"pin"} => s.stamp.tick <= c.tick
      BY <1>1 DEF Tracks
    <3> QED BY <2>5, <2>6, <2>7, <3>1
  <2>9. Tracks(p, op[p], pc[p])'
    <3>1. pc[p] \in Reading => pc[p] \notin Unbound \cup {"pin"}
      BY DEF Reading, Rechecking, Unbound
    <3>2. pc[p] \in Reading => \A k \in DOMAIN s.raw : /\ s.stamp.tick <= s.raw[k].tick
                                                     /\ s.raw[k].tick <= e.tick
      <4>1. pc[p] \in Reading => \A k \in DOMAIN s.raw : /\ s.stamp.tick <= s.raw[k].tick
                                                       /\ s.raw[k].tick <= c.tick
        BY <1>1 DEF Tracks
      <4> QED BY <2>5, <2>6, <2>7, <3>1, <4>1
    <3>3. s.pinned = i /\ StillReading(p) => Spoiled(p, s)'
      BY <2>2, <2>4 DEF Hides, Spoiled, SameStamp
    <3>4. s.pinned # i /\ s.pinned \in Sources => e = c
      BY <2>4
    <3>5. s.pinned # i /\ s.pinned \in Sources /\ Spoiled(p, s) => Spoiled(p, s)'
      BY <2>2, <2>4, <3>4 DEF Spoiled, SameStamp
    <3>6. pc[p] \in {"qualify", "read"} =>
            Spoiled(p, s)' \/ (content'[s.pinned] = s.stamp /\ Begun(s))
      <4>1. pc[p] \in {"qualify", "read"} => StillReading(p) /\ s.pinned \in Sources
        BY <1>1, <2>6 DEF CallsOK, CallOK, StillReading, Unbound
      <4>2. pc[p] \in {"qualify", "read"} => Spoiled(p, s) \/ (c = s.stamp /\ Begun(s))
        BY <1>1 DEF Tracks
      <4> QED BY <3>3, <3>4, <3>5, <4>1, <4>2
    <3>7. pc[p] \in Rechecking /\ s.phase = "read" => Spoiled(p, s)' \/ Exact(s)
      <4>1. pc[p] \in Rechecking /\ s.phase = "read" => StillReading(p) /\ s.pinned \in Sources
        BY <2>6 DEF StillReading, Rechecking, Unbound
      <4>2. pc[p] \in Rechecking /\ s.phase = "read" => Spoiled(p, s) \/ Exact(s)
        BY <1>1 DEF Tracks
      <4> QED BY <3>3, <3>5, <4>1, <4>2
    <3>8. Read(p, s) => Read(p, s)'
      BY <2>2, <2>4 DEF Read, Exact
    <3>9. Begun(s)' = Begun(s) /\ Exact(s)' = Exact(s)
      BY <2>2 DEF Begun, Exact
    <3> QED BY <1>1, <2>2, <2>8, <3>2, <3>6, <3>7, <3>8, <3>9 DEF Tracks
  <2>10. CASE Disturbs(p, i, content'[i])
    <3>1. Looking(p, pc[p]) /\ s.pinned = i /\ s.stamp.tick < content'[i].tick
      BY <2>5, <2>7, <2>10, StillLooking DEF Disturbs
    <3>2. ~s.linked /\ pc[p] \notin {"admit", "walkIn", "pin"}
      BY <3>1, LookingFresh
    <3>3. StillChecking(p)'
      BY <2>2, <2>10 DEF Disturbs, StillChecking
    <3> QED BY <1>4, <2>2, <2>9, <3>1, <3>2, <3>3 DEF Notices
  <2>11. CASE ~Disturbs(p, i, content'[i])
    <3>1. s.pinned \in Sources /\ s.stamp.tick < c.tick => s.stamp.tick < e.tick
      BY <2>5, <2>7
    <3>2. StillChecking(p)' <=> StillChecking(p)
      BY <2>2 DEF StillChecking
    <3>3. disturbed'[p] <=> disturbed[p]
      BY <2>4, <2>11
    <3> QED BY <1>1, <2>2, <2>9, <3>1, <3>2, <3>3 DEF Notices
  <2> QED BY <2>10, <2>11
<1>5. CASE PowerLoss
  BY <1>1, <1>2, <1>5, PowerLossKeeps DEF PowerLoss
<1>6. CASE Environment
  <2>1. CASE op' = op /\ pc' = pc /\ UNCHANGED <<content, disturbed, hidden>>
    BY <1>2, <2>1
  <2> QED BY <1>4, <1>5, <1>6, <2>1
  DEF Environment, ReplaceSource, ReplaceDestination, RebindParents
<1>7. CASE UNCHANGED vars
  BY <1>2, <1>7 DEF vars
<1>8. ASSUME NEW o \in Ops, OpStep(o) \/ (Escape(o) /\ UNCHANGED fs)
      PROVE  Tracks(p, op[p], pc[p])' /\ Notices(p, op[p], pc[p])'
  BY <1>3, <1>8 DEF OpStep, fs
<1> QED BY <1>6, <1>7, <1>8 DEF Next, Stopped

-----------------------------------------------------------------------------
(* The names the calls make.                                               *)

\* No name is made at the start.
LEMMA InitNames == Init => Names
BY DEF Init, Names, NewOperation, OneWinner, Outgoing, Rechecking, Ops

\* A call that has not published is not behind any name.
LEMMA Nameless ==
  ASSUME Inv, NEW o \in Savers, ~op[o].linked, NEW d \in Dirs
  PROVE  dst[d] # o /\ stable[d] # o
BY DEF Inv, NamesLinked

\* The parent a saver has selected is the one that is bound until somebody meddles.
Bound(o, s, l) ==
  /\ l \in Outgoing => s.out_parent = outDir
  /\ l \in Rechecking /\ s.phase = "link" => s.out_parent = outDir

\* A step of a call that touches no name leaves every name as it is.
LEMMA QuietNames ==
  ASSUME Inv, Names, NEW o \in Ops, UNCHANGED fs,
         \A p \in Ops : p # o => op'[p] = op[p] /\ pc'[p] = pc[p],
         op'[o].linked = op[o].linked, op'[o].sync_completed = op[o].sync_completed,
         \/ op'[o].out_parent = op[o].out_parent
         \/ ~op[o].linked,
         o \in Savers /\ meddled = 0 /\ up => Bound(o, op'[o], pc'[o])
  PROVE  Names'
<1>1. \A p \in Savers : p \in Ops
  BY DEF Ops
<1>2. \A p \in Savers : /\ op'[p].linked = op[p].linked
                        /\ op'[p].sync_completed = op[p].sync_completed
  BY <1>1
<1>3. ASSUME NEW d \in Dirs, NEW p \in Savers
      PROVE  /\ dst'[d] = p \/ stable'[d] = p => d = op'[p].out_parent
             /\ dst'[d] = p /\ op'[p].sync_completed => stable'[d] = p
  <2>1. dst'[d] = dst[d] /\ stable'[d] = stable[d]
    BY DEF fs
  <2>2. dst[d] = p \/ stable[d] = p => op'[p].out_parent = op[p].out_parent
    BY <1>1, Nameless
  <2> QED BY <1>2, <2>1, <2>2 DEF Names
<1>4. ASSUME meddled' = 0, up', NEW p \in Savers
      PROVE  /\ pc'[p] \in Outgoing => op'[p].out_parent = outDir'
             /\ pc'[p] \in Rechecking /\ op'[p].phase = "link" => op'[p].out_parent = outDir'
             /\ op'[p].linked => dst'[outDir'] = p
  <2>1. meddled = 0 /\ up /\ outDir' = outDir /\ dst' = dst
    BY <1>4 DEF fs
  <2>2. Bound(p, op'[p], pc'[p])
    BY <1>1, <2>1 DEF Names, Bound
  <2> QED BY <1>2, <2>1, <2>2 DEF Names, Bound
<1>5. OneWinner'
  BY <1>2 DEF Names, OneWinner, fs
<1> QED BY <1>3, <1>4, <1>5 DEF Names

\* Nor does a step that leaves the files of its call as they are.
LEMMA LocalNames ==
  ASSUME Inv, Courses, Names, CallsOK', NEW o \in Ops, LocalStep(o) \/ Escape(o), UNCHANGED fs
  PROVE  Names'
<1>1. CallsOK /\ TypeOK /\ op[o] \in Operation
  BY DEF Inv, CallsOK
<1>2. \A p \in Ops : p # o => op'[p] = op[p] /\ pc'[p] = pc[p]
  BY <1>1, OneCallMoves
<1>3. o \in Savers /\ meddled = 0 /\ up => Bound(o, op[o], pc[o])
  BY DEF Names, Bound
<1>4. ASSUME op'[o].linked = op[o].linked, op'[o].sync_completed = op[o].sync_completed,
             op'[o].out_parent = op[o].out_parent, op'[o].phase = op[o].phase,
             \/ pc'[o] \notin Outgoing \cup Rechecking
             \/ pc[o] \in Outgoing
             \/ pc[o] \in Rechecking /\ pc'[o] \in Rechecking
             \/ pc[o] \in Rechecking /\ op[o].phase = "link"
             \/ pc'[o] \in Rechecking /\ op[o].phase # "link"
      PROVE  Names'
  <2>1. o \in Savers /\ meddled = 0 /\ up => Bound(o, op'[o], pc'[o])
    BY <1>3, <1>4 DEF Bound, Outgoing, Rechecking
  <2> QED BY <1>2, <1>4, <2>1, QuietNames
<1>5. CASE Onward(o) \/ Ends(o)
  <2>1. /\ op'[o].linked = op[o].linked /\ op'[o].sync_completed = op[o].sync_completed
        /\ op'[o].out_parent = op[o].out_parent /\ op'[o].phase = op[o].phase
    BY <1>5 DEF Onward, Ends, Failed, Goes, SameFiles
  <2>2. \/ pc'[o] \notin Outgoing \cup Rechecking
        \/ pc[o] \in Outgoing
        \/ pc[o] \in Rechecking /\ pc'[o] \in Rechecking
    BY <1>5 DEF Onward, Ends, Failed, Goes, Outgoing, Rechecking
  <2> QED BY <1>4, <2>1, <2>2
<1>6. CASE Pin(o)
  BY <1>1, <1>4, <1>5, <1>6, PinFiles DEF Ends, Outgoing, Rechecking
<1>7. CASE ReadBlock(o)
  BY <1>1, <1>4, <1>5, <1>7, ReadBlockFiles DEF Ends, Outgoing, Rechecking
<1>8. CASE EndRead(o)
  <2>1. pc[o] = "read" => op[o].phase = "read"
    BY <1>1 DEF CallsOK, CallOK
  <2> QED BY <1>1, <1>4, <1>5, <1>8, <2>1, EndReadFiles
          DEF Ends, Goes, SameFiles, Outgoing, Rechecking
<1>9. CASE CheckName(o)
  <2>1. CASE pc[o] = "name" /\ Goes(o, op[o], AfterBinding(op[o]))
    <3>1. pc'[o] \in {"decode", "settle"} \/ op[o].phase = "link"
      BY <1>1, <2>1 DEF Goes, AfterBinding, Operation
    <3> QED BY <1>4, <2>1, <3>1 DEF Goes, SameFiles, Outgoing, Rechecking
  <2> QED BY <1>1, <1>5, <1>9, <2>1, CheckNameFiles DEF Ends
<1>10. CASE WalkOut(o)
  <2>1. CASE /\ pc[o] = "walkOut" /\ pc'[o] = "prepare" /\ op'[o].out_parent = outDir
             /\ op'[o].linked = op[o].linked /\ op'[o].sync_completed = op[o].sync_completed
    <3>1. ~op[o].linked
      BY <1>1, <2>1, EarlyCourse DEF Courses, Early, Fresh, Unattempted
    <3>2. Bound(o, op'[o], pc'[o])
      BY <2>1 DEF Bound, Outgoing, Rechecking
    <3> QED BY <1>2, <2>1, <3>1, <3>2, QuietNames
  <2> QED BY <1>1, <1>5, <1>10, <2>1, WalkOutFiles DEF Ends
<1>11. CASE SyncTemporary(o)
  <2>1. CASE /\ pc[o] = "write" /\ pc'[o] = "pinned"
             /\ op'[o].out_parent = op[o].out_parent
             /\ op'[o].linked = op[o].linked /\ op'[o].sync_completed = op[o].sync_completed
    <3>1. o \in Savers /\ meddled = 0 /\ up => Bound(o, op'[o], pc'[o])
      BY <1>3, <2>1 DEF Bound, Outgoing, Rechecking
    <3> QED BY <1>2, <2>1, <3>1, QuietNames
  <2> QED BY <1>1, <1>5, <1>11, <2>1, SyncTemporaryFiles DEF Ends
<1>12. CASE Complete(o)
  <2>1. CASE /\ o \in Inspectors
             /\ op'[o].out_parent = op[o].out_parent
             /\ op'[o].linked = op[o].linked /\ op'[o].sync_completed = op[o].sync_completed
    <3>1. o \notin Savers
      BY <2>1
    <3> QED BY <1>2, <2>1, <3>1, QuietNames
  <2> QED BY <1>1, <1>5, <1>12, <2>1, CompleteFiles DEF Ends
<1> QED BY <1>1, <1>5, <1>6, <1>7, <1>8, <1>9, <1>10, <1>11, <1>12, IntakeFiles, SavingFiles,
           EndingFiles
    DEF LocalStep

\* The link is made where there was no name, and where no other saver has made one.
LEMMA LinkNames ==
  ASSUME Inv, Courses, Names, CallsOK', NEW o \in Ops, Link(o),
         UNCHANGED <<inDir, outDir, src, content, stable, up, meddled, disturbed, hidden>>
  PROVE  Names'
<1>1. /\ CallsOK /\ TypeOK /\ op[o] \in Operation /\ o \in Savers /\ pc[o] = "link"
      /\ op[o].out_parent \in Dirs
  BY DEF Inv, CallsOK, CallOK, Link, At, Outgoing
<1>2. \A p \in Ops : p # o => op'[p] = op[p] /\ pc'[p] = pc[p]
  BY <1>1, OneCallMoves
<1>3. ~op[o].linked /\ ~op[o].sync_completed
  BY <1>1, EarlyCourse DEF Courses, Early, Fresh, Unattempted
<1>4. op'[o].out_parent = op[o].out_parent /\ op'[o].sync_completed = op[o].sync_completed
  BY <1>1, LinkFiles DEF Failed, SameFiles
<1>5. pc'[o] \in {"settle", "afterLink", "observe"}
  BY <1>1, LinkFiles DEF Failed
<1>6. meddled = 0 /\ up => op[o].out_parent = outDir
  BY <1>1 DEF Names, Outgoing
<1>7. CASE UNCHANGED dst /\ op'[o].linked = op[o].linked
  <2>1. o \in Savers /\ meddled = 0 /\ up => Bound(o, op'[o], pc'[o])
    BY <1>4, <1>5, <1>6 DEF Bound, Rechecking
  <2> QED BY <1>2, <1>4, <1>7, <2>1, QuietNames DEF fs
<1>8. CASE LinkTakesEffect(o) /\ op'[o].linked = TRUE
  <2>1. /\ dst[op[o].out_parent] = None /\ dst'[op[o].out_parent] = o
        /\ \A d \in Dirs : d # op[o].out_parent => dst'[d] = dst[d]
    BY <1>1, <1>8 DEF LinkTakesEffect, TypeOK
  <2>2. \A p \in Savers : p \in Ops /\ p # None
    BY DEF Ops
  <2>3. ASSUME NEW d \in Dirs, NEW p \in Savers
        PROVE  /\ dst'[d] = p \/ stable'[d] = p => d = op'[p].out_parent
               /\ dst'[d] = p /\ op'[p].sync_completed => stable'[d] = p
    <3>1. CASE p = o
      <4>1. stable'[d] # o /\ dst[d] # o /\ ~op'[o].sync_completed
        BY <1>1, <1>3, <1>4, Nameless
      <4> QED BY <1>4, <2>1, <3>1, <4>1
    <3>2. CASE p # o
      <4>1. op'[p] = op[p] /\ (dst'[d] = p => dst[d] = p) /\ stable'[d] = stable[d]
        BY <1>2, <2>1, <2>2, <3>2
      <4> QED BY <4>1 DEF Names
    <3> QED BY <3>1, <3>2
  <2>4. ASSUME meddled = 0, up, NEW p \in Savers
        PROVE  /\ pc'[p] \in Outgoing => op'[p].out_parent = outDir
               /\ pc'[p] \in Rechecking /\ op'[p].phase = "link" => op'[p].out_parent = outDir
               /\ op'[p].linked => dst'[outDir] = p
    <3>1. CASE p = o
      BY <1>4, <1>5, <1>6, <2>1, <2>4, <3>1 DEF Rechecking
    <3>2. CASE p # o
      <4>1. op'[p] = op[p] /\ pc'[p] = pc[p]
        BY <1>2, <2>2, <3>2
      <4>2. ~op[p].linked
        BY <1>6, <2>1, <2>2, <2>4 DEF Names
      <4> QED BY <2>4, <4>1, <4>2 DEF Names
    <3> QED BY <3>1, <3>2
  <2>5. OneWinner'
    <3>1. ASSUME meddled = 0, NEW p \in Savers, p # o PROVE ~op'[p].linked
      <4>1. up /\ op'[p] = op[p]
        BY <1>2, <2>2, <3>1 DEF Link, At
      <4>2. op[p].linked => dst[outDir] = p
        BY <3>1, <4>1 DEF Names
      <4> QED BY <1>6, <2>1, <2>2, <3>1, <4>1, <4>2
    <3> QED BY <3>1 DEF OneWinner
  <2> QED BY <2>3, <2>4, <2>5 DEF Names
<1> QED BY <1>1, <1>7, <1>8, LinkFiles DEF Failed, SameFiles

\* A directory that was synchronized keeps the name that was there then.
LEMMA SyncParentNames ==
  ASSUME Inv, Courses, Names, CallsOK', NEW o \in Ops, SyncParent(o),
         UNCHANGED <<inDir, outDir, src, dst, content, up, meddled, disturbed, hidden>>
  PROVE  Names'
<1>1. /\ CallsOK /\ TypeOK /\ op[o] \in Operation /\ o \in Savers /\ pc[o] = "syncParent"
      /\ op[o].out_parent \in Dirs /\ Course(o, op[o], pc[o])
  BY DEF Inv, CallsOK, CallOK, SyncParent, At, Outgoing, Courses
<1>2. \A p \in Ops : p # o => op'[p] = op[p] /\ pc'[p] = pc[p]
  BY <1>1, OneCallMoves
<1>3. /\ op'[o].out_parent = op[o].out_parent /\ op'[o].linked = op[o].linked
      /\ pc'[o] = "complete"
  BY <1>1, SyncParentFiles
<1>4. PICK ok \in BOOLEAN :
        /\ stable' = IF ok THEN [stable EXCEPT ![op[o].out_parent] = dst[op[o].out_parent]]
                           ELSE stable
        /\ Continue(o, [Synchronized(op[o], ok) EXCEPT
                          !.sync_completed = SyncCompleted(Synchronized(op[o], ok))], "complete")
  BY DEF SyncParent
<1>5. op'[o].sync_completed => ok
  <2> DEFINE s == Synchronized(op[o], ok)
             b == SyncCompleted(s)
  <2>1. op'[o] = [s EXCEPT !.sync_completed = b]
    BY <1>1, <1>4, Moved
  <2>2. s \in Operation
    BY <1>1, SynchronizedKept DEF CallsOK, CallOK, Kept
  <2>3. b => s.fsyncs = 2
    BY DEF SyncCompleted
  <2>4. s.fsyncs = IF ok THEN op[o].fsyncs + 1 ELSE op[o].fsyncs
    BY <1>1, SynchronizedFields
  <2>5. op[o].fsyncs \in {0, 1}
    BY <1>1 DEF Course, Synced
  <2> HIDE DEF s, b
  <2>6. op'[o].sync_completed = b
    BY <2>1, <2>2 DEF Operation
  <2> QED BY <2>3, <2>4, <2>5, <2>6
<1>6. \A p \in Savers : p \in Ops
  BY DEF Ops
<1>7. \A p \in Savers : /\ op'[p].out_parent = op[p].out_parent
                        /\ op'[p].linked = op[p].linked
  BY <1>2, <1>3, <1>6
<1>8. \A d \in Dirs : stable'[d] = stable[d] \/ stable'[d] = dst[d]
  BY <1>1, <1>4 DEF TypeOK
<1>9. ASSUME NEW d \in Dirs, NEW p \in Savers
      PROVE  /\ dst'[d] = p \/ stable'[d] = p => d = op'[p].out_parent
             /\ dst'[d] = p /\ op'[p].sync_completed => stable'[d] = p
  <2>1. dst[d] = p \/ stable[d] = p => d = op[p].out_parent
    BY DEF Names
  <2>2. CASE p # o
    <3>1. op'[p] = op[p]
      BY <1>2, <1>6, <2>2
    <3>2. dst[d] = p /\ op[p].sync_completed => stable[d] = p
      BY DEF Names
    <3> QED BY <1>8, <2>1, <3>1, <3>2
  <2>3. CASE p = o
    <3>1. ASSUME dst[d] = o, op'[o].sync_completed PROVE stable'[d] = o
      <4>1. d = op[o].out_parent /\ ok
        BY <1>5, <2>1, <2>3, <3>1
      <4> QED BY <1>1, <1>4, <3>1, <4>1 DEF TypeOK
    <3> QED BY <1>3, <1>8, <2>1, <2>3, <3>1
  <2> QED BY <2>2, <2>3
<1>10. ASSUME meddled = 0, up, NEW p \in Savers
       PROVE  /\ pc'[p] \in Outgoing => op'[p].out_parent = outDir
              /\ pc'[p] \in Rechecking /\ op'[p].phase = "link" => op'[p].out_parent = outDir
              /\ op'[p].linked => dst[outDir] = p
  <2>1. CASE p = o
    BY <1>3, <1>7, <1>10, <2>1 DEF Names, Outgoing, Rechecking
  <2>2. CASE p # o
    <3>1. op'[p] = op[p] /\ pc'[p] = pc[p]
      BY <1>2, <1>6, <2>2
    <3> QED BY <1>10, <3>1 DEF Names
  <2> QED BY <2>1, <2>2
<1>11. OneWinner'
  BY <1>7 DEF Names, OneWinner
<1> QED BY <1>9, <1>10, <1>11 DEF Names

\* Other users may take a name away, and are counted when they do.
LEMMA EnvironmentNames ==
  ASSUME Inv, Names, CallsOK', Environment
  PROVE  Names'
<1>1. TypeOK /\ CallsOK
  BY DEF Inv
<1>2. \A p \in Savers : p \in Ops /\ p # None /\ p # Foreign
  BY DEF Ops
<1>3. CASE PowerLoss
  <2>1. \A p \in Savers : /\ op'[p].out_parent = op[p].out_parent /\ op'[p].linked = op[p].linked
                          /\ op'[p].sync_completed = op[p].sync_completed
    BY <1>1, <1>2, <1>3, PowerLossKeeps
  <2>2. /\ stable' = stable /\ ~up' /\ meddled' = meddled
        /\ \A d \in Dirs : dst'[d] = dst[d] \/ dst'[d] = stable[d]
    BY <1>3 DEF PowerLoss
  <2>3. OneWinner'
    BY <2>1, <2>2 DEF Names, OneWinner
  <2> QED BY <2>1, <2>2, <2>3 DEF Names
<1>4. ASSUME op' = op, pc' = pc, stable' = stable, meddled' # 0,
             \A d \in Dirs : dst'[d] = dst[d] \/ dst'[d] \in {Foreign, None}
      PROVE  Names'
  <2>1. \A d \in Dirs : \A p \in Savers : dst'[d] = p => dst[d] = p
    BY <1>2, <1>4
  <2>2. OneWinner'
    BY <1>4 DEF OneWinner
  <2> QED BY <1>4, <2>1, <2>2 DEF Names
<1>5. ASSUME Meddle PROVE meddled' # 0
  BY <1>1, <1>5 DEF Meddle, TypeOK
<1>6. ASSUME NEW i \in Sources, EditSource(i) PROVE Names'
  BY <1>4, <1>5, <1>6 DEF EditSource
<1>7. ASSUME NEW d \in Dirs, ReplaceSource(d) PROVE Names'
  BY <1>4, <1>5, <1>7 DEF ReplaceSource
<1>8. ASSUME NEW d \in Dirs, ReplaceDestination(d) PROVE Names'
  <2>1. \A e \in Dirs : dst'[e] = dst[e] \/ dst'[e] \in {Foreign, None}
    BY <1>1, <1>8 DEF ReplaceDestination, TypeOK
  <2> QED BY <1>4, <1>5, <1>8, <2>1 DEF ReplaceDestination
<1>9. CASE RebindParents
  BY <1>4, <1>5, <1>9 DEF RebindParents
<1> QED BY <1>3, <1>6, <1>7, <1>8, <1>9 DEF Environment

\* Every step, of a call or of another user, keeps the names.
LEMMA NextNames == Inv /\ Courses /\ Names /\ [Next]_vars => Names'
<1> SUFFICES ASSUME Inv, Courses, Names, [Next]_vars PROVE Names'
  OBVIOUS
<1>1. CallsOK'
  BY NextInv DEF Inv
<1>2. CASE Environment
  BY <1>1, <1>2, EnvironmentNames
<1>3. CASE UNCHANGED vars
  BY <1>3 DEF vars, Names, OneWinner
<1>4. ASSUME NEW o \in Ops, OpStep(o) \/ (Escape(o) /\ UNCHANGED fs) PROVE Names'
  BY <1>1, <1>4, LocalNames, LinkNames, SyncParentNames DEF OpStep
<1> QED BY <1>2, <1>3, <1>4 DEF Next, Stopped

-----------------------------------------------------------------------------
(* Who is told that the destination exists.                                *)

\* A call that is told so has not linked, and until somebody meddles or the power goes
\* there is a name where it wanted one.
Told(o) == op[o].failure = "DESTINATION_EXISTS"

Losers == \A o \in Savers :
            Told(o) => ~op[o].linked /\ (meddled = 0 /\ up => dst[outDir] # None)

\* No code that is raised but by the link says so.
LEMMA RaiseUntold ==
  ASSUME CallsOK, NEW o \in Ops, NEW s \in Operation,
         NEW code, code # "DESTINATION_EXISTS", Raise(o, s, code)
  PROVE  ~Told(o)'
<1>1. op'[o] = [s EXCEPT !.failure = code]
  BY Moved DEF Raise
<1> QED BY <1>1 DEF Told, Operation

\* Nor does one of several.
LEMMA RaiseAnyUntold ==
  ASSUME CallsOK, NEW o \in Ops, NEW codes \in SUBSET (Codes \ {"DESTINATION_EXISTS"}),
         RaiseAny(o, codes)
  PROVE  ~Told(o)'
BY RaiseUntold DEF RaiseAny, CallsOK

\* A walk that fails has another code too.
LEMMA WalkFailsUntold ==
  ASSUME CallsOK, NEW o \in Ops, WalkFails(o, {"UNSAFE_INPUT", "IO_ERROR", "CLOSE_FAILED"})
  PROVE  ~Told(o)'
<1>1. PICK code \in {"UNSAFE_INPUT", "IO_ERROR", "CLOSE_FAILED"}, held \in BOOLEAN :
        Raise(o, [op[o] EXCEPT !.holding = held], code)
  BY DEF WalkFails
<1>2. op[o] \in Operation
  BY DEF CallsOK
<1>3. [op[o] EXCEPT !.holding = held] \in Operation
  BY <1>2, Zenon DEF Operation
<1> QED BY <1>1, <1>3, RaiseUntold

\* A call that goes on has been told nothing.
LEMMA GoingUntold ==
  ASSUME CallsOK, Courses', NEW o \in Ops, NEW t, NEW next, Continue(o, t, next),
         next \notin Ending \cup {"escaped"}
  PROVE  ~Told(o)'
BY Moved DEF Told, Courses, Course, Cancels

\* Neither has one whose caller refuses at a checkpoint.
LEMMA CheckpointUntold ==
  ASSUME CallsOK, Courses', NEW o \in Ops, NEW s \in Operation, NEW t, NEW next,
         Checkpoint(o, s, t, next), next \notin Ending \cup {"escaped"}
  PROVE  ~Told(o)'
<1>1. PICK r \in CallbackResults :
        IF Refused(s, r) THEN Raise(o, Answered(s, r), CheckpointCode(r))
                         ELSE Continue(o, Answered(t, r), next)
  BY DEF Checkpoint
<1>2. CASE Refused(s, r)
  <2>1. Answered(s, r) \in Operation /\ CheckpointCode(r) # "DESTINATION_EXISTS"
    BY AnsweredFields DEF CheckpointCode
  <2> QED BY <1>1, <1>2, <2>1, RaiseUntold
<1>3. CASE ~Refused(s, r)
  BY <1>1, <1>3, GoingUntold
<1> QED BY <1>2, <1>3

\* Nothing of intake says that the destination exists.
LEMMA IntakeUntold ==
  ASSUME CallsOK, Courses', NEW o \in Ops, ~Told(o),
         \/ Admit(o) \/ WalkIn(o) \/ Pin(o) \/ Qualify(o) \/ ReadBlock(o) \/ EndRead(o)
         \/ CheckPinned(o) \/ CheckParent(o) \/ CheckName(o) \/ Decode(o)
  PROVE  ~Told(o)'
<1>1. op[o] \in Operation
  BY DEF CallsOK
<1>2. ASSUME NEW codes \in SUBSET (Codes \ {"DESTINATION_EXISTS"}), RaiseAny(o, codes)
      PROVE  ~Told(o)'
  BY <1>2, RaiseAnyUntold
<1>3. ASSUME NEW t, NEW next, Checkpoint(o, op[o], t, next),
             next \in {"walkIn", "read", "pinned"}
      PROVE  ~Told(o)'
  BY <1>1, <1>3, CheckpointUntold
<1>4. ASSUME NEW t, NEW next, Continue(o, t, next),
             next \in {"pin", "qualify", "binding", "name", "walkOut", "complete"}
      PROVE  ~Told(o)'
  BY <1>4, GoingUntold
<1>5. /\ Ext4Failures \cup {"INPUT_CHANGED", "RESOURCE_LIMIT"}
           \in SUBSET (Codes \ {"DESTINATION_EXISTS"})
      /\ {{"UNSUPPORTED_PLATFORM"}, {"UNSAFE_INPUT"}, {"IO_ERROR"}, {"INPUT_CHANGED"},
          {"IO_ERROR", "RESOURCE_LIMIT", "CLOSE_FAILED"},
          {"INPUT_CHANGED", "IO_ERROR", "CLOSE_FAILED"}}
           \subseteq SUBSET (Codes \ {"DESTINATION_EXISTS"})
      /\ ParentFailures("INPUT_CHANGED") \in SUBSET (Codes \ {"DESTINATION_EXISTS"})
      /\ CodecFailures \in SUBSET (Codes \ {"DESTINATION_EXISTS"})
  BY DEF Ext4Failures, ParentFailures, CodecCodes, Codes
<1>6. CASE Admit(o)
  <2>1. ASSUME NEW code \in {"INVALID_ARGUMENT", "INVALID_PATH"},
               Continue(o, [op[o] EXCEPT !.failure = code, !.completion_sampled = TRUE],
                        "release")
        PROVE  ~Told(o)'
    <3>1. op'[o] = [op[o] EXCEPT !.failure = code, !.completion_sampled = TRUE]
      BY <2>1, Moved
    <3> QED BY <1>1, <3>1 DEF Told, Operation
  <2> QED BY <1>2, <1>3, <1>5, <1>6, <2>1 DEF Admit
<1>7. CASE WalkIn(o)
  BY <1>4, <1>7, WalkFailsUntold DEF WalkIn
<1>8. CASE Pin(o)
  BY <1>2, <1>4, <1>5, <1>8 DEF Pin
<1>9. CASE Qualify(o)
  BY <1>2, <1>3, <1>5, <1>9 DEF Qualify
<1>10. CASE ReadBlock(o)
  BY <1>2, <1>3, <1>5, <1>10 DEF ReadBlock
<1>11. CASE EndRead(o)
  BY <1>2, <1>3, <1>5, <1>11 DEF EndRead
<1>12. CASE CheckPinned(o)
  BY <1>2, <1>4, <1>5, <1>12 DEF CheckPinned
<1>13. CASE CheckParent(o)
  BY <1>2, <1>4, <1>5, <1>13 DEF CheckParent
<1>14. CASE CheckName(o)
  <2>1. ASSUME Continue(o, op[o], AfterBinding(op[o])) PROVE ~Told(o)'
    <3>1. op'[o] = op[o]
      BY <2>1, Moved
    <3> QED BY <3>1 DEF Told
  <2> QED BY <1>2, <1>5, <1>14, <2>1 DEF CheckName
<1>15. CASE Decode(o)
  BY <1>2, <1>4, <1>5, <1>15 DEF Decode
<1> QED BY <1>6, <1>7, <1>8, <1>9, <1>10, <1>11, <1>12, <1>13, <1>14, <1>15

\* Nothing a saver does but link says so.
LEMMA SavingUntold ==
  ASSUME CallsOK, Courses', NEW o \in Ops, ~Told(o),
         \/ WalkOut(o) \/ Prepare(o) \/ WriteChunk(o) \/ SyncTemporary(o) \/ CheckOutParent(o)
         \/ Observe(o) \/ AfterLink(o) \/ SyncFile(o) \/ SyncParent(o) \/ Complete(o)
         \/ CheckPublishedParent(o) \/ CheckPublishedName(o)
  PROVE  ~Told(o)'
<1>1. op[o] \in Operation /\ op[o].written \in 0 .. OutBlocks
  BY DEF CallsOK, Operation
<1>2. ASSUME NEW codes \in SUBSET (Codes \ {"DESTINATION_EXISTS"}), RaiseAny(o, codes)
      PROVE  ~Told(o)'
  BY <1>2, RaiseAnyUntold
<1>3. ASSUME NEW s \in Operation, NEW t, NEW next, Checkpoint(o, s, t, next),
             next \in {"write", "pinned", "syncFile", "pubParent"}
      PROVE  ~Told(o)'
  BY <1>3, CheckpointUntold
<1>4. ASSUME NEW t, NEW next, Continue(o, t, next),
             next \in {"prepare", "link", "afterLink", "syncParent", "complete", "pubName",
                       "conclude"}
      PROVE  ~Told(o)'
  BY <1>4, GoingUntold
<1>5. /\ Ext4Failures \cup {"OUTPUT_PARENT_CHANGED"} \in SUBSET (Codes \ {"DESTINATION_EXISTS"})
      /\ {"IO_ERROR"} \in SUBSET (Codes \ {"DESTINATION_EXISTS"})
      /\ ParentFailures("OUTPUT_PARENT_CHANGED") \in SUBSET (Codes \ {"DESTINATION_EXISTS"})
  BY DEF Ext4Failures, ParentFailures, Codes
<1>6. CASE WalkOut(o)
  BY <1>4, <1>6, WalkFailsUntold DEF WalkOut
<1>7. CASE Prepare(o)
  BY <1>1, <1>2, <1>3, <1>5, <1>7 DEF Prepare
<1>8. CASE WriteChunk(o)
  BY <1>1, <1>2, <1>3, <1>5, <1>8 DEF WriteChunk
<1>9. CASE SyncTemporary(o)
  <2>1. Flushed(op[o]) \in Operation
    BY <1>1, Zenon DEF Flushed, Operation
  <2> QED BY <1>2, <1>3, <1>5, <1>9, <2>1 DEF SyncTemporary, LastRecheck
<1>10. CASE CheckOutParent(o)
  BY <1>2, <1>4, <1>5, <1>10 DEF CheckOutParent
<1>11. CASE Observe(o)
  BY <1>4, <1>11 DEF Observe
<1>12. CASE AfterLink(o)
  BY <1>1, <1>3, <1>12 DEF AfterLink
<1>13. CASE SyncFile(o)
  BY <1>4, <1>13 DEF SyncFile
<1>14. CASE SyncParent(o)
  BY <1>4, <1>14 DEF SyncParent
<1>15. CASE Complete(o)
  <2>1. [op[o] EXCEPT !.completion_sampled = TRUE] \in Operation
    BY <1>1, Zenon DEF Operation
  <2> QED BY <1>3, <1>15, <2>1 DEF Complete
<1>16. CASE CheckPublishedParent(o) \/ CheckPublishedName(o)
  BY <1>4, <1>16 DEF CheckPublishedParent, CheckPublishedName
<1> QED BY <1>6, <1>7, <1>8, <1>9, <1>10, <1>11, <1>12, <1>13, <1>14, <1>15, <1>16

\* Nothing that was kept for the end says so.
LEMMA EndingUntold ==
  ASSUME CallsOK, Courses, NEW o \in Ops, ~Told(o), op[o].deferred # "DESTINATION_EXISTS",
         Conclude(o) \/ Settle(o) \/ Release(o) \/ Escape(o)
  PROVE  ~Told(o)'
<1>1. op[o] \in Operation /\ Course(o, op[o], pc[o])
  BY DEF CallsOK, Courses
<1>2. CASE Conclude(o)
  <2> DEFINE code == PublicationFailure(op[o])
  <2>1. code # "DESTINATION_EXISTS"
    BY <1>1, <1>2 DEF Conclude, At, Course, Synced, PublicationFailure
  <2>2. op'[o] = [op[o] EXCEPT !.failure = code]
    BY <1>2, Moved DEF Conclude
  <2> HIDE DEF code
  <2> QED BY <1>1, <2>1, <2>2 DEF Told, Operation
<1>3. CASE Settle(o)
  <2>1. CASE op[o].completion_sampled
    <3>1. op'[o] = op[o]
      BY <1>3, <2>1, Moved DEF Settle
    <3> QED BY <3>1 DEF Told
  <2>2. CASE ~op[o].completion_sampled
    <3> DEFINE s == [op[o] EXCEPT !.completion_sampled = TRUE]
    <3>1. PICK r \in CallbackResults :
            Continue(o, [Answered(s, r) EXCEPT
                           !.failure = IF @ = "none" /\ Refused(s, r)
                                       THEN CheckpointCode(r) ELSE @], "release")
      BY <1>3, <2>2 DEF Settle
    <3> DEFINE t == Answered(s, r)
               code == IF t.failure = "none" /\ Refused(s, r) THEN CheckpointCode(r)
                                                              ELSE t.failure
    <3>2. s \in Operation
      BY <1>1, Zenon DEF Operation
    <3>3. s.failure = op[o].failure
      BY <1>1 DEF Operation
    <3>4. op'[o] = [t EXCEPT !.failure = code]
      BY <3>1, Moved
    <3> HIDE DEF s
    <3>5. t \in Operation /\ t.failure = op[o].failure
      BY <3>2, <3>3, AnsweredFields
    <3> HIDE DEF t
    <3>6. code # "DESTINATION_EXISTS"
      BY <3>5 DEF CheckpointCode, Told
    <3> HIDE DEF code
    <3> QED BY <3>4, <3>5, <3>6 DEF Told, Operation
  <2> QED BY <2>1, <2>2
<1>4. CASE Release(o)
  <2>1. PICK closeFailed \in BOOLEAN :
          Continue(o, [op[o] EXCEPT !.failure = FinalFailure(op[o], closeFailed),
                                    !.close_failed = closeFailed, !.holding = FALSE], "done")
    BY <1>4 DEF Release
  <2> DEFINE code == FinalFailure(op[o], closeFailed)
  <2>2. code # "DESTINATION_EXISTS"
    BY DEF FinalFailure, Told
  <2>3. op'[o] = [op[o] EXCEPT !.failure = code, !.close_failed = closeFailed,
                               !.holding = FALSE]
    BY <2>1, Moved
  <2> HIDE DEF code
  <2> QED BY <1>1, <2>2, <2>3 DEF Told, Operation
<1>5. CASE Escape(o)
  <2>1. op'[o] = [op[o] EXCEPT !.holding = @ /\ pc[o] = "settle"]
    BY <1>5, Moved DEF Escape
  <2> QED BY <1>1, <2>1 DEF Told, Operation
<1> QED BY <1>2, <1>3, <1>4, <1>5

\* The link says so where there is a name that is not the saver's own.
LEMMA LinkTold ==
  ASSUME Inv, Courses, Names, CallsOK', NEW o \in Ops, Link(o), Told(o)'
  PROVE  /\ UNCHANGED dst /\ op'[o].linked = op[o].linked
         /\ dst[op[o].out_parent] # None /\ ~op[o].linked
<1>1. op[o] \in Operation /\ pc[o] = "link" /\ op[o].failure = "none" /\ ~op[o].linked
  <2>1. pc[o] = "link" /\ op[o] \in Operation
    BY DEF Inv, CallsOK, Link, At
  <2> QED BY <2>1, EarlyCourse DEF Courses, Early, Fresh, Unattempted
<1> DEFINE s == [op[o] EXCEPT !.attempted = TRUE]
<1>2. s \in Operation
  BY <1>1, Zenon DEF Operation
<1>3. s.failure = "none" /\ s.linked = op[o].linked
  BY <1>1 DEF Operation
<1>4. \/ Continue(o, [s EXCEPT !.visibility = "published", !.linked = TRUE], "afterLink")
      \/ Continue(o, [Ambiguous(s) EXCEPT !.linked = TRUE], "observe")
      \/ /\ UNCHANGED dst
         /\ \/ dst[op[o].out_parent] # None /\ Raise(o, s, "DESTINATION_EXISTS")
            \/ \E code \in {"UNSUPPORTED_PLATFORM", "IO_ERROR"} : Raise(o, s, code)
            \/ Continue(o, Ambiguous(s), "observe")
  BY DEF Link
<1> HIDE DEF s
<1>5. ASSUME NEW t, NEW l, Continue(o, t, l), t.failure = "none" PROVE FALSE
  BY <1>5, Moved DEF Inv, Told
<1>6. /\ [s EXCEPT !.visibility = "published", !.linked = TRUE].failure = "none"
      /\ [Ambiguous(s) EXCEPT !.linked = TRUE].failure = "none"
      /\ Ambiguous(s).failure = "none"
  BY <1>2, <1>3 DEF Operation, Ambiguous
<1>7. ASSUME NEW code, Raise(o, s, code)
      PROVE  code = "DESTINATION_EXISTS" /\ op'[o].linked = s.linked
  <2>1. op'[o] = [s EXCEPT !.failure = code]
    BY <1>7, Moved DEF Inv, Raise
  <2> QED BY <1>2, <2>1 DEF Told, Operation
<1> QED BY <1>1, <1>3, <1>4, <1>5, <1>6, <1>7

\* What a call has linked changes only with the link.
LEMMA LinkedKept ==
  ASSUME TypeOK, CallsOK, NEW o \in Ops, LocalStep(o) \/ SyncParent(o) \/ Escape(o)
  PROVE  op'[o].linked = op[o].linked
<1>1. Onward(o) \/ Ends(o) \/ Failed(o) => op'[o].linked = op[o].linked
  BY DEF Onward, Ends, Failed, Goes, SameFiles
<1> QED
  BY <1>1, IntakeFiles, SavingFiles, EndingFiles, PinFiles, ReadBlockFiles, EndReadFiles,
     CheckNameFiles, WalkOutFiles, SyncTemporaryFiles, SyncParentFiles, CompleteFiles
  DEF LocalStep, Goes, SameFiles

\* A call that was not told so is told so by its link or not at all.
LEMMA Untold ==
  ASSUME Inv, CallsOK, Courses, Courses', NEW o \in Ops, ~Told(o),
         LocalStep(o) \/ SyncParent(o) \/ Escape(o)
  PROVE  ~Told(o)'
<1>1. op[o].deferred # "DESTINATION_EXISTS"
  BY DEF CallsOK, Operation, Deferrable
<1> QED BY <1>1, IntakeUntold, SavingUntold, EndingUntold DEF LocalStep

\* Every step leaves the losers what they were told.
LEMMA NextLosers == Inv /\ Courses /\ Names /\ Losers /\ [Next]_vars => Losers'
<1> SUFFICES ASSUME Inv, Courses, Names, Losers, [Next]_vars, NEW p \in Savers, Told(p)'
             PROVE  (~op[p].linked)' /\ (meddled = 0 /\ up => dst[outDir] # None)'
  BY DEF Losers
<1>1. CallsOK /\ CallsOK' /\ TypeOK /\ Courses' /\ p \in Ops /\ p # None
  BY NextInv, NextCourses DEF Inv, Ops
<1>2. Told(p) => ~op[p].linked /\ (meddled = 0 /\ up => dst[outDir] # None)
  BY DEF Losers
<1>3. ASSUME NEW o \in Ops, LocalStep(o) \/ SyncParent(o) \/ Escape(o),
             UNCHANGED <<outDir, dst, up, meddled>>
      PROVE  (~op[p].linked)' /\ (meddled = 0 /\ up => dst[outDir] # None)'
  <2>1. Told(p) /\ op'[p].linked = op[p].linked
    <3>1. CASE p = o
      BY <1>1, <1>3, <3>1, Untold, LinkedKept
    <3>2. CASE p # o
      <4>1. op'[p] = op[p]
        BY <1>1, <1>3, <3>2, OneCallMoves
      <4> QED BY <4>1 DEF Told
    <3> QED BY <3>1, <3>2
  <2> QED BY <1>2, <1>3, <2>1
<1>4. ASSUME NEW o \in Ops, Link(o), UNCHANGED <<outDir, up, meddled>>
      PROVE  (~op[p].linked)' /\ (meddled = 0 /\ up => dst[outDir] # None)'
  <2>1. /\ o \in Savers /\ pc[o] = "link" /\ op[o].out_parent \in Dirs
    BY <1>1, <1>4 DEF CallsOK, CallOK, Link, At, Outgoing
  <2>2. meddled = 0 /\ up => op[o].out_parent = outDir
    BY <2>1 DEF Names, Outgoing
  <2>3. CASE p = o
    <3>1. UNCHANGED dst /\ op'[o].linked = op[o].linked /\ dst[op[o].out_parent] # None
          /\ ~op[o].linked
      BY <1>1, <1>4, <2>3, LinkTold
    <3> QED BY <1>4, <2>2, <2>3, <3>1
  <2>4. CASE p # o
    <3>1. op'[p] = op[p]
      BY <1>1, <1>4, <2>4, OneCallMoves
    <3>2. Told(p)
      BY <3>1 DEF Told
    <3>3. UNCHANGED dst \/ LinkTakesEffect(o)
      BY <1>4 DEF Link
    <3>4. outDir \in Dirs /\ dst[outDir] # None => dst'[outDir] # None
      BY <1>1, <2>1, <3>3 DEF LinkTakesEffect, TypeOK
    <3> QED BY <1>1, <1>2, <1>4, <3>1, <3>2, <3>4 DEF TypeOK
  <2> QED BY <2>3, <2>4
<1>5. CASE PowerLoss
  <2>1. op'[p].failure = op[p].failure /\ op'[p].linked = op[p].linked
    BY <1>1, <1>5, PowerLossKeeps
  <2> QED BY <1>2, <1>5, <2>1 DEF PowerLoss, Told
<1>6. CASE Environment
  <2>1. CASE op' = op /\ Meddle
    <3>1. meddled' # 0
      BY <1>1, <2>1 DEF Meddle, TypeOK
    <3> QED BY <1>2, <2>1, <3>1 DEF Told
  <2> QED BY <1>5, <1>6, <2>1
  DEF Environment, EditSource, ReplaceSource, ReplaceDestination, RebindParents
<1>7. CASE UNCHANGED vars
  BY <1>2, <1>7 DEF vars, Told
<1>8. ASSUME NEW o \in Ops, OpStep(o) \/ (Escape(o) /\ UNCHANGED fs)
      PROVE  (~op[p].linked)' /\ (meddled = 0 /\ up => dst[outDir] # None)'
  BY <1>3, <1>4, <1>8 DEF OpStep, fs
<1> QED BY <1>6, <1>7, <1>8 DEF Next, Stopped

-----------------------------------------------------------------------------
(* What follows.                                                           *)

\* The invariant: what is on the disk, what a call tells, what it read, what it made.
Whole == Inv /\ Courses /\ Inputs /\ Names /\ Losers

\* The conjunction is an invariant: what proves the theorems below.
THEOREM WholeInvariance == Spec => []Whole
<1>1. Init => Whole
  <2>1. Init => Losers
    BY DEF Init, Losers, Told, NewOperation, Ops
  <2> QED BY <2>1, InitInv, InitCourses, InitInputs, InitNames DEF Whole
<1>2. Whole /\ [Next]_vars => Whole'
  BY NextInv, NextCourses, NextInputs, NextNames, NextLosers DEF Whole
<1> QED BY <1>1, <1>2, PTL DEF Spec

\* What a call decodes, publishes or reports on was there in the tick it was pinned in,
\* and is one version unless an edit during the reading left size and tick as they were.
THEOREM ReadAsPinned == Spec => []SnapshotConsistent
<1>1. Whole => SnapshotConsistent
  BY DEF Whole, Inputs, Tracks, Read, Exact, SnapshotConsistent, Reading, Rechecking, Unbound
<1> QED BY <1>1, WholeInvariance, PTL

\* An input edited before the last look at it, in a later tick than the one it was
\* pinned in, is neither published nor reported on.
THEOREM NothingStaleUsed == Spec => []StaleNeverUsed
<1>1. Whole => StaleNeverUsed
  BY DEF Whole, Inputs, Notices, StaleNeverUsed, StillChecking
<1> QED BY <1>1, WholeInvariance, PTL

\* Of the savers that race for one undisturbed name, at most one gets it.
THEOREM AtMostOneWinner == Spec => []OneWinner
<1>1. Whole => OneWinner
  BY DEF Whole, Names
<1> QED BY <1>1, WholeInvariance, PTL

\* While nobody else meddles, who is told that the destination exists has lost to the
\* file of another.
THEOREM LostToAnother == Spec => []TakenByAnother
<1>1. Whole => TakenByAnother
  BY DEF Whole, Losers, Told, Inv, TypeOK, NamesLinked, TakenByAnother
<1> QED BY <1>1, WholeInvariance, PTL

\* A publication reported as synchronized is there after a power loss.
THEOREM SynchronizedSurvives == Spec => DurableOnceSynced
<1> DEFINE Survives == \A o \in Savers, d \in Dirs :
                         up /\ ~up' /\ dst[d] = o /\ op[o].sync_completed => dst'[d] = o
<1>1. Whole /\ [Next]_vars => [Survives]_vars
  <2> SUFFICES ASSUME Whole, Next PROVE Survives \/ UNCHANGED vars
    OBVIOUS
  <2>1. CASE PowerLoss
    BY <2>1 DEF PowerLoss, Whole, Names
  <2>2. CASE up' = up
    BY <2>2
  <2> QED BY <2>1, <2>2
    DEF Next, OpStep, fs, Environment, EditSource, ReplaceSource, ReplaceDestination,
        RebindParents, Meddle, Stopped, vars
<1>2. Spec => [][Survives]_vars
  BY <1>1, WholeInvariance, PTL DEF Spec
<1> QED BY <1>2 DEF DurableOnceSynced

-----------------------------------------------------------------------------
(* The promise of FileService, step by step.                               *)

\* A call that is over, and what the caller can see of the steps before.
Over == {"done", "escaped"}

Silent(s, t) == /\ t.linked = s.linked
                /\ t.fsyncs = 2 <=> s.fsyncs = 2
                /\ t.cancel_requested = s.cancel_requested \/ t.cancel_requested = TRUE

Quiet(o) == /\ Silent(op[o], op'[o])
            /\ pc[o] \notin Over /\ pc'[o] \notin Over

\* A step that goes on with a state of which nothing new can be seen.
LEMMA ContinueQuiet ==
  ASSUME CallsOK, NEW o \in Ops, pc[o] \notin Over, NEW t, Silent(op[o], t),
         NEW next, next \notin Over, Continue(o, t, next)
  PROVE  Quiet(o)
BY Moved DEF Quiet

\* A step that raises: the failure is not told before the call is over.
LEMMA RaiseQuiet ==
  ASSUME CallsOK, NEW o \in Ops, pc[o] \notin Over, NEW s \in Operation, Silent(op[o], s),
         NEW code, Raise(o, s, code)
  PROVE  Quiet(o)
<1> DEFINE t == [s EXCEPT !.failure = code]
<1>1. Silent(op[o], t)
  BY DEF Silent, Operation
<1>2. Continue(o, t, "settle")
  BY DEF Raise
<1> HIDE DEF t
<1> QED BY <1>1, <1>2, ContinueQuiet DEF Over

\* A step that raises one of several codes in the state the call is in.
LEMMA RaiseAnyQuiet ==
  ASSUME CallsOK, NEW o \in Ops, pc[o] \notin Over, NEW codes, RaiseAny(o, codes)
  PROVE  Quiet(o)
<1>1. PICK code \in codes : Raise(o, op[o], code)
  BY DEF RaiseAny
<1>2. op[o] \in Operation /\ Silent(op[o], op[o])
  BY DEF CallsOK, Silent
<1> QED BY <1>1, <1>2, RaiseQuiet

\* All that an answer of the callback shows is a request.
LEMMA AnsweredQuiet ==
  ASSUME NEW o \in Ops, NEW u \in Operation, Silent(op[o], u), NEW r \in CallbackResults
  PROVE  Answered(u, r) \in Operation /\ Silent(op[o], Answered(u, r))
<1> DEFINE a == Answered(u, r)
<1>1. /\ a \in Operation /\ a.linked = u.linked /\ a.fsyncs = u.fsyncs
      /\ a.cancel_requested = (u.cancel_requested \/ r = "true")
  BY AnsweredFields
<1>2. u.cancel_requested \in BOOLEAN
  BY DEF Operation
<1> HIDE DEF a
<1>3. a.cancel_requested = u.cancel_requested \/ a.cancel_requested = TRUE
  BY <1>1, <1>2
<1> QED BY <1>1, <1>3 DEF Silent, a

\* A checkpoint samples the caller, and shows nothing else.
LEMMA CheckpointQuiet ==
  ASSUME CallsOK, NEW o \in Ops, pc[o] \notin Over,
         NEW s \in Operation, Silent(op[o], s), NEW t \in Operation, Silent(op[o], t),
         NEW next, next \notin Over, Checkpoint(o, s, t, next)
  PROVE  Quiet(o)
<1>1. PICK r \in CallbackResults :
        IF Refused(s, r) THEN Raise(o, Answered(s, r), CheckpointCode(r))
                         ELSE Continue(o, Answered(t, r), next)
  BY DEF Checkpoint
<1>2. ASSUME NEW u \in Operation, Silent(op[o], u)
      PROVE  Answered(u, r) \in Operation /\ Silent(op[o], Answered(u, r))
  BY <1>2, AnsweredQuiet
<1> QED BY <1>1, <1>2, RaiseQuiet, ContinueQuiet

\* A walk that fails shows nothing either.
LEMMA WalkFailsQuiet ==
  ASSUME CallsOK, NEW o \in Ops, pc[o] \notin Over, NEW codes, WalkFails(o, codes)
  PROVE  Quiet(o)
<1>1. PICK code \in codes, held \in BOOLEAN : Raise(o, [op[o] EXCEPT !.holding = held], code)
  BY DEF WalkFails
<1> DEFINE s == [op[o] EXCEPT !.holding = held]
<1>2. op[o] \in Operation
  BY DEF CallsOK
<1>3. s \in Operation
  BY <1>2, Zenon DEF Operation
<1>4. Silent(op[o], s)
  BY <1>2 DEF Silent, Operation
<1>5. Raise(o, s, code)
  BY <1>1
<1> HIDE DEF s
<1> QED BY <1>3, <1>4, <1>5, RaiseQuiet

\* The steps of intake.
LEMMA IntakeQuiet ==
  ASSUME TypeOK, CallsOK, NEW o \in Ops,
         \/ Admit(o) \/ WalkIn(o) \/ Pin(o) \/ Qualify(o) \/ ReadBlock(o) \/ EndRead(o)
         \/ CheckPinned(o) \/ CheckParent(o) \/ CheckName(o) \/ Decode(o)
  PROVE  Quiet(o)
<1>1. op[o] \in Operation /\ Silent(op[o], op[o]) /\ pc[o] \notin Over
  BY DEF CallsOK, Silent, Over, Admit, WalkIn, Pin, Qualify, ReadBlock, EndRead,
         CheckPinned, CheckParent, CheckName, Decode, At
<1>2. ASSUME NEW next, next \notin Over, Checkpoint(o, op[o], op[o], next) PROVE Quiet(o)
  BY <1>1, <1>2, CheckpointQuiet
<1>3. ASSUME NEW codes, RaiseAny(o, codes) PROVE Quiet(o)
  BY <1>1, <1>3, RaiseAnyQuiet
<1>4. ASSUME NEW next, next \notin Over, Continue(o, op[o], next) PROVE Quiet(o)
  BY <1>1, <1>4, ContinueQuiet
<1>5. ASSUME NEW codes, WalkFails(o, codes) PROVE Quiet(o)
  BY <1>1, <1>5, WalkFailsQuiet
<1>6. CASE Admit(o)
  <2>1. ASSUME NEW code \in {"INVALID_ARGUMENT", "INVALID_PATH"},
               Continue(o, [op[o] EXCEPT !.failure = code, !.completion_sampled = TRUE], "release")
        PROVE  Quiet(o)
    <3> DEFINE t == [op[o] EXCEPT !.failure = code, !.completion_sampled = TRUE]
    <3>1. Silent(op[o], t)
      BY <1>1 DEF Silent, Operation
    <3>2. Continue(o, t, "release")
      BY <2>1
    <3> HIDE DEF t
    <3> QED BY <1>1, <3>1, <3>2, ContinueQuiet DEF Over
  <2> QED BY <1>2, <1>3, <1>6, <2>1 DEF Admit, Over
<1>7. CASE WalkIn(o)
  <2>1. ASSUME Continue(o, [op[o] EXCEPT !.in_parent = inDir, !.holding = TRUE], "pin")
        PROVE  Quiet(o)
    <3> DEFINE t == [op[o] EXCEPT !.in_parent = inDir, !.holding = TRUE]
    <3>1. Silent(op[o], t)
      BY <1>1 DEF Silent, Operation
    <3>2. Continue(o, t, "pin")
      BY <2>1
    <3> HIDE DEF t
    <3> QED BY <1>1, <3>1, <3>2, ContinueQuiet DEF Over
  <2> QED BY <1>5, <1>7, <2>1 DEF WalkIn
<1>8. CASE Pin(o)
  <2>1. ASSUME NEW i, NEW v, Continue(o, [op[o] EXCEPT !.pinned = i, !.stamp = v], "qualify")
        PROVE  Quiet(o)
    <3> DEFINE t == [op[o] EXCEPT !.pinned = i, !.stamp = v]
    <3>1. Silent(op[o], t)
      BY <1>1 DEF Silent, Operation
    <3>2. Continue(o, t, "qualify")
      BY <2>1
    <3> HIDE DEF t
    <3> QED BY <1>1, <3>1, <3>2, ContinueQuiet DEF Over
  <2> QED BY <1>3, <1>8, <2>1 DEF Pin
<1>9. CASE Qualify(o)
  BY <1>2, <1>3, <1>9 DEF Qualify, Over
<1>10. CASE ReadBlock(o)
  <2> DEFINE blocks == Append(op[o].raw, content[op[o].pinned])
             t == [op[o] EXCEPT !.raw = blocks]
  <2>1. op[o].raw \in Seq(Version) /\ content[op[o].pinned] \in Version
    BY <1>1, <1>10 DEF TypeOK, Operation, CallsOK, CallOK, Unbound, ReadBlock, At
  <2>2. blocks \in Seq(Version)
    BY <2>1
  <2>3. Checkpoint(o, op[o], t, "read") \/ RaiseAny(o, {"IO_ERROR"})
    BY <1>10 DEF ReadBlock
  <2> HIDE DEF blocks
  <2>4. t \in Operation
    BY <1>1, <2>2, Zenon DEF Operation
  <2>5. Silent(op[o], t)
    BY <1>1 DEF Silent, Operation
  <2> HIDE DEF t
  <2> QED BY <1>1, <1>3, <2>3, <2>4, <2>5, CheckpointQuiet DEF Over
<1>11. CASE EndRead(o)
  BY <1>2, <1>3, <1>11 DEF EndRead, Over
<1>12. CASE CheckPinned(o)
  BY <1>3, <1>4, <1>12 DEF CheckPinned, Over
<1>13. CASE CheckParent(o)
  BY <1>3, <1>4, <1>13 DEF CheckParent, Over
<1>14. CASE CheckName(o)
  <2>1. AfterBinding(op[o]) \notin Over
    BY <1>1 DEF AfterBinding, Over, Operation
  <2> QED BY <1>3, <1>4, <1>14, <2>1 DEF CheckName
<1>15. CASE Decode(o)
  BY <1>3, <1>4, <1>15 DEF Decode, Over
<1> QED BY <1>6, <1>7, <1>8, <1>9, <1>10, <1>11, <1>12, <1>13, <1>14, <1>15

\* The steps of a save, the directory's synchronization and the link apart.
LEMMA SavingQuiet ==
  ASSUME CallsOK, NEW o \in Ops, Course(o, op[o], pc[o]),
         \/ WalkOut(o) \/ Prepare(o) \/ WriteChunk(o) \/ SyncTemporary(o)
         \/ CheckOutParent(o) \/ Observe(o) \/ AfterLink(o) \/ SyncFile(o)
  PROVE  Quiet(o)
<1>1. op[o] \in Operation /\ Silent(op[o], op[o]) /\ pc[o] \notin Over
  BY DEF CallsOK, Silent, Over, WalkOut, Prepare, WriteChunk, SyncTemporary,
         CheckOutParent, Observe, AfterLink, SyncFile, At
<1>2. ASSUME NEW next, next \notin Over, Checkpoint(o, op[o], op[o], next) PROVE Quiet(o)
  BY <1>1, <1>2, CheckpointQuiet
<1>3. ASSUME NEW codes, RaiseAny(o, codes) PROVE Quiet(o)
  BY <1>1, <1>3, RaiseAnyQuiet
<1>4. ASSUME NEW next, next \notin Over, Continue(o, op[o], next) PROVE Quiet(o)
  BY <1>1, <1>4, ContinueQuiet
<1>5. CASE WalkOut(o)
  <2>1. ASSUME Continue(o, [op[o] EXCEPT !.out_parent = outDir], "prepare")
        PROVE  Quiet(o)
    <3> DEFINE t == [op[o] EXCEPT !.out_parent = outDir]
    <3>1. Silent(op[o], t)
      BY <1>1 DEF Silent, Operation
    <3>2. Continue(o, t, "prepare")
      BY <2>1
    <3> HIDE DEF t
    <3> QED BY <1>1, <3>1, <3>2, ContinueQuiet DEF Over
  <2> QED BY <1>1, <1>5, <2>1, WalkFailsQuiet DEF WalkOut
<1>6. CASE Prepare(o)
  BY <1>2, <1>3, <1>6 DEF Prepare, Over
<1>7. CASE WriteChunk(o)
  <2>1. ASSUME NEW n \in Progress(op[o]),
               Checkpoint(o, op[o], [op[o] EXCEPT !.written = n], "write")
        PROVE  Quiet(o)
    <3> DEFINE t == [op[o] EXCEPT !.written = n]
    <3>1. op[o].written \in 0 .. OutBlocks
      BY <1>1 DEF Operation
    <3>2. n \in 0 .. OutBlocks
      BY <3>1 DEF Progress
    <3>3. t \in Operation
      BY <1>1, <3>2, Zenon DEF Operation
    <3>4. Silent(op[o], t)
      BY <1>1 DEF Silent, Operation
    <3>5. Checkpoint(o, op[o], t, "write")
      BY <2>1
    <3> HIDE DEF t
    <3> QED BY <1>1, <3>3, <3>4, <3>5, CheckpointQuiet DEF Over
  <2> QED BY <1>3, <1>7, <2>1 DEF WriteChunk
<1>8. CASE SyncTemporary(o)
  <2> DEFINE s == Flushed(op[o])
             t == [s EXCEPT !.phase = "link"]
  <2>1. s \in Operation
    BY <1>1, Zenon DEF Operation, Flushed
  <2>2. t \in Operation
    BY <2>1, Zenon DEF Operation
  <2>3. Silent(op[o], s)
    BY <1>1 DEF Silent, Operation, Flushed
  <2>4. Checkpoint(o, s, t, LastRecheck) \/ RaiseAny(o, {"IO_ERROR"})
    BY <1>8 DEF SyncTemporary
  <2> HIDE DEF s
  <2>5. Silent(op[o], t)
    BY <2>1, <2>3 DEF Silent, Operation
  <2> HIDE DEF t
  <2> QED BY <1>1, <1>3, <2>1, <2>2, <2>3, <2>4, <2>5, CheckpointQuiet DEF LastRecheck, Over
<1>9. CASE CheckOutParent(o)
  BY <1>3, <1>4, <1>9 DEF CheckOutParent, Over
<1>10. CASE Observe(o)
  <2>1. ASSUME NEW v, NEW k, NEW d,
               Continue(o, [op[o] EXCEPT !.visibility = v, !.link_failure = k, !.deferred = d],
                        "afterLink")
        PROVE  Quiet(o)
    <3> DEFINE t == [op[o] EXCEPT !.visibility = v, !.link_failure = k, !.deferred = d]
    <3>1. Silent(op[o], t)
      BY <1>1 DEF Silent, Operation
    <3>2. Continue(o, t, "afterLink")
      BY <2>1
    <3> HIDE DEF t
    <3> QED BY <1>1, <3>1, <3>2, ContinueQuiet DEF Over
  <2>2. ASSUME NEW v, NEW k,
               Continue(o, [op[o] EXCEPT !.visibility = v, !.link_failure = k], "afterLink")
        PROVE  Quiet(o)
    <3> DEFINE t == [op[o] EXCEPT !.visibility = v, !.link_failure = k]
    <3>1. Silent(op[o], t)
      BY <1>1 DEF Silent, Operation
    <3>2. Continue(o, t, "afterLink")
      BY <2>2
    <3> HIDE DEF t
    <3> QED BY <1>1, <3>1, <3>2, ContinueQuiet DEF Over
  <2>3. ASSUME NEW k, NEW d,
               Continue(o, [op[o] EXCEPT !.deferred = d, !.link_failure = k], "afterLink")
        PROVE  Quiet(o)
    <3> DEFINE t == [op[o] EXCEPT !.deferred = d, !.link_failure = k]
    <3>1. Silent(op[o], t)
      BY <1>1 DEF Silent, Operation
    <3>2. Continue(o, t, "afterLink")
      BY <2>3
    <3> HIDE DEF t
    <3> QED BY <1>1, <3>1, <3>2, ContinueQuiet DEF Over
  <2> QED BY <1>10, <2>1, <2>2, <2>3 DEF Observe
<1>11. CASE AfterLink(o)
  BY <1>2, <1>11 DEF AfterLink, Over
<1>12. CASE SyncFile(o)
  <2>1. PICK ok \in BOOLEAN : Continue(o, Synchronized(op[o], ok), "syncParent")
    BY <1>12 DEF SyncFile
  <2>2. op[o].fsyncs = 0
    BY <1>12 DEF SyncFile, At, Course, Synced
  <2> DEFINE t == Synchronized(op[o], ok)
  <2>3. Silent(op[o], t)
    BY <1>1, <2>2 DEF Synchronized, KeepFirst, Silent, Operation
  <2>4. Continue(o, t, "syncParent")
    BY <2>1
  <2> HIDE DEF t
  <2> QED BY <1>1, <2>3, <2>4, ContinueQuiet DEF Over
<1> QED BY <1>5, <1>6, <1>7, <1>8, <1>9, <1>10, <1>11, <1>12

\* The steps after publication, up to the release.
LEMMA EndingQuiet ==
  ASSUME CallsOK, NEW o \in Ops, pc[o] \in Labels,
         \/ Complete(o) \/ CheckPublishedParent(o) \/ CheckPublishedName(o)
         \/ Conclude(o) \/ Settle(o)
  PROVE  Quiet(o)
<1>1. op[o] \in Operation /\ Silent(op[o], op[o]) /\ pc[o] \notin Over
  BY DEF CallsOK, Silent, Over, Complete, CheckPublishedParent, CheckPublishedName,
         Conclude, Settle, At
<1>2. ASSUME NEW next, next \notin Over, Continue(o, op[o], next) PROVE Quiet(o)
  BY <1>1, <1>2, ContinueQuiet
<1>3. ASSUME NEW code, Continue(o, KeepFirst(op[o], code), "conclude") PROVE Quiet(o)
  <2> DEFINE t == KeepFirst(op[o], code)
  <2>1. Silent(op[o], t)
    BY <1>1 DEF KeepFirst, Silent, Operation
  <2>2. Continue(o, t, "conclude")
    BY <1>3
  <2> HIDE DEF t
  <2> QED BY <1>1, <2>1, <2>2, ContinueQuiet DEF Over
<1> DEFINE s == [op[o] EXCEPT !.completion_sampled = TRUE]
<1>4. s \in Operation
  BY <1>1, Zenon DEF Operation
<1>5. Silent(op[o], s)
  BY <1>1 DEF Silent, Operation
<1>6. CASE Complete(o)
  <2> DEFINE t == [s EXCEPT !.phase = "return"]
  <2>1. t \in Operation
    BY <1>4, Zenon DEF Operation
  <2>2. Checkpoint(o, s, s, "pubParent") \/ Checkpoint(o, s, t, "pinned")
    BY <1>6 DEF Complete
  <2> HIDE DEF s
  <2>3. Silent(op[o], t)
    BY <1>4, <1>5 DEF Silent, Operation
  <2> HIDE DEF t
  <2> QED BY <1>1, <1>4, <1>5, <2>1, <2>2, <2>3, CheckpointQuiet DEF Over
<1>7. CASE CheckPublishedParent(o)
  BY <1>2, <1>3, <1>7 DEF CheckPublishedParent, Over
<1>8. CASE CheckPublishedName(o)
  BY <1>2, <1>3, <1>8 DEF CheckPublishedName, Over
<1>9. CASE Conclude(o)
  <2> DEFINE t == [op[o] EXCEPT !.failure = PublicationFailure(op[o])]
  <2>1. Silent(op[o], t)
    BY <1>1 DEF Silent, Operation
  <2>2. Continue(o, t, "settle")
    BY <1>9 DEF Conclude
  <2> HIDE DEF t
  <2> QED BY <1>1, <2>1, <2>2, ContinueQuiet DEF Over
<1>10. CASE Settle(o)
  <2>1. ASSUME NEW r \in CallbackResults, NEW c,
               Continue(o, [Answered(s, r) EXCEPT !.failure = c], "release")
        PROVE  Quiet(o)
    <3> DEFINE a == Answered(s, r)
               t == [a EXCEPT !.failure = c]
    <3> HIDE DEF s
    <3>1. a \in Operation /\ Silent(op[o], a)
      BY <1>4, <1>5, AnsweredQuiet
    <3>2. Continue(o, t, "release")
      BY <2>1
    <3> HIDE DEF a
    <3>3. Silent(op[o], t)
      BY <3>1 DEF Silent, Operation
    <3> HIDE DEF t
    <3> QED BY <1>1, <3>2, <3>3, ContinueQuiet DEF Over
  <2> QED BY <1>2, <1>10, <2>1 DEF Settle, Over
<1> QED BY <1>6, <1>7, <1>8, <1>9, <1>10

\* A link shows at most that the name is there.
LEMMA LinkShown ==
  ASSUME CallsOK, NEW o \in Ops, Link(o)
  PROVE  /\ op'[o].fsyncs = op[o].fsyncs
         /\ op'[o].cancel_requested = op[o].cancel_requested
         /\ pc[o] \notin Over /\ pc'[o] \notin Over
<1>1. op[o] \in Operation /\ pc[o] = "link"
  BY DEF CallsOK, Link, At
<1> DEFINE s == [op[o] EXCEPT !.attempted = TRUE]
           Same(t) == t.fsyncs = op[o].fsyncs /\ t.cancel_requested = op[o].cancel_requested
<1>2. s \in Operation
  BY <1>1, Zenon DEF Operation
<1>3. Same(s)
  BY <1>1 DEF Operation
<1>4. \/ Continue(o, [s EXCEPT !.visibility = "published", !.linked = TRUE], "afterLink")
      \/ Continue(o, [Ambiguous(s) EXCEPT !.linked = TRUE], "observe")
      \/ \E code \in Codes : Continue(o, [s EXCEPT !.failure = code], "settle")
      \/ Continue(o, Ambiguous(s), "observe")
  BY DEF Link, Raise, Codes
<1> HIDE DEF s
<1>5. /\ Same([s EXCEPT !.visibility = "published", !.linked = TRUE])
      /\ Same([Ambiguous(s) EXCEPT !.linked = TRUE])
      /\ \A code \in Codes : Same([s EXCEPT !.failure = code])
      /\ Same(Ambiguous(s))
  BY <1>2, <1>3 DEF Ambiguous, Operation
<1>6. ASSUME NEW t, NEW l \in {"afterLink", "observe", "settle"}, Same(t), Continue(o, t, l)
      PROVE  Same(op'[o]) /\ pc'[o] = l
  BY <1>6, Moved
<1>7. Same(op'[o]) /\ pc'[o] \in {"afterLink", "observe", "settle"}
  <2> HIDE DEF Same
  <2> QED BY <1>4, <1>5, <1>6
<1> QED BY <1>1, <1>7 DEF Over

\* The directory's synchronization shows at most that it was the second one.
LEMMA SyncParentShown ==
  ASSUME CallsOK, NEW o \in Ops, Course(o, op[o], pc[o]), SyncParent(o)
  PROVE  /\ op'[o].linked = op[o].linked
         /\ op'[o].cancel_requested = op[o].cancel_requested
         /\ op[o].fsyncs # 2
         /\ pc[o] \notin Over /\ pc'[o] \notin Over
<1>1. op[o] \in Operation /\ pc[o] = "syncParent" /\ CallOK(o, op[o], pc[o])
  BY DEF CallsOK, SyncParent, At
<1>2. op[o].fsyncs # 2
  BY <1>1 DEF Course, Synced
<1>3. PICK ok \in BOOLEAN :
        Continue(o, [Synchronized(op[o], ok) EXCEPT
                       !.sync_completed = SyncCompleted(Synchronized(op[o], ok))], "complete")
  BY DEF SyncParent
<1> DEFINE s == Synchronized(op[o], ok)
           b == SyncCompleted(s)
           t == [s EXCEPT !.sync_completed = b]
<1>4. op'[o] = t /\ pc'[o] = "complete"
  BY <1>3, Moved
<1>5. /\ s \in Operation /\ s.linked = op[o].linked
      /\ s.cancel_requested = op[o].cancel_requested
  BY <1>1, SynchronizedFields, SynchronizedKept DEF CallOK, Kept
<1> HIDE DEF s, b
<1>6. t.linked = s.linked /\ t.cancel_requested = s.cancel_requested
  BY <1>5 DEF Operation
<1> HIDE DEF t
<1> QED BY <1>1, <1>2, <1>4, <1>5, <1>6 DEF Over

\* The state in which a call is released says of it what it may be told.
LEMMA ReleaseShown ==
  ASSUME CallsOK, CallsOK', NEW o \in Ops, Course(o, op[o], pc[o]), Release(o)
  PROVE  /\ pc[o] = "release" /\ pc'[o] = "done"
         /\ op'[o] \in Operation /\ Course(o, op'[o], "done")
         /\ op'[o].linked = op[o].linked /\ op'[o].fsyncs = op[o].fsyncs
         /\ op'[o].cancel_requested = op[o].cancel_requested
<1>1. op[o] \in Operation /\ op'[o] \in Operation /\ pc[o] = "release"
  BY DEF CallsOK, Release, At
<1>2. PICK closeFailed \in BOOLEAN :
        Continue(o, [op[o] EXCEPT !.failure = FinalFailure(op[o], closeFailed),
                                  !.close_failed = closeFailed, !.holding = FALSE], "done")
  BY DEF Release
<1> DEFINE c == FinalFailure(op[o], closeFailed)
           t == [op[o] EXCEPT !.failure = c, !.close_failed = closeFailed, !.holding = FALSE]
<1>3. op'[o] = t /\ pc'[o] = "done"
  BY <1>2, Moved
<1> HIDE DEF c
<1>4. /\ t.linked = op[o].linked /\ t.fsyncs = op[o].fsyncs
      /\ t.cancel_requested = op[o].cancel_requested
  BY <1>1 DEF Operation
<1>5. Course(o, op'[o], "done")
  BY <1>3, ReleaseCourse
<1> HIDE DEF t
<1> QED BY <1>1, <1>3, <1>4, <1>5

\* An exception that leaves a call shows nothing but itself.
LEMMA EscapeShown ==
  ASSUME CallsOK, NEW o \in Ops, Escape(o)
  PROVE  /\ pc[o] \notin Over /\ pc'[o] = "escaped"
         /\ op'[o].linked = op[o].linked /\ op'[o].fsyncs = op[o].fsyncs
         /\ op'[o].cancel_requested = op[o].cancel_requested
<1>1. op[o] \in Operation /\ pc[o] \notin Over
  BY DEF CallsOK, Escape, Over
<1>2. PICK h : Continue(o, [op[o] EXCEPT !.holding = h], "escaped")
  BY DEF Escape
<1>3. op'[o] = [op[o] EXCEPT !.holding = h] /\ pc'[o] = "escaped"
  BY <1>2, Moved
<1> QED BY <1>1, <1>3 DEF Operation

-----------------------------------------------------------------------------
(* Each of them is a step of the promise, or none.                         *)

\* While a call is not over it has reported nothing.
LEMMA NothingReported ==
  ASSUME NEW o
  PROVE  /\ pc[o] \notin Over => ReportOf(o) = Promise(o)!Pending
         /\ pc'[o] \notin Over => ReportOf(o)' = Promise(o)!Pending
         /\ pc'[o] = "escaped" => ReportOf(o)' = Promise(o)!Escaped
BY DEF ReportOf, Over, Service!Pending, Promise!Pending, Service!Escaped, Promise!Escaped,
       Service!NoReport, Promise!NoReport

\* What a caller was promised is not touched when it can see nothing new.
LEMMA UnseenPromise ==
  ASSUME NEW o \in Ops, op'[o].linked = op[o].linked,
         (op'[o].fsyncs = 2) = (op[o].fsyncs = 2),
         op'[o].cancel_requested = op[o].cancel_requested,
         ReportOf(o)' = ReportOf(o)
  PROVE  [Promise(o)!ServiceNext]_(Promise(o)!promised)
BY DEF Promise!promised

\* A quiet step is a sample of the callback, or nothing at all.
LEMMA QuietPromise ==
  ASSUME NEW o \in Ops, Quiet(o)
  PROVE  [Promise(o)!ServiceNext]_(Promise(o)!promised)
<1>1. ReportOf(o) = Promise(o)!Pending /\ ReportOf(o)' = Promise(o)!Pending
  BY NothingReported DEF Quiet
<1>2. op'[o].linked = op[o].linked /\ (op'[o].fsyncs = 2) = (op[o].fsyncs = 2)
  BY DEF Quiet, Silent
<1>3. CASE op'[o].cancel_requested = op[o].cancel_requested
  BY <1>1, <1>2, <1>3, UnseenPromise
<1>4. CASE op'[o].cancel_requested = TRUE
  <2>1. Promise(o)!Sample(TRUE)
    BY <1>1, <1>2, <1>4 DEF Promise!Sample
  <2> QED BY <2>1 DEF Promise!ServiceNext
<1> QED BY <1>3, <1>4 DEF Quiet, Silent

\* A link that takes effect is the publication, and no call links that saw a request.
LEMMA LinkPromise ==
  ASSUME Inv, CallsOK', NEW o \in Ops, Course(o, op[o], pc[o]), Link(o)
  PROVE  [Promise(o)!ServiceNext]_(Promise(o)!promised)
<1>1. CallsOK /\ op[o] \in Operation /\ op'[o] \in Operation
  BY DEF Inv, CallsOK
<1>2. Fresh(o, op[o]) /\ o \in Savers
  BY <1>1, EarlyCourse DEF CallsOK, CallOK, Outgoing, Link, At, Early
<1>3. /\ op'[o].fsyncs = op[o].fsyncs
      /\ op'[o].cancel_requested = op[o].cancel_requested
      /\ pc[o] \notin Over /\ pc'[o] \notin Over
  BY <1>1, LinkShown
<1>4. ReportOf(o) = Promise(o)!Pending /\ ReportOf(o)' = Promise(o)!Pending
  BY <1>3, NothingReported
<1>5. ~op[o].linked /\ ~op[o].cancel_requested
  BY <1>2 DEF Fresh, Unattempted
<1>6. op[o].linked = FALSE /\ op'[o].linked \in BOOLEAN
  BY <1>1, <1>5 DEF Operation
<1>7. CASE op'[o].linked = FALSE
  BY <1>3, <1>4, <1>6, <1>7, UnseenPromise
<1>8. CASE op'[o].linked = TRUE
  <2>1. Promise(o)!Publish
    BY <1>2, <1>3, <1>4, <1>5, <1>8 DEF Promise!Publish
  <2> QED BY <2>1 DEF Promise!ServiceNext
<1> QED BY <1>6, <1>7, <1>8

\* The second synchronization is the one that was promised.
LEMMA SyncParentPromise ==
  ASSUME Inv, CallsOK', NEW o \in Ops, Course(o, op[o], pc[o]), SyncParent(o)
  PROVE  [Promise(o)!ServiceNext]_(Promise(o)!promised)
<1>1. CallsOK /\ o \in Savers
  BY DEF Inv, CallsOK, CallOK, Outgoing, SyncParent, At
<1>2. /\ op'[o].linked = op[o].linked
      /\ op'[o].cancel_requested = op[o].cancel_requested
      /\ op[o].fsyncs # 2
      /\ pc[o] \notin Over /\ pc'[o] \notin Over
  BY <1>1, SyncParentShown
<1>3. ReportOf(o) = Promise(o)!Pending /\ ReportOf(o)' = Promise(o)!Pending
  BY <1>2, NothingReported
<1>4. CASE op'[o].fsyncs = 2
  <2>1. (op'[o].fsyncs = 2) = TRUE /\ ~(op[o].fsyncs = 2)
    BY <1>2, <1>4
  <2>2. Promise(o)!Synchronize
    BY <1>1, <1>2, <1>3, <2>1 DEF Promise!Synchronize
  <2> QED BY <2>2 DEF Promise!ServiceNext
<1>5. CASE op'[o].fsyncs # 2
  <2>1. (op'[o].fsyncs = 2) = (op[o].fsyncs = 2)
    BY <1>2, <1>5
  <2> QED BY <1>2, <1>3, <2>1, UnseenPromise
<1> QED BY <1>4, <1>5

\* What a call that is released reports is honest.
LEMMA ReleasePromise ==
  ASSUME Inv, CallsOK', NEW o \in Ops, Course(o, op[o], pc[o]), Release(o)
  PROVE  [Promise(o)!ServiceNext]_(Promise(o)!promised)
<1> DEFINE s == op[o]
           t == op'[o]
           r == [code |-> ReportedCode(t.failure), visibility |-> t.visibility,
                 sync_completed |-> t.sync_completed, cancel_requested |-> t.cancel_requested]
<1>1. /\ pc[o] = "release" /\ pc'[o] = "done" /\ t \in Operation /\ Course(o, t, "done")
      /\ t.linked = s.linked /\ t.fsyncs = s.fsyncs /\ t.cancel_requested = s.cancel_requested
  BY ReleaseShown DEF Inv
<1>2. ReportOf(o) = Promise(o)!Pending
  BY <1>1, NothingReported DEF Over
<1>3. ReportOf(o)' = r
  BY <1>1 DEF ReportOf
<1>4. r \in Promise(o)!Reports
  <2>1. ReportedCode(t.failure) \in {"none", "CANCELLED", "OTHER"}
    BY DEF ReportedCode
  <2>2. /\ t.visibility \in {"not_published", "published", "uncertain"}
        /\ t.sync_completed \in BOOLEAN /\ t.cancel_requested \in BOOLEAN
    BY <1>1 DEF Operation
  <2> HIDE DEF t
  <2> QED BY <2>1, <2>2 DEF Promise!Reports
<1>5. Promise(o)!Honest(r)
  <2>1. /\ r.code = ReportedCode(t.failure) /\ r.visibility = t.visibility
        /\ r.sync_completed = t.sync_completed /\ r.cancel_requested = t.cancel_requested
    OBVIOUS
  <2>2. /\ r.code = "none" => t.failure = "none"
        /\ r.code = "CANCELLED" => t.failure = "CANCELLED"
    BY <2>1 DEF ReportedCode
  <2> HIDE DEF r, t
  <2>3. /\ t.visibility = "published" => t.linked
        /\ t.visibility = "not_published" => ~t.linked
        /\ t.sync_completed => t.visibility = "published" /\ t.fsyncs = 2
    BY <1>1 DEF Course, Attempts, Synced
  <2>4. t.failure = "none" => ~t.cancel_requested /\ t.visibility # "uncertain"
    BY <1>1 DEF Course, Cancels, Verdict
  <2>5. t.failure = "none" /\ o \in Savers => t.sync_completed
    BY <1>1 DEF Course, Verdict
  <2>6. t.failure = "CANCELLED" => t.cancel_requested /\ (t.linked => t.sync_completed)
    BY <1>1 DEF Course, Cancels, Verdict
  <2> QED BY <1>1, <2>1, <2>2, <2>3, <2>4, <2>5, <2>6 DEF Promise!Honest, s
<1> HIDE DEF r
<1>6. Promise(o)!Conclude(r)
  BY <1>1, <1>2, <1>3, <1>5 DEF Promise!Conclude
<1> QED BY <1>4, <1>6 DEF Promise!ServiceNext

\* An exception that leaves the call takes its report with it.
LEMMA EscapePromise ==
  ASSUME CallsOK, NEW o \in Ops, Escape(o)
  PROVE  [Promise(o)!ServiceNext]_(Promise(o)!promised)
<1>1. /\ pc[o] \notin Over /\ pc'[o] = "escaped"
      /\ op'[o].linked = op[o].linked /\ op'[o].fsyncs = op[o].fsyncs
      /\ op'[o].cancel_requested = op[o].cancel_requested
  BY EscapeShown
<1>2. ReportOf(o) = Promise(o)!Pending /\ ReportOf(o)' = Promise(o)!Escaped
  BY <1>1, NothingReported
<1>3. Promise(o)!Escape
  BY <1>1, <1>2 DEF Promise!Escape
<1> QED BY <1>3 DEF Promise!ServiceNext

\* At the start nothing was shown and nothing is reported.
LEMMA InitPromise ==
  ASSUME Init, NEW o \in Ops
  PROVE  Promise(o)!ServiceInit
<1>1. op[o] = NewOperation /\ pc[o] = "admit"
  BY DEF Init
<1>2. ~op[o].linked /\ op[o].fsyncs = 0 /\ ~op[o].cancel_requested
  BY <1>1 DEF NewOperation
<1>3. ReportOf(o) = Promise(o)!Pending
  BY <1>1, NothingReported DEF Over
<1> QED BY <1>2, <1>3 DEF Promise!ServiceInit

\* Whatever happens on the host, it is a step of every call's promise, or none.
LEMMA NextPromise ==
  ASSUME Inv, Courses, [Next]_vars, NEW p \in Ops
  PROVE  [Promise(p)!ServiceNext]_(Promise(p)!promised)
<1>1. CallsOK' /\ CallsOK /\ TypeOK /\ Course(p, op[p], pc[p])
  BY NextInv DEF Inv, Courses
<1>2. ASSUME NEW o \in Ops, LocalStep(o) \/ Link(o) \/ SyncParent(o) \/ Escape(o)
      PROVE  [Promise(p)!ServiceNext]_(Promise(p)!promised)
  <2>1. CASE p = o
    <3>1. CASE Quiet(p)
      BY <3>1, QuietPromise
    <3>2. Quiet(p) \/ Release(p) \/ Link(p) \/ SyncParent(p) \/ Escape(p)
      <4>1. pc[p] \in Labels
        BY <1>1 DEF CallsOK
      <4> QED BY <1>1, <1>2, <2>1, <4>1, IntakeQuiet, SavingQuiet, EndingQuiet DEF LocalStep
    <3> QED BY <1>1, <3>1, <3>2, ReleasePromise, LinkPromise, SyncParentPromise, EscapePromise
  <2>2. CASE p # o
    <3>1. op'[p] = op[p] /\ pc'[p] = pc[p]
      BY <1>1, <1>2, <2>2, OneCallMoves
    <3>2. ReportOf(p)' = ReportOf(p)
      BY <3>1 DEF ReportOf
    <3> QED BY <3>1, <3>2, UnseenPromise
  <2> QED BY <2>1, <2>2
<1>3. CASE PowerLoss
  <2>1. /\ pc'[p] = pc[p] /\ op'[p].linked = op[p].linked /\ op'[p].fsyncs = op[p].fsyncs
        /\ op'[p].cancel_requested = op[p].cancel_requested
        /\ op'[p].failure = op[p].failure /\ op'[p].visibility = op[p].visibility
        /\ op'[p].sync_completed = op[p].sync_completed
    BY <1>1, <1>3, PowerLossKeeps
  <2>2. ReportOf(p)' = ReportOf(p)
    BY <2>1 DEF ReportOf
  <2> QED BY <2>1, <2>2, UnseenPromise
<1>4. CASE UNCHANGED <<op, pc>>
  <2>1. ReportOf(p)' = ReportOf(p)
    BY <1>4 DEF ReportOf
  <2> QED BY <1>4, <2>1, UnseenPromise
<1>5. CASE Environment
  BY <1>3, <1>4, <1>5
  DEF Environment, EditSource, ReplaceSource, ReplaceDestination, RebindParents
<1> QED BY <1>2, <1>4, <1>5 DEF Next, OpStep, Stopped, vars

\* Every call, as its caller sees it, behaves as FileService promises: a name is only
\* made while no request was seen, nothing is claimed that did not happen, and a report
\* says what became of the file, in every interleaving with other users and a power loss.
THEOREM PromisesKept == Spec => KeepsPromise
<1> DEFINE Starts == \A o \in Ops : Promise(o)!ServiceInit
           Steps == \A o \in Ops : [Promise(o)!ServiceNext]_(Promise(o)!promised)
<1>1. Init => Starts
  BY InitPromise
<1>2. Whole /\ [Next]_vars => [Steps]_vars
  BY NextPromise DEF Whole
<1>3. Spec => Starts /\ [][Steps]_vars
  <2> HIDE DEF Starts, Steps
  <2> QED BY <1>1, <1>2, WholeInvariance, PTL DEF Spec
<1> QED BY <1>3 DEF KeepsPromise
===============================================================================
