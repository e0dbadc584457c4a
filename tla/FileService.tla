----------------------------- MODULE FileService ------------------------------
(***************************************************************************)
(* What one call of faultatlas.assessment_file promises its caller, whose  *)
(* only view of it is the callback that is sampled and the report at the   *)
(* end.  AssessmentFile implements it; AssessmentCli is built on it.       *)
(***************************************************************************)
VARIABLES
  saving,                \* TRUE for save_assessment_as_new, FALSE for an inspection
  published,             \* the selected name was made by this call
  synced,                \* file and directory were both synchronized after that
  requested,             \* the callback answered True
  report                 \* what the call returned or raised, once it did

promised == <<saving, published, synced, requested, report>>

\* A report has a code ("none" for a normal return) and the effects it claims.
Reports == [code: {"none", "CANCELLED", "OTHER"},
            visibility: {"not_published", "published", "uncertain"},
            sync_completed: BOOLEAN, cancel_requested: BOOLEAN]

\* While the call runs, and when another exception leaves it, there is no report.
NoReport(why) == [code |-> why, visibility |-> "uncertain",
                  sync_completed |-> FALSE, cancel_requested |-> FALSE]
Pending == NoReport("pending")
Escaped == NoReport("escaped")

ServiceInit == /\ saving \in BOOLEAN
               /\ published = FALSE /\ synced = FALSE /\ requested = FALSE
               /\ report = Pending

\* Publication never follows a request the call has seen.
Publish == /\ report = Pending /\ saving /\ ~published /\ ~requested
           /\ published' = TRUE
           /\ UNCHANGED <<saving, synced, requested, report>>

Synchronize == /\ report = Pending /\ saving /\ ~synced
               /\ synced' = TRUE
               /\ UNCHANGED <<saving, published, requested, report>>

Sample(answer) == /\ report = Pending
                  /\ requested' = (requested \/ answer)
                  /\ UNCHANGED <<saving, published, synced, report>>

\* Effects are claimed only when they happened; a return claims all a save is for;
\* a cancellation says what became of a file that was published before it was seen.
Honest(r) ==
  /\ r.visibility = "published" => published
  /\ r.visibility = "not_published" => ~published
  /\ r.sync_completed => r.visibility = "published" /\ synced
  /\ r.cancel_requested = requested
  /\ r.code = "none" => ~requested /\ r.visibility # "uncertain"
  /\ r.code = "none" /\ saving => r.sync_completed
  /\ r.code = "CANCELLED" => requested /\ (published => r.sync_completed)

Conclude(r) == /\ report = Pending /\ Honest(r)
               /\ report' = r
               /\ UNCHANGED <<saving, published, synced, requested>>

Escape == /\ report = Pending
          /\ report' = Escaped
          /\ UNCHANGED <<saving, published, synced, requested>>

ServiceNext == \/ Publish \/ Synchronize \/ Sample(TRUE)
               \/ \E r \in Reports : Conclude(r)
               \/ Escape

ServiceSpec == ServiceInit /\ [][ServiceNext]_promised
===============================================================================
