------------------------ MODULE AssessmentFileService -------------------------
(* Every call of AssessmentFile keeps the promises of FileService.         *)
EXTENDS AssessmentFile

\* Of the codes a caller is told, CANCELLED is the one it must not misread.
ReportedCode(code) == IF code \in {"none", "CANCELLED"} THEN code ELSE "OTHER"

Service == INSTANCE FileService WITH saving <- FALSE, published <- FALSE, synced <- FALSE,
                                     requested <- FALSE, report <- None
ReportOf(o) ==
  CASE pc[o] = "done"    -> [code |-> ReportedCode(op[o].failure),
                             visibility |-> op[o].visibility,
                             sync_completed |-> op[o].sync_completed,
                             cancel_requested |-> op[o].cancel_requested]
    [] pc[o] = "escaped" -> Service!Escaped
    [] OTHER             -> Service!Pending

Promise(o) == INSTANCE FileService
              WITH saving <- o \in Savers,
                   published <- op[o].linked,
                   synced <- op[o].fsyncs = 2,
                   requested <- op[o].cancel_requested,
                   report <- ReportOf(o)

\* A call behaves as its caller was promised, whatever else happens on the host.
KeepsPromise ==
  /\ \A o \in Ops : Promise(o)!ServiceInit
  /\ [][\A o \in Ops : [Promise(o)!ServiceNext]_(Promise(o)!promised)]_vars
===============================================================================
