# FaultAtlas in TLA+

FaultAtlas keeps assessments of software faults. What it *does*, beyond holding
validated immutable values, is to read one assessment file that its caller selects,
check it completely, and save it under one new name; a command line does this for
a person who may press Ctrl-C at any moment. The values themselves are built by
callers from one another, embed one another whole, and are composed into documents
and cases whose coherence rests on checks spread over many classes. This project models
both, checks them with TLC, and proves with TLAPS every safety property that TLC finds to hold.

Paths below are relative to the package, `src/src/faultatlas/`.

## The system

| Component | Source | State | Operations |
| --- | --- | --- | --- |
| Selected-file service | `assessment_file.py` | one `_Operation` per call, the locals of `_perform`, the files | `inspect_assessment_file`, `save_assessment_as_new` |
| Descriptor ledger | `assessment_file.py` 122-144 | `_Operation.descriptors`, the process's descriptor table | `own`, `close`, `close_all` |
| Command line | `cli.py` | signal handlers, the latch, `_Effects`, the exit status | `assessment inspect`, `assessment save-as` |
| File envelope codec | `assessment_file.py` 179-201, 302-429, `_codec` | none (pure) | `_parts`, `_mount_type`, `_depth`, `_envelope_budget`, `_codec` |
| Supplied assessment | `domain/assessment.py`, `assessment.py` | immutable values | validation, domain budget, `inspect_assessment` |
| Review and attribution | `assessment_review*.py`, `domain/assessment_review*.py` | immutable values | validation, inspection, canonical document |
| Evidence records | `domain/evidence.py` | immutable values | validation of requests, responses, artifacts, runs and their references |
| Identity, compatibility | `domain/identity.py`, `compatibility.py`, `source.py` | immutable values | field states, mapping and projection of the legacy locator |
| Revisions, snapshots, history | `domain/revision.py`, `snapshot.py`, `history.py` | immutable values | git identities, topology, path bindings, pull-request facts |
| Fault instance | `domain/fault*.py` | immutable values | composition of one fault's records with reference integrity |
| Patterns and invariants | `domain/pattern*.py`, `invariant*.py` | immutable values | composition of a pattern and its relations |
| Evidence links | `domain/*_evidence_link.py` | immutable values | association of one record with one evidence record |

How they interact. `cli.py` installs a handler for SIGINT and SIGTERM that only
latches the first signal, calls the service once, and hands it a callback that says
whether one was latched. The service samples the callback at fixed points; that, and
the error it raises or the string it returns, is all the two know of each other. The
service decodes the bytes it read with the codec, which builds a supplied assessment
and re-encodes it. Several services may run at the same time, in one process or in
several; they share the files, and in one process the descriptor numbers. Nothing
is locked: the service relies on pinned inodes, on rechecks, and on `linkat` failing
when the name exists.

What is hard, and what must hold of it:

* *Service, files.* Other programs edit and replace the input, move the directories
  and take the output name between any two system calls. Published bytes are one
  version of the input, as far as its stamp can tell, that was still current at the last
  look; of racing saves one wins, and the others lose to it and not to themselves.
* *Service, failures.* Each system call may fail; a link may fail and yet have
  happened; one of two synchronizations may fail; the power may go. A name leads to
  a whole file; a report claims what happened and no more; what was reported as
  synchronized survives.
* *Service, cancellation.* The callback may answer `True`, fail or break at any sample.
  Before the link this stops the call; after it the call first settles. The failure
  that is finally raised is the one that matters most.
* *Ledger.* A close that fails has freed its number, which may be another's by now; and it
  may fail anywhere among other failures and refusals, none of which may make it disappear.
* *Command line.* Signals arrive before, during and after every phase, a handler may
  not come back, and the answer may not be deliverable. Exit status, message and
  handlers tell the truth.
* *Documents.* Budgets are counted twice, by the domain and by the documents around it,
  with different limits; what the first admits the second must. The depth of a text is found
  before it is parsed.
* *Embedded copies.* Nothing is looked up by name: a record embeds what it is about, so one
  name may come with two values. A composed value must be of one mind.
* *Spread checks.* That a request has one place in an envelope, that a run is in order, that a
  path resolves to one object, follows from checks of several classes together.
* *Round trips.* Mapping a legacy locator and projecting an identity, wrapping a snapshot and
  projecting an envelope, writing a value as JSON and reading it: what claims to lose nothing
  must lose nothing.

## Modules

| Module | What it is |
| --- | --- |
| `FileService` | What one call promises its caller: an abstract specification |
| `AssessmentFile` | The service, its files, the other users of the files, power loss |
| `AssessmentFileService` | The refinement: every call of `AssessmentFile` keeps `FileService`'s promise |
| `MCAssessmentFile` | Symmetry sets for TLC |
| `AssessmentFile_proof` | Theorems about `AssessmentFile`: what a call tells and what is on the disk |
| `AssessmentFileService_proof` | Theorems about what calls read and make, and the refinement |
| `DescriptorLedger` | Descriptor numbers shared by calls and other threads |
| `DescriptorLedger_proof` | Theorems about `DescriptorLedger` |
| `AssessmentCli` | The command line, composed with `FileService` |
| `AssessmentCli_proof` | Theorems about `AssessmentCli` |
| `SuppliedAssessment` | Assessments, reviews and attributions as values; sizes and budgets |
| `Documents` | Supplying, saving, reviewing, attributing; the review document; the scan for depth |
| `MCDocuments` | Sizes at and beyond the limits |
| `Documents_proof` | Theorems about `Documents` |
| `Evidence`, `MCEvidence` | Evidence records, runs, envelopes and their projection |
| `Evidence_proof` | Theorems about `Evidence` |
| `FaultComposition`, `MCFault` | Fault records, cases, evidence links, pattern compositions |
| `FaultComposition_proof` | Theorems about `FaultComposition` |
| `SourceIdentity` | Identities, value states and their JSON, mapping and projection, as operators |
| `RepositoryRecords` | Git objects, snapshots and pull-request facts, as operators |
| `SourceRecords`, `MCSourceRecords` | A caller who builds, stores, reads and maps these records |
| `SourceRecords_proof` | Theorems about `SourceRecords` |

`AssessmentCli` EXTENDS `FileService`, so its service behaves in every way the
promise allows, and `AssessmentFile` is checked to stay within that promise.

`Documents` EXTENDS `SuppliedAssessment`, and `SourceRecords` `RepositoryRecords`, which
EXTENDS `SourceIdentity`. `AssessmentFile.Decode` leaves the outcome of the codec open;
`Documents.SaveOutcome` is that outcome for an assessment the domain has admitted.

Definitions marked `\* mutant`, or whose comment begins with "As if", are plausible mistakes. No specification uses them; each
is there to be put in the place of the definition below it, to see that a property
notices.

### AssessmentFile

A step of a call is one system call on shared state, or one sample of the callback,
with the private work up to the next. `pc[o]` names the place in `_perform`:

| Actions | Code |
| --- | --- |
| `Admit` ... `EndRead` | arguments, platform, walk to the parent, pin, ext4 check, `_bounded_read` (one action per block) |
| `CheckPinned`, `CheckParent`, `CheckName` | `_input_binding`, which runs after reading (`phase = "read"`), before the link (`"link"`), and, in an inspection, before returning (`"return"`) |
| `Decode` | `_codec`, `_view`; success or one of `CodecFailures` |
| `WalkOut` ... `CheckOutParent` | output parent, unnamed file, short writes, fsync, last checks |
| `Link`, `Observe` | the link and the one lookup after an ambiguous failure of it |
| `AfterLink` ... `CheckPublishedName` | `_post_link` |
| `Conclude`, `Settle`, `Release` | precedence of failures, the last sample, `close_all` and the report |
| `Escape` | an exception that is neither `AssessmentFileError` nor `OSError` |

`op[o]` is the `_Operation` and the locals of `_perform`. The fields `visibility`,
`sync_completed`, `cancel_requested`, `attempted`, `completion_sampled` and `deferred`
keep their names. `settled` is the failure of `_post_link`; `linked` is history: the
link took effect, whatever the call knows of it. `holding` says whether `descriptors`
is empty; `DescriptorLedger` has the list itself.

Bytes are abstracted to the version they come from: the k-th block read is the version the
inode had then. A version is its edit, its size in blocks and its tick, the value of the clock both timestamps of
the file are taken from. The calls see size and tick only (`SameStamp`, as `_stamp` does); the edit is
what a call cannot see. An edit happens in the tick of the edit before it or in the next one, with any of `Sizes`.
So two edits may look the same, and what the rechecks give is less than a snapshot, as the
contract says (`docs/contracts/s1-p08-s02-assessment-file.md` 179-182: "They do not create an atomic snapshot
against arbitrary concurrent rewriting"). `SnapshotConsistent` states what is left: every block is of the tick the input was
pinned in, and all are one version, as long as it was pinned, unless an edit during the reading kept
both size and tick; `hidden`, a history variable, remembers that one did. `StaleNeverUsed` is about edits in a
later tick, at any time before the last look; `disturbed` remembers those. A clock set back, or timestamps set by hand, are outside the model.

Other users of the host (`EditSource`, `ReplaceSource`, `RebindParents`,
`ReplaceDestination`) are external. They do not tamper with a call's own unnamed
inode, nor with a published file's contents. `PowerLoss` keeps, for each directory,
either what it holds or what its last fsync acknowledged; and of each temporary,
either what was written or what was synchronized.

All calls select the same input and all savers the same output name. Calls on
different names meet only in the descriptor table, which is `DescriptorLedger`.

### DescriptorLedger

`close` is two steps, as in the code: the number leaves the list, then `close(2)`
runs. In between, and after, another thread may open a descriptor. `own` is one step:
between the return of `open` and the append nothing of the program runs. Which of its
descriptors `close_all` takes next is left open (the code takes the last).

Beside the numbers the ledger follows what becomes of a failed close. In the try block it is raised,
kept by `_post_link`, or deferred by the observation after an ambiguous link, which raises its own failure
(`BodyCloseFails`); in `close_all` it is remembered (`first`). At the end (`Raised`, lines 842-853) the failure of
`close_all` gives way to any other but a refusal of the callback, and what was deferred comes last. Failures are
of three kinds, "none", "refusal" and "other", which is all these lines tell apart. The last sample
has a place of its own, "ended", before `close_all`: a BaseException there is `Abandon`.

### AssessmentCli

`pc` follows `_run_assessment`, `_deliver` and `_CLIGroup.main`. A signal arrives between
any two steps and meets the handler that is set: `latch`, Python's own SIGINT handler
(`Interrupt`), the default of SIGTERM (`Kill`), or SIG_IGN. `_emit` is split into entering
its try block and its end, because a KeyboardInterrupt inside is a failed delivery and
one outside is an internal error. Messages are their kind, the effects they state and
the annotations added to them. Text, quoting and size bounds of messages are left
out, and so is everything Typer does beyond accepting, rejecting or printing help.

### The domain modules

A record class is an operator (`RunOK`, `FaultInstanceOK`, `CoverageOK`, ...): which field values its
validators admit. An action is a call of a constructor or of a function by a caller who holds
records and builds the next from them; a constructor that refuses has no effect, so the
action is not enabled. The values never change once built, and nothing runs
concurrently: what is explored is every order and every choice of the records a caller may have.

A child of a record is always of its declared class. The Python guards (`_require_typed_...`)
refuse anything else, and JSON is reconstructed through the same classes; they are in the lines
"map" names, and in the model they are the sets the fields are taken from. Grammars of lexemes (ids,
paths, media types, digests) are sets of model values; where one lexeme may fit several
grammars (`SourceIdentity.Grammar`) that is modelled. Reasons, adapter names and texts that
follow from a status are left out.

*`Evidence`.* `desk` is what the caller holds, by family of the envelope. `Request` builds
memberships from references, responses and artifacts that may name any request; `SealRun` takes
memberships of the desk into a run in any order; `Compose` makes an envelope of the desk,
with families unknown or stated empty; `WrapSnapshot` and `Project` are the two functions of the legacy
snapshot. Transformations, relationships, publications and results are admitted by their
own checks and otherwise only counted by the envelope.

*`FaultComposition`.* Records are trees of kind, name, embedded records and statement; `Universe` is what callers
may have built. `ComposeCase` offers the records a case is built around with all they stand on, or with
one of them missing; which cases are admitted is up to `FaultInstanceOK`. Collections are sets:
their order has no meaning to a check, and the code keeps identical duplicates of nameless
records only.

*`SourceIdentity`, `RepositoryRecords`, `SourceRecords`.* `MapLocator` and `ProjectIdentity` run alone or one
after the other, in the same or another context. `Carry` and `ReadCarrier` store a value state of
every set of types that is not ambiguous and read it as every type its JSON fits;
`ReadMapping` restores a stored mapping. `Collect`, `Cover` and `RecordChange` build up
paths; the other actions build a record of their own.

*`SuppliedAssessment`, `Documents`.* A size is what the budgets count: nodes (keys among them),
objects, characters, depth. `Beside`, `Member`, `Object` and `List` are the recursion of
`_check_domain_budget`, `_envelope_budget` and `_tree` over the shapes of the documents, with the real key
lengths and limits. An assessment has a size of its own, from `Sizes`; texts outside it have
their lengths. Bytes and views are bounded from above (`MostBytes`: six bytes for a character, 24 for a
node; `MostViewBytes` likewise), so that a model that never refuses for them shows that the code does not.
`Visit` counts attribution after attribution as `_tree` does and may stop in between.
`FileViewBytes` adds the lines of `_view`, with a path of 4096 bytes quoted.
`Scan` is the loop of `_depth` in both files, with its limit of 33 for assessment files, and of 36 and the refusal of a
negative depth for documents, over texts that `OpenContainer`, `CloseContainer`,
`BeginString`, `Spell` and `EndString` write piece by piece: containers within containers, and strings of
plain, bracket and escaped characters, of any length, since the state of the scan is all that is kept of a text.

## Runs

| Run | Instance | What it shows |
| --- | --- | --- |
| `save` | 1 saver, 2 directories, 2 blocks in and out, 2 steps of others, power loss | types, one version, never stale, whole files, right error, durability |
| `race` | 2 savers, 1 directory, no other users, power loss | one winner; truthful reports after ambiguous links; a taken name is another's |
| `inspect` | 1 inspector, 1 directory, 2 inodes, 1 or 2 blocks, all answers of the callback, 2 steps of others | one version, never stale, keeps the promise |
| `return` | 1 saver, 1 directory, 1 or 2 blocks, all answers, 2 steps of others | keeps the promise, always returns |
| `ledger` | 2 calls, 3 numbers, 2 acquisitions each | exact ledger, clean return, cleanup ends |
| `cli` | up to 3 signals, SIGINT and SIGTERM each found at default or ignored | status, messages and handlers tell the truth; the command ends |
| `evidence` | 4 requests of 2 runs, 2 times, 2 requirements, 12 publications, 3 records in a tuple, 2 on the desk | one place per request, runs in order, earned status, exact projection |
| `faults` | 25 records of 15 kinds, 2 faults, cases built around 3, patterns with cases of 3 | one fault, one value per name, links and patterns about members |
| `records` | 2 providers, 4 repositories, 3 aliases, 3 lexemes, tuples of 2 | reversible mapping, types kept, paths resolved |
| `documents` | 6 sizes, longest and shortest texts, up to 9 attributions, 37 containers at once, strings of any length | admitted is savable, documents fit, one text per key, the scan agrees |
| `release`, `cli_known` | small | the two findings below |

Why these bounds are enough. A torn read needs two blocks and one edit; one that only its size
gives away two sizes, an input that grows or shrinks; an edit hidden behind another two steps; an edit that
is undone in the name (replace and put back) needs two steps; a partial write needs
two units; a rebinding needs two directories, which
`save` has for input and output; `inspect` spends its states on sizes and a second step of others. Three steps of others add only
repetitions. Two savers are all that can meet at one name, since a third finds
it taken just as the second does. Two signals differ in order and kind, and the third
comes after the handlers are back. Three numbers and two acquisitions let a call hold one, close one, and
another call or thread take it. Reads, writes and acquisitions are the only loops, and each is
bounded by its data. `save` uses symmetry of directories and `race` of savers; no run
with a liveness property uses symmetry.

In the domain runs, a contradiction takes two records, a forgotten predecessor three requests
(`MaxEntries = 3`: one without a start between two with one), a bound exceeded one more than it
allows (`MaxMembers = 2`). `MaxDesk = 2` keeps the families of an envelope to pairs, since every check
of an envelope relates two records; the requests of one run may be three. `MaxTips = 3` lets a case be built around a
comparison and two more, each brought with everything it stands on. `MaxPatternCase = 3` keeps the cases of a
pattern to a report and two records on it: a pattern looks at the expected properties only.
`MaxCandidates`, `MaxPaths`, `MaxPosition = 2` allow a repetition and an inverted span.
`MCSizes` has every limit of the domain and one more of each; `MaxEntries = 2` a repeated key;
nine attributions are one more than admitted, all of the same texts, and one at most of another
review. `MaxOpen = 37` is one container more than the larger limit of 36.

`SnapshotConsistent`, `StaleNeverUsed` and `KeepsPromise` are checked in two runs, for
a save in one and for an inspection in the other, which end differently: an inspection rechecks after the last sample.

Deadlock is checked in the runs of the service, the ledger and the command line. A finished
system stutters explicitly there (`Stopped` and its counterparts). The four domain runs
do not check it: a caller may stop building records at any point, and a domain
without any loop has no liveness property either.

Fairness. `FairSpec` is weak fairness of each call's next step, which is only that the
interpreter goes on running it; no callback, system call or other program is
assumed to succeed. Calls end because every loop makes progress or fails. In
`DescriptorLedger` only a `close_all` already begun is fair. In `AssessmentCli` the
command's own steps are fair, and so is the return of the service, which `Terminates`
shows of it; signals are not.

## Findings

* `release` (`assessment_file.py` 836-841). An exception that is not an `Exception`
  (KeyboardInterrupt, SystemExit), raised by a caller's callback at the sample *after* the
  try block, leaves `_perform` past `close_all`; inside the try block the same exception
  is followed by it. The contract says each acquired descriptor is closed once. The
  command line's own callback does not raise, so it is not affected.
* `cli_known` (`cli.py` 137-140). After the handlers are back and before the answer is in
  `_emit`, a SIGINT raises KeyboardInterrupt; the top-level fallback then says that
  visibility is uncertain and synchronization unestablished, although the service has
  told both. The contract excepts just that case from the fallback, and says that
  arrivals after the cutoff do not change the result.

## Proofs

`AssessmentFile_proof`, for any number of savers, inspectors, directories, inodes and
blocks, and any number of steps of others, under the assumptions named in the module (calls
are distinct from one another and from `None` and `Foreign`; a canonical output is not
empty):

* `TypeCorrectness`: `Spec => []TypeOK`.
* `OnlyWholeFilesPublished`: `Spec => []PublishedComplete`, so also after a power loss.
* `ReportsTruthful`, `ReturnedSavesAreSaved`, `CancellationsSettled`, `UnsynchronizedReported`:
  `Spec =>` always `TruthfulReport`, `SuccessMeansSaved`, `CancellationSettled`, `SyncFailureWins`.

The first inductive invariant is `Inv == TypeOK /\ CallsOK /\ NamesLinked`. `TypeOK` is not
inductive: reading needs a pinned inode, `Link` a known output parent. `CallsOK` says what
a call has at each place: from "pin" on a parent, from "qualify" on an inode, from "prepare" on
an output parent, and from "outBinding" on, in the phase "link", a temporary that is
written *and* synchronized. `PublishedComplete` needs the second half because a power
loss takes `written` back to `synced`. A call whose link took effect
keeps its temporary in that state for good, and `NamesLinked` says that a saver's inode
is under a name, or in what a directory has on disk, only when its link took effect.
Each action has one lemma that it keeps `CallsOK`; steps of others and power loss have
their own; `NextInv` joins them.

The four properties of reports are about the end of a call and hold because of everything
between its link and that end. `Courses` says so of each call in four parts: `Attempts` (what it
knows of the link), `Synced` (how many synchronizations succeeded, and that a failed one is kept in `settled`
until it is weighed), `Cancels` (a request that was seen is deferred until a failure is chosen) and `Verdict`
(the failure chosen covers a file that is not known to be synchronized). `Settled == Inv /\ Courses`
is inductive (`CoursesInvariance`). It needs that the codec raises none of the codes of
publication or cancellation, which is the assumption `CodecFailures \subseteq CodecCodes`: those are
the codes that `_codec` and `_view` name.

`AssessmentFileService_proof` goes on from there, under the same assumptions:

* `ReadAsPinned`: `Spec => []SnapshotConsistent`.
* `NothingStaleUsed`: `Spec => []StaleNeverUsed`.
* `AtMostOneWinner`: `Spec => []OneWinner`, for any number of savers.
* `LostToAnother`: `Spec => []TakenByAnother`, likewise.
* `SynchronizedSurvives`: `Spec => DurableOnceSynced`.
* `PromisesKept`: `Spec => KeepsPromise`, the refinement of `FileService`.

The invariant is `Whole == Settled /\ Inputs /\ Names /\ Losers`, written out. `Inputs` says of each call that every
block it read lies, by its tick, between the version it pinned and the version there is now, and that all it read is the
version it pinned unless an edit has come that shows or hides (`Tracks`); so that an unchanged tick and size at the recheck
leave one tick for all blocks, and one version unless `hidden`; and that a call whose input was edited is still to look at
it, or has failed (`Notices`). `Names` says that a name leads to a call's file only in the directory the call
linked it in; that what a call reports as synchronized there is on the disk; and that, while nobody
meddles, savers that link use the same directory, so that the first link
leaves the name taken. `Losers` says that a call which is told of an existing destination never linked, and that the name
leads to another's file. The proofs see most steps of a call in one way only: `Onward` and `Ends` say where a
step that leaves the files alone leads to.

For the refinement each step of each call is mapped: `Link`, when it takes effect, is `Publish`; the second
synchronization `Synchronize`; a checkpoint at most a `Sample`; `Release` a `Conclude` with an honest report, which
rests on `Courses`; `Escape` is `Escape`. Every other step, of this call (`Quiet`), of other calls, of other
users and of the power supply leaves what is promised of the call unchanged. `AssessmentCli` is proved on top
of the same `FileService`, so what is proved there of the command line relies on nothing the service is not proved to keep, save that it returns.

`DescriptorLedger_proof`, for any calls, numbers and bound: `LedgerAlwaysExact`
(`Spec => []LedgerExact`) and `ReturnsClean` (`Spec => []CleanReturn`). The invariant
adds to `LedgerExact` that the descriptors a call acquired are those it closed and those it owns (`CountExact`, a
count of a finite set), that a returned call owns none, and that a failed close is in the
failure to be raised or still with `close_all` (`FailureKept`).

`AssessmentCli_proof`, for any number of signals: `Types`, `ZeroExitAlwaysTrue`, `CancellationExitAlways`,
`EffectsAlwaysTruthful` and `HandlersAlwaysGivenBack`, all five invariants of the run. None is inductive,
for each is about the end of the run. `IInv` adds to the types what holds on the way there: `Untouched`
(nothing happened to the file before the call), `Handling` (a replaced handler is still to be given
back, or lost and then the status is 1), `Cancelling` (the cutoff is the first signal; a
status above 128 comes with every handler back), `Truthful` (the effects and the message about to be
delivered are true, except during the call, when nothing can be delivered) and `Succeeding` (status 0
stays with an answer that may have it). The proof takes the service by its promise, `FileService`.

`FaultComposition_proof`, for any universe of admitted records: all four properties of the run. The
invariant `Sound` says that what was composed passed the checks of its class. `ClosedIsWhole` carries
them to embedded records of any depth: references are members, so a case is closed
under embedding, and what holds of members holds of all a case stands on.

`Documents_proof`, for every size that `DomainLimits` admits and every length of text:
`SavableAlways` (`Spec => []AdmittedIsSavable`) and `DocumentFitsAlways` (`Spec => []ReviewDocumentFits`).
The parts of a document are bounded from the inside out, one level a step
(`MemberBounded`, `BesideBounded`, `ObjectBounded`); `DocumentWithin` adds them up to the limits of the code,
which leave nothing over. The invariant `Sound` relates what a `Visit` has counted to the number of
attributions visited; it takes no bound on them, so that nine and more are covered.
What is proved rests on `MostBytes` and `MostViewBytes` being upper bounds of the code's output.

Also there: `OneTextAlways` (`Spec => []OneTextPerKey`), from the invariant `Told`: the review is of the assessment,
a document is begun only when the inspection accepted what it will hold, and nothing is added while it is
written. And `ScanAgreesAlways` (`Spec => []ScanAgrees`), for texts of any length and nesting, from
`InStep`: between two pieces of a text the scan knows whether it is in a string, is not waiting for an escaped character,
and has refused what went too deep.

`Evidence_proof`, for any requests, times, snapshots and lengths, under the assumption that `None` is not among
the values it stands beside: `RequestsAtHome`, `RunsInOrder`, `StatusEarned`, `NothingLost`, the four properties of the run. `Inv` says that
what is on the desk and in the envelope passed the checks of its class, that the envelope passed its own, and that a projection is
of the envelope that is there. `RunsInOrder` would take induction along a run, since a request is compared with the last one before
it that has a start; it is proved by minimal counterexample instead (`LeastNatural`, `GreatestNatural`): the earliest
request that goes back behind one ahead of it is compared with a request that must go back too, and is earlier still. `RequestsAtHome` joins the
three classes of checks: memberships hold what names them, run members are of their run, and an envelope's keys are apart.

`SourceRecords_proof`, for any identities, aliases and lexemes: `MappingGoesBack`, `StoredTypesKept` and `EveryPathResolves`, the three properties
of the run. `Inv` says that each record repeats what its inputs lead to. `Reversible` compares the two
functions case by case; it needs that the lower case of a legacy alias is one too, and its own lower case
(`IdentityAssumption`). `ReadAsWritten`, for a value, and `StateReadAsWritten`, for a whole state, say that JSON tells apart the types of a set that is not ambiguous;
they need that null is not a value nor an object (`AbsenceAssumption`).

Only model-checked: `Terminates`, `CleanupEnds` and `Ends`, which are liveness under fairness and out of the prover's
reach, and the two properties that are violated. The bounds that a run puts on a model (`MaxInterference`, `MaxEntries`, `MaxOpen` and
their like) have no particular value in the proofs.

## Not modelled, and the plan

Done, in this order: the file service with its environment and the promise it makes; the command line
on top of that promise; the descriptor ledger; the budgets, assessments and documents; evidence
records; fault composition; identities, snapshots and history.

Open:

1. `_parts` and `_mount_type`, which take paths and mount tables apart character by character. They
   have no state, their cases are listed by the tests, and a model would repeat them.
2. Malformed and non-canonical JSON: `Decode` of the service may answer with any of the codec's codes, and the
   review document is read as it was written.

Left out for good: `__init__.py` and `__main__.py` (a version and a call), `docs/`, `tests/` and `reference_corpus/` (read as contracts, and not
program); rendering of views and diagnostics; Pydantic's own strictness and coercion;
generated help.
