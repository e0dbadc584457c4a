---------------------------- MODULE AssessmentCli -----------------------------
(***************************************************************************)
(* One run of `faultatlas assessment inspect` or `save-as` (cli.py): the   *)
(* signal handlers it installs around its one call of the file service,    *)
(* the answer it selects once that call has settled, and the delivery of   *)
(* that answer, with SIGINT and SIGTERM arriving at any point.  The call   *)
(* is FileService, which AssessmentFile implements.  Texts are abstracted  *)
(* to their kind and to the effects they state.                            *)
(***************************************************************************)
EXTENDS FileService, Naturals, Sequences

CONSTANT MaxSignals      \* bound on the signals that arrive during a run

ASSUME SignalsAssumption == MaxSignals \in Nat

SIGINT  == 2
SIGTERM == 15
Signals == {SIGINT, SIGTERM}

VARIABLES
  pc,              \* where _run_assessment, _deliver or _CLIGroup.main is
  prior, handler,  \* the handlers found at the start and those set now
  installed,       \* the signals whose handler was replaced, in order
  observed,        \* what latch remembers: the first signal, or 0
  cutoff,          \* the sample of observed taken once the service has settled
  restore_failed,
  effects,         \* _Effects
  message,         \* what is to be delivered
  status,          \* the exit status decided so far
  shown,           \* the messages whose write and flush were acknowledged
  arrived          \* signals that have arrived

cli == <<prior, handler, installed, observed, cutoff, restore_failed, effects,
         message, status, shown, arrived>>
vars == <<pc, cli, promised>>

Effects == [visibility: {"not_published", "published", "uncertain"},
            sync: {"false", "true", "unestablished"}, cancelled: BOOLEAN]

NoEffects == [visibility |-> "not_published", sync |-> "false", cancelled |-> FALSE]
Unknown   == [visibility |-> "uncertain", sync |-> "unestablished", cancelled |-> FALSE]

Kinds == {"none", "help", "view", "receipt", "service error", "CLI_USAGE",
          "CLI_ARGUMENT_ENCODING", "CLI_SIGNAL_SETUP", "CLI_SIGNAL_RESTORE",
          "CLI_OUTPUT", "CLI_CANCELLED", "CLI_INTERNAL"}

\* A message: what it is, the effects it states and the lines added to it.
Text(kind, e) == [kind |-> kind, effects |-> e, notes |-> {}]

Init ==
  /\ ServiceInit
  /\ pc = "parse"
  /\ prior \in [Signals -> {"default", "ignore"}] /\ handler = prior
  /\ installed = <<>> /\ observed = 0 /\ cutoff = 0 /\ restore_failed = FALSE
  /\ effects = NoEffects /\ message = Text("none", NoEffects)
  /\ status = 0 /\ shown = {} /\ arrived = 0

Ended == {"exited", "killed", "interrupted"}

-----------------------------------------------------------------------------
(* Parsing and signal setup.                                               *)

Deliver(m, st, next) ==
  /\ message' = m /\ status' = st /\ pc' = next
  /\ UNCHANGED <<prior, handler, installed, observed, cutoff, restore_failed, effects,
                 shown, arrived>>

\* Rejected before any file work: no handler is installed for it.
Parse ==
  /\ pc = "parse"
  /\ \/ Deliver(Text("CLI_USAGE", NoEffects), 2, "topPresent")
     \/ Deliver(Text("CLI_ARGUMENT_ENCODING", NoEffects), 2, "present")
     \/ Deliver(Text("help", NoEffects), 0, "help")
     \/ pc' = "setup" /\ UNCHANGED cli

\* The next signal to install; SIGINT comes first.
SameSignal == SIGINT                                    \* mutant: the first one again
NextSignal == IF installed = <<>> THEN SIGINT ELSE SIGTERM

Install ==
  /\ pc = "setup" /\ Len(installed) < 2
  /\ installed' = Append(installed, NextSignal)
  /\ handler' = [handler EXCEPT ![NextSignal] = "latch"]
  /\ IF Len(installed) = 1 THEN pc' = "serve" /\ effects' = Unknown
                           ELSE pc' = "setup" /\ UNCHANGED effects
  /\ UNCHANGED <<prior, observed, cutoff, restore_failed, message, status, shown, arrived>>

\* Not the main thread, or signal.signal refused: what was installed is restored.
SetupFails == pc = "setup" /\ Deliver(Text("CLI_SIGNAL_SETUP", effects), 1, "cutoff")

-----------------------------------------------------------------------------
(* The service call, the cutoff and the restoration of the handlers.       *)

Serve ==
  /\ pc = "serve"
  /\ Publish \/ Synchronize \/ Sample(observed # 0)
  /\ UNCHANGED <<pc, cli>>

\* What _run_assessment makes of the report.
ErrorMeansNothing(r) ==                                 \* mutant: effects are never taken over
  IF r.code # "none" THEN NoEffects
  ELSE [effects EXCEPT !.visibility = IF saving THEN "published" ELSE "not_published",
                       !.sync = IF saving THEN "true" ELSE "false"]

Established(r) ==
  IF r.code # "none"
  THEN [visibility |-> r.visibility, cancelled |-> r.cancel_requested,
        sync |-> IF r.sync_completed THEN "true" ELSE "false"]
  ELSE [effects EXCEPT !.visibility = IF saving THEN "published" ELSE "not_published",
                       !.sync = IF saving THEN "true" ELSE "false"]

Answer(r) == IF r.code # "none" THEN "service error"
             ELSE IF saving THEN "receipt" ELSE "view"

Settled ==
  /\ pc = "serve"
  /\ \/ \E r \in Reports :
          /\ Conclude(r)
          /\ effects' = Established(r)
          /\ message' = Text(Answer(r), Established(r))
          /\ status' = IF r.code = "none" THEN 0 ELSE 1
     \/ /\ Escape
        /\ message' = Text("CLI_INTERNAL", effects) /\ status' = 1 /\ UNCHANGED effects
  /\ pc' = "cutoff"
  /\ UNCHANGED <<prior, handler, installed, observed, cutoff, restore_failed, shown, arrived>>

Cutoff ==
  /\ pc = "cutoff" /\ pc' = "restore" /\ cutoff' = observed
  /\ UNCHANGED <<prior, handler, installed, observed, restore_failed, effects, message,
                 status, shown, arrived>>

\* Handlers are given back in reverse; one that cannot be is left and noted.
RestoreForward ==                                       \* mutant: in the order of setup
  /\ pc = "restore"
  /\ IF installed = <<>>
     THEN pc' = "respond" /\ UNCHANGED <<installed, handler, restore_failed>>
     ELSE /\ pc' = IF Len(installed) = 1 THEN "respond" ELSE "restore"
          /\ installed' = Tail(installed)
          /\ \/ /\ handler' = [handler EXCEPT ![Head(installed)] = prior[Head(installed)]]
                /\ UNCHANGED restore_failed
             \/ restore_failed' = TRUE /\ UNCHANGED handler
  /\ UNCHANGED <<prior, observed, cutoff, effects, message, status, shown, arrived>>

Restore ==
  /\ pc = "restore"
  /\ IF installed = <<>>
     THEN pc' = "respond" /\ UNCHANGED <<installed, handler, restore_failed>>
     ELSE LET sig == installed[Len(installed)] IN
          /\ pc' = IF Len(installed) = 1 THEN "respond" ELSE "restore"
          /\ installed' = SubSeq(installed, 1, Len(installed) - 1)
          /\ \/ handler' = [handler EXCEPT ![sig] = prior[sig]] /\ UNCHANGED restore_failed
             \/ restore_failed' = TRUE /\ UNCHANGED handler
  /\ UNCHANGED <<prior, observed, cutoff, effects, message, status, shown, arrived>>

-----------------------------------------------------------------------------
(* Response selection and delivery.                                        *)

Final == [effects EXCEPT !.cancelled = @ \/ cutoff # 0]

\* An observed signal turns a success into CLI_CANCELLED, gives a pure cancellation
\* its status, and is noted beside any failure that does not tell of it already.
SelectCancelled ==
  LET served == report \in Reports /\ report.code # "none" IN
  CASE cutoff = 0  -> [text |-> message, status |-> status]
    [] cutoff # 0 /\ status = 0 -> [text |-> Text("CLI_CANCELLED", Final), status |-> 128 + cutoff]
    [] cutoff # 0 /\ status # 0 ->
         [text |-> IF served /\ report.cancel_requested THEN message
                   ELSE [message EXCEPT !.notes = {"CLI_CANCELLED"}],
          status |-> IF served /\ report.code = "CANCELLED" THEN 128 + cutoff ELSE status]

\* A handler that was not restored forces status 1 and hides no primary answer.
SelectRestored(answer) ==
  CASE ~restore_failed -> answer
    [] restore_failed /\ answer.status = 0 ->
         [text |-> Text("CLI_SIGNAL_RESTORE", Final), status |-> 1]
    [] restore_failed /\ answer.status # 0 ->
         [text |-> [answer.text EXCEPT !.notes = @ \cup {"CLI_SIGNAL_RESTORE"}], status |-> 1]

Respond ==
  LET answer == SelectRestored(SelectCancelled) IN
  /\ pc = "respond" /\ pc' = "present"
  /\ message' = answer.text /\ status' = answer.status /\ effects' = Final
  /\ UNCHANGED <<prior, handler, installed, observed, cutoff, restore_failed, shown, arrived>>

ToStderr(m) == m.kind \notin {"help", "view", "receipt"}

\* _deliver enters the try block of _emit.
Enter(label, next) == pc = label /\ pc' = next /\ UNCHANGED cli

Present == \/ Enter("present", "emit") \/ Enter("presentFailure", "emitFailure")
           \/ Enter("topPresent", "topEmit") \/ Enter("help", "emitHelp")

After == [emit |-> "return", emitHelp |-> "return", emitFailure |-> "return",
          topEmit |-> "topReturn"]

EmitSucceeds ==
  /\ pc \in DOMAIN After /\ pc' = After[pc]
  /\ shown' = shown \cup {message}
  /\ UNCHANGED <<prior, handler, installed, observed, cutoff, restore_failed, effects,
                 message, status, arrived>>

\* A failed stdout gets one diagnostic on stderr, a failed stderr nothing; status is 1.
Undelivered ==
  CASE pc = "emit" /\ ~ToStderr(message) -> <<Text("CLI_OUTPUT", effects), "presentFailure">>
    [] pc = "emit" /\ ToStderr(message)  -> <<message, "return">>
    [] pc = "emitFailure"                -> <<message, "return">>
    [] pc = "emitHelp"                   -> <<Text("CLI_OUTPUT", NoEffects), "topPresent">>
    [] pc = "topEmit"                    -> <<message, "topReturn">>

QuietFailure ==                                         \* mutant: the status survives it
  pc \in DOMAIN After /\ Deliver(Undelivered[1], status, Undelivered[2])
RetryForever == pc \in DOMAIN After /\ Deliver(message, 1, "present")   \* mutant: try again
EmitFails == pc \in DOMAIN After /\ Deliver(Undelivered[1], 1, Undelivered[2])

Exit == Enter("return", "exited") \/ Enter("topReturn", "exited")

Step == \/ Parse \/ Install \/ SetupFails \/ Cutoff \/ Restore \/ Respond
        \/ Present \/ EmitSucceeds \/ EmitFails \/ Exit

Run == Serve \/ Settled \/ (Step /\ UNCHANGED promised)

-----------------------------------------------------------------------------
(* Signals.                                                                *)

\* latch keeps the first signal only.
LatchLast(sig) ==                                       \* mutant: the last one
  handler[sig] = "latch" /\ observed' = sig /\ UNCHANGED <<pc, message, status>>

Latch(sig) ==
  /\ handler[sig] = "latch"
  /\ observed' = IF observed = 0 THEN sig ELSE observed
  /\ UNCHANGED <<pc, message, status>>

\* Python's own SIGINT handler raises KeyboardInterrupt where the program is: _emit
\* takes it for a failed delivery, _CLIGroup.main catches it once anywhere else.
Interrupt(sig) ==
  /\ sig = SIGINT /\ handler[sig] = "default"
  /\ CASE pc \in DOMAIN After -> /\ message' = Undelivered[1] /\ status' = 1
                                 /\ pc' = Undelivered[2]
       [] pc \in {"topPresent", "topReturn"} ->
            pc' = "interrupted" /\ UNCHANGED <<message, status>>
       [] OTHER -> /\ message' = Text("CLI_INTERNAL", Unknown) /\ status' = 1
                   /\ pc' = "topPresent"
  /\ UNCHANGED observed

\* The default action of SIGTERM ends the process.
Kill(sig) == /\ sig = SIGTERM /\ handler[sig] = "default"
             /\ pc' = "killed" /\ UNCHANGED <<observed, message, status>>

Ignore(sig) == handler[sig] = "ignore" /\ UNCHANGED <<pc, observed, message, status>>

Arrive(sig) ==
  /\ pc \notin Ended /\ arrived < MaxSignals /\ arrived' = arrived + 1
  /\ Latch(sig) \/ Interrupt(sig) \/ Kill(sig) \/ Ignore(sig)
  /\ UNCHANGED <<prior, handler, installed, cutoff, restore_failed, effects, shown, promised>>

Next == Run \/ (\E sig \in Signals : Arrive(sig)) \/ (pc \in Ended /\ UNCHANGED vars)

\* The interpreter keeps running, and the service keeps its promise to return.
Spec == Init /\ [][Next]_vars /\ WF_vars(Settled) /\ WF_vars(Step /\ UNCHANGED promised)

-----------------------------------------------------------------------------
(* What must hold.                                                         *)

\* Every variable keeps its type.
TypeOK ==
  /\ saving \in BOOLEAN /\ published \in BOOLEAN /\ synced \in BOOLEAN /\ requested \in BOOLEAN
  /\ report \in Reports \cup {Pending, Escaped}
  /\ prior \in [Signals -> {"default", "ignore"}]
  /\ handler \in [Signals -> {"default", "ignore", "latch"}]
  /\ installed \in {<<>>, <<SIGINT>>, <<SIGINT, SIGTERM>>}
  /\ observed \in Signals \cup {0} /\ cutoff \in Signals \cup {0}
  /\ restore_failed \in BOOLEAN /\ effects \in Effects
  /\ message \in [kind: Kinds, effects: Effects, notes: SUBSET Kinds]
  /\ shown \subseteq [kind: Kinds, effects: Effects, notes: SUBSET Kinds]
  /\ status \in {0, 1, 2, 128 + SIGINT, 128 + SIGTERM} /\ arrived \in Nat

\* A command that exits with 0 has shown its answer: what it says of a file is true,
\* and no signal was observed by the cutoff or told to the service.
ZeroExitTrue ==
  pc = "exited" /\ status = 0 =>
    /\ cutoff = 0 /\ ~requested
    /\ \E m \in shown : /\ m.kind \in {"help", "view", "receipt"}
                        /\ m.kind = "view" => ~published
                        /\ m.kind = "receipt" => published /\ synced

\* The exits 130 and 143 are left to pure cooperative cancellation: the signal they
\* name is the first one latched, nothing else failed, and every handler is back.
CancellationExit ==
  pc = "exited" /\ status > 128 =>
    /\ status = 128 + observed /\ observed = cutoff
    /\ report \in Reports /\ report.code \in {"none", "CANCELLED"}
    /\ handler = prior

\* No message claims an effect that did not happen or denies a publication that did.
EffectsTruthful ==
  \A m \in shown :
    /\ m.effects.visibility = "published" => published
    /\ m.effects.visibility = "not_published" => ~published
    /\ m.effects.sync = "true" => published /\ synced
    /\ m.effects.cancelled => observed # 0

\* The handlers found are given back on every way out, or the exit status says not.
HandlersGivenBack ==
  pc \in {"exited", "interrupted"} =>
    handler = prior \/ (restore_failed /\ (pc = "exited" => status = 1))

\* Once the service has told what it did, no answer says that it is not known.
KnownEffectsKept ==
  \A m \in shown : m.effects.sync = "unestablished" => report \notin Reports

\* Signals, however many, do not keep a command from ending.
Ends == <>(pc \in Ended)
===============================================================================
