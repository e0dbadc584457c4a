------------------------ MODULE AssessmentCli_proof ------------------------
(***************************************************************************)
(* Proofs about AssessmentCli, for any number of signals: what an exit     *)
(* status of 0, 130 or 143 means, that no delivered message is wrong about *)
(* the effects, and that the handlers found are given back.                *)
(***************************************************************************)
EXTENDS AssessmentCli, SequenceTheorems, TLAPS

(***************************************************************************)
(* The inductive invariant                                                 *)
(***************************************************************************)

Serving == {"cutoff", "restore", "respond"}    \* the call is over, no answer selected
Top == {"topPresent", "topEmit", "topReturn"}
Failing == {"presentFailure", "emitFailure"}
Delivering == {"present", "emit", "return", "help", "emitHelp"} \cup Failing \cup Top
Places == {"parse", "setup", "serve"} \cup Serving \cup Delivering \cup Ended

Messages == [kind : Kinds, effects : Effects, notes : SUBSET Kinds]

\* The types, in three parts.
ServiceTyped ==
    /\ saving \in BOOLEAN /\ published \in BOOLEAN /\ synced \in BOOLEAN
    /\ requested \in BOOLEAN /\ report \in Reports \cup {Pending, Escaped}

SignalsTyped ==
    /\ prior \in [Signals -> {"default", "ignore"}]
    /\ handler \in [Signals -> {"default", "ignore", "latch"}]
    /\ installed \in {<<>>, <<SIGINT>>, <<SIGINT, SIGTERM>>}
    /\ observed \in Signals \cup {0} /\ cutoff \in Signals \cup {0}
    /\ restore_failed \in BOOLEAN /\ arrived \in Nat

AnswerTyped ==
    /\ effects \in Effects /\ message \in Messages /\ shown \subseteq Messages
    /\ status \in {0, 1, 2, 128 + SIGINT, 128 + SIGTERM} /\ pc \in Places

\* TypeOK, and where the program may be.
Typed == ServiceTyped /\ SignalsTyped /\ AnswerTyped

\* Until the service is called nothing has happened that an answer could be about.
Untouched ==
    /\ pc \in {"parse", "setup"} =>
         /\ effects = NoEffects /\ report = Pending /\ status = 0 /\ ~restore_failed
         /\ cutoff = 0 /\ message = Text("none", NoEffects)
    /\ pc = "parse" => installed = <<>>
    /\ pc \in {"parse", "setup", "help", "emitHelp"} => ~published /\ ~requested
    /\ pc \in {"parse", "setup", "serve"} \cup Serving => shown = {}
    /\ pc = "serve" => effects = Unknown /\ status = 0 /\ cutoff = 0
    /\ pc = "cutoff" => cutoff = 0
    /\ pc \in {"serve", "cutoff"} => ~restore_failed

\* A handler that is not the one found is latch, still to be given back or lost.
Handling ==
    /\ installed # <<>> => handler[SIGINT] = "latch"
    /\ installed = <<SIGINT, SIGTERM>> => handler[SIGTERM] = "latch"
    /\ pc = "serve" => installed = <<SIGINT, SIGTERM>>
    /\ pc \in {"respond"} \cup Delivering \cup {"exited", "interrupted"} => installed = <<>>
    /\ handler[SIGINT] = prior[SIGINT] \/ installed # <<>> \/ restore_failed
    /\ handler[SIGTERM] = prior[SIGTERM] \/ installed = <<SIGINT, SIGTERM>> \/ restore_failed
    /\ pc \in Delivering \cup {"exited"} /\ restore_failed => status = 1

\* The cutoff is the first signal, and a status that names it is a pure cancellation's.
Cancelling ==
    /\ cutoff # 0 => observed = cutoff
    /\ requested => observed # 0
    /\ pc \in Serving /\ status = 0 => report \in Reports /\ report.code = "none"
    /\ status > 128 => /\ pc \in Delivering \cup Ended
                       /\ status = 128 + observed /\ observed = cutoff
                       /\ report \in Reports /\ report.code \in {"none", "CANCELLED"}
                       /\ handler = prior

\* The effects an answer states are those of the file service.
True(e) ==
    /\ e.visibility = "published" => published
    /\ e.visibility = "not_published" => ~published
    /\ e.sync = "true" => published /\ synced
    /\ e.cancelled => observed # 0

Truthful ==
    /\ published => saving
    /\ True(effects)
    /\ pc # "serve" => True(message.effects)
    /\ \A m \in shown : True(m.effects)

\* An answer that may accompany status 0.
Good(m) == /\ m.kind \in {"help", "view", "receipt"}
           /\ m.kind = "view" => ~published
           /\ m.kind = "receipt" => published /\ synced

Succeeding ==
    /\ pc \in Serving /\ status = 0 => Good(message) /\ ~requested
    /\ pc \in {"present", "emit", "help", "emitHelp"} /\ status = 0 =>
         Good(message) /\ ~requested /\ cutoff = 0
    /\ pc \in {"return", "exited"} /\ status = 0 =>
         (\E m \in shown : Good(m)) /\ ~requested /\ cutoff = 0
    /\ pc \in Failing \cup Top => status # 0

IInv == Typed /\ Untouched /\ Handling /\ Cancelling /\ Truthful /\ Succeeding

(***************************************************************************)
(* Cases                                                                   *)
(***************************************************************************)

\* Appending a second signal to one.
LEMMA PairAppended ==
    ASSUME NEW S, NEW x \in S, NEW y \in S
    PROVE  Append(<<x>>, y) = <<x, y>>
<1>. DEFINE s == Append(<<x>>, y)
            t == <<x, y>>
<1>1. /\ <<x>> \in Seq(S) /\ Len(<<x>>) = 1
      /\ t \in Seq(S) /\ Len(t) = 2 /\ t[1] = x /\ t[2] = y
  OBVIOUS
<1>2. s \in Seq(S) /\ Len(s) = 2 /\ s[1] = x /\ s[2] = y
  BY <1>1, AppendProperties
<1>. HIDE DEF s, t
<1>3. \A i \in 1 .. Len(s) : s[i] = t[i]
  BY <1>1, <1>2
<1>4. s = t
  BY <1>1, <1>2, <1>3, SeqEqual
<1>. QED BY <1>4 DEF s, t

\* Cutting the second of two signals off.
LEMMA PairCut ==
    ASSUME NEW S, NEW x \in S, NEW y \in S
    PROVE  SubSeq(<<x, y>>, 1, 1) = <<x>>
<1>. DEFINE u == <<x, y>>
            s == SubSeq(u, 1, 1)
            t == <<x>>
<1>1. t \in Seq(S) /\ Len(t) = 1 /\ t[1] = x /\ u[1] = x
  OBVIOUS
<1>2. \A i \in 1 .. 1 : u[i] \in S
  BY <1>1
<1>3. s \in Seq(S) /\ Len(s) = 1 /\ s[1] = x
  <2>. HIDE DEF u
  <2>. QED BY <1>1, <1>2, SubSeqProperties
<1>. HIDE DEF s, t
<1>4. \A i \in 1 .. Len(s) : s[i] = t[i]
  BY <1>1, <1>3
<1>5. s = t
  BY <1>1, <1>3, <1>4, SeqEqual
<1>. QED BY <1>5 DEF s, t

\* Signals are installed one after the other.
LEMMA Installing ==
    ASSUME Typed, Install
    PROVE  \/ /\ installed = <<>> /\ installed' = <<SIGINT>>
              /\ NextSignal = SIGINT /\ pc' = "setup" /\ effects' = effects
           \/ /\ installed = <<SIGINT>> /\ installed' = <<SIGINT, SIGTERM>>
              /\ NextSignal = SIGTERM /\ pc' = "serve" /\ effects' = Unknown
<1>1. CASE installed = <<>>
  BY <1>1 DEF Install, NextSignal
<1>2. CASE installed = <<SIGINT>>
  <2>1. Append(<<SIGINT>>, SIGTERM) = <<SIGINT, SIGTERM>>
    <3>1. SIGINT \in Signals /\ SIGTERM \in Signals
      BY DEF Signals
    <3>. QED BY <3>1, PairAppended
  <2>2. Len(installed) = 1 /\ installed # <<>>
    BY <1>2
  <2>. QED BY <1>2, <2>1, <2>2 DEF Install, NextSignal
<1>3. installed # <<SIGINT, SIGTERM>>
  BY DEF Install
<1>. QED BY <1>1, <1>2, <1>3 DEF Typed, SignalsTyped

\* The last of the installed signals is given back first.
LEMMA GivingBack ==
    ASSUME Typed, Restore
    PROVE  \/ /\ installed = <<>> /\ pc' = "respond"
              /\ installed' = <<>> /\ handler' = handler /\ restore_failed' = restore_failed
           \/ /\ installed = <<SIGINT>> /\ installed' = <<>> /\ pc' = "respond"
              /\ \/ /\ handler' = [handler EXCEPT ![SIGINT] = prior[SIGINT]]
                    /\ restore_failed' = restore_failed
                 \/ restore_failed' = TRUE /\ handler' = handler
           \/ /\ installed = <<SIGINT, SIGTERM>> /\ installed' = <<SIGINT>> /\ pc' = "restore"
              /\ \/ /\ handler' = [handler EXCEPT ![SIGTERM] = prior[SIGTERM]]
                    /\ restore_failed' = restore_failed
                 \/ restore_failed' = TRUE /\ handler' = handler
<1>1. CASE installed = <<>>
  BY <1>1 DEF Restore
<1>2. CASE installed = <<SIGINT>>
  <2>1. SubSeq(installed, 1, Len(installed) - 1) = <<>>
    BY <1>2
  <2>. QED BY <1>2, <2>1 DEF Restore
<1>3. CASE installed = <<SIGINT, SIGTERM>>
  <2>1. Len(installed) = 2 /\ Len(installed) - 1 = 1
    BY <1>3
  <2>2. SubSeq(installed, 1, Len(installed) - 1) = <<SIGINT>>
    <3>1. SIGINT \in Signals /\ SIGTERM \in Signals
      BY DEF Signals
    <3>2. SubSeq(<<SIGINT, SIGTERM>>, 1, 1) = <<SIGINT>>
      BY <3>1, PairCut
    <3>. QED BY <1>3, <2>1, <3>2
  <2>. QED BY <1>3, <2>1, <2>2 DEF Restore
<1>. QED BY <1>1, <1>2, <1>3 DEF Typed, SignalsTyped

\* Where a delivery is under way.
LEMMA Emitting ==
    /\ DOMAIN After = {"emit", "emitHelp", "emitFailure", "topEmit"}
    /\ After["emit"] = "return" /\ After["emitHelp"] = "return"
    /\ After["emitFailure"] = "return" /\ After["topEmit"] = "topReturn"
BY DEF After

\* What becomes of a delivery that fails.
LEMMA Failure ==
    ASSUME pc \in DOMAIN After
    PROVE  \/ /\ pc = "emit" /\ Undelivered = <<Text("CLI_OUTPUT", effects), "presentFailure">>
           \/ /\ pc \in {"emit", "emitFailure"} /\ Undelivered = <<message, "return">>
           \/ /\ pc = "emitHelp" /\ Undelivered = <<Text("CLI_OUTPUT", NoEffects), "topPresent">>
           \/ /\ pc = "topEmit" /\ Undelivered = <<message, "topReturn">>
BY Emitting DEF Undelivered

\* A signal does one of four things, by the handler it meets.
LEMMA Arriving ==
    ASSUME NEW sig \in Signals, Arrive(sig)
    PROVE  /\ pc \notin Ended /\ arrived' = arrived + 1
           /\ UNCHANGED <<prior, handler, installed, cutoff, restore_failed, effects, shown>>
           /\ UNCHANGED promised
           /\ \/ /\ handler[sig] = "latch"
                 /\ observed' = (IF observed = 0 THEN sig ELSE observed)
                 /\ UNCHANGED <<pc, message, status>>
              \/ /\ sig = SIGINT /\ handler[SIGINT] = "default" /\ observed' = observed
                 /\ \/ /\ pc \in DOMAIN After /\ status' = 1
                       /\ message' = Undelivered[1] /\ pc' = Undelivered[2]
                    \/ /\ pc \in {"topPresent", "topReturn"} /\ pc' = "interrupted"
                       /\ UNCHANGED <<message, status>>
                    \/ /\ pc \notin DOMAIN After \cup {"topPresent", "topReturn"}
                       /\ pc' = "topPresent" /\ status' = 1
                       /\ message' = Text("CLI_INTERNAL", Unknown)
              \/ /\ sig = SIGTERM /\ handler[SIGTERM] = "default"
                 /\ pc' = "killed" /\ UNCHANGED <<observed, message, status>>
              \/ UNCHANGED <<pc, observed, message, status>>
<1>1. CASE Latch(sig)
  BY <1>1 DEF Arrive, Latch
<1>2. CASE Interrupt(sig)
  BY <1>2 DEF Arrive, Interrupt
<1>3. CASE Kill(sig)
  BY <1>3 DEF Arrive, Kill
<1>4. CASE Ignore(sig)
  BY <1>4 DEF Arrive, Ignore
<1>. QED BY <1>1, <1>2, <1>3, <1>4 DEF Arrive

(***************************************************************************)
(* Initial states and steps                                                *)
(***************************************************************************)

\* The command starts in the invariant.
LEMMA IInit == Init => IInv
<1>. SUFFICES ASSUME Init PROVE IInv
  OBVIOUS
<1>. USE DEF Init, ServiceInit, NoEffects, Text
<1>1. Typed
  <2>1. installed \in {<<>>, <<SIGINT>>, <<SIGINT, SIGTERM>>}
    OBVIOUS
  <2>2. message \in Messages
    BY DEF Messages, Kinds, Effects
  <2>. QED BY <2>1, <2>2
       DEF Typed, ServiceTyped, SignalsTyped, AnswerTyped, Messages, Places, Effects, Signals
<1>2. Untouched
  BY DEF Untouched, Serving
<1>3. Handling
  BY DEF Handling, Serving, Delivering, Failing, Top
<1>4. Cancelling
  BY DEF Cancelling, Serving
<1>5. Truthful
  BY DEF Truthful, True
<1>6. Succeeding
  BY DEF Succeeding, Serving, Failing, Top
<1>. QED BY <1>1, <1>2, <1>3, <1>4, <1>5, <1>6 DEF IInv
\* What an observed signal makes of the answer.
LEMMA Selecting ==
    ASSUME Typed
    PROVE  \/ /\ cutoff = 0
              /\ SelectCancelled = [text |-> message, status |-> status]
           \/ /\ cutoff # 0 /\ status = 0
              /\ SelectCancelled = [text |-> Text("CLI_CANCELLED", Final), status |-> 128 + cutoff]
           \/ /\ cutoff # 0 /\ status # 0
              /\ \E t \in {message, [message EXCEPT !.notes = {"CLI_CANCELLED"}]} :
                   \/ SelectCancelled = [text |-> t, status |-> status]
                   \/ /\ report \in Reports /\ report.code = "CANCELLED"
                      /\ SelectCancelled = [text |-> t, status |-> 128 + cutoff]
<1>1. CASE cutoff = 0
  BY <1>1 DEF SelectCancelled
<1>2. CASE cutoff # 0 /\ status = 0
  BY <1>2 DEF SelectCancelled
<1>3. CASE cutoff # 0 /\ status # 0
  <2>. DEFINE served == report \in Reports /\ report.code # "none"
              t == IF served /\ report.cancel_requested THEN message
                   ELSE [message EXCEPT !.notes = {"CLI_CANCELLED"}]
              st == IF served /\ report.code = "CANCELLED" THEN 128 + cutoff ELSE status
  <2>1. SelectCancelled = [text |-> t, status |-> st]
    BY <1>3 DEF SelectCancelled
  <2>2. t \in {message, [message EXCEPT !.notes = {"CLI_CANCELLED"}]}
    OBVIOUS
  <2>3. st = status \/ (report \in Reports /\ report.code = "CANCELLED" /\ st = 128 + cutoff)
    OBVIOUS
  <2>. HIDE DEF t, st
  <2>. QED BY <1>3, <2>1, <2>2, <2>3
<1>. QED BY <1>1, <1>2, <1>3

\* What is delivered, and with which status.
LEMMA Responding ==
    ASSUME Typed, Respond
    PROVE  /\ pc = "respond" /\ pc' = "present" /\ effects' = Final
           /\ UNCHANGED <<prior, handler, installed, observed, cutoff, restore_failed,
                          shown, arrived>>
           /\ \/ /\ cutoff = 0 /\ ~restore_failed /\ message' = message /\ status' = status
              \/ /\ cutoff # 0 /\ ~restore_failed /\ status = 0
                 /\ message' = Text("CLI_CANCELLED", Final) /\ status' = 128 + cutoff
              \/ /\ cutoff # 0 /\ ~restore_failed /\ status # 0
                 /\ message' = message \/ message' = [message EXCEPT !.notes = {"CLI_CANCELLED"}]
                 /\ \/ status' = status
                    \/ /\ report \in Reports /\ report.code = "CANCELLED"
                       /\ status' = 128 + cutoff
              \/ /\ restore_failed /\ status' = 1
                 /\ \E t \in {Text("CLI_SIGNAL_RESTORE", Final), Text("CLI_CANCELLED", Final),
                             message, [message EXCEPT !.notes = {"CLI_CANCELLED"}]} :
                      \/ message' = t
                      \/ message' = [t EXCEPT !.notes = t.notes \cup {"CLI_SIGNAL_RESTORE"}]
<1>1. PICK t, st :
        /\ SelectCancelled = [text |-> t, status |-> st]
        /\ \/ cutoff = 0 /\ t = message /\ st = status
           \/ cutoff # 0 /\ status = 0 /\ t = Text("CLI_CANCELLED", Final) /\ st = 128 + cutoff
           \/ /\ cutoff # 0 /\ status # 0
              /\ t \in {message, [message EXCEPT !.notes = {"CLI_CANCELLED"}]}
              /\ \/ st = status
                 \/ report \in Reports /\ report.code = "CANCELLED" /\ st = 128 + cutoff
  BY Selecting, Zenon
<1>. DEFINE a == [text |-> t, status |-> st]
<1>2. /\ pc = "respond" /\ pc' = "present" /\ effects' = Final
      /\ message' = SelectRestored(a).text /\ status' = SelectRestored(a).status
      /\ UNCHANGED <<prior, handler, installed, observed, cutoff, restore_failed, shown, arrived>>
  BY <1>1 DEF Respond
<1>3. CASE ~restore_failed
  <2>1. SelectRestored(a) = a
    BY <1>3 DEF SelectRestored
  <2>2. message' = t /\ status' = st
    BY <1>2, <2>1
  <2>. QED BY <1>1, <1>2, <1>3, <2>2
<1>4. CASE restore_failed /\ st = 0
  <2>1. SelectRestored(a) = [text |-> Text("CLI_SIGNAL_RESTORE", Final), status |-> 1]
    BY <1>4 DEF SelectRestored
  <2>2. message' = Text("CLI_SIGNAL_RESTORE", Final) /\ status' = 1
    BY <1>2, <2>1
  <2>. QED BY <1>2, <1>4, <2>2
<1>5. CASE restore_failed /\ st # 0
  <2>. DEFINE u == [t EXCEPT !.notes = t.notes \cup {"CLI_SIGNAL_RESTORE"}]
  <2>1. SelectRestored(a) = [text |-> u, status |-> 1]
    BY <1>5 DEF SelectRestored
  <2>2. message' = u /\ status' = 1
    <3>. HIDE DEF u
    <3>. QED BY <1>2, <2>1
  <2>3. t \in {Text("CLI_CANCELLED", Final), message,
               [message EXCEPT !.notes = {"CLI_CANCELLED"}]}
    BY <1>1, Zenon
  <2>. QED BY <1>2, <1>5, <2>2, <2>3
<1>. QED BY <1>3, <1>4, <1>5 DEF Typed, AnswerTyped

\* The three values of installed differ.
LEMMA Distinct ==
    /\ <<SIGINT>> # <<>> /\ <<SIGINT, SIGTERM>> # <<>>
    /\ <<SIGINT, SIGTERM>> # <<SIGINT>> /\ SIGINT # SIGTERM
BY DEF SIGINT, SIGTERM

\* Nothing happens to the file before the service is called.
LEMMA UntouchedNext ==
    ASSUME IInv, [Next]_vars
    PROVE  Untouched'
<1>. USE DEF IInv, Untouched, Serving
<1>1. CASE Serve
  BY <1>1 DEF Serve, Publish, Synchronize, Sample, cli, promised
<1>2. CASE Settled
  BY <1>2 DEF Settled, Conclude, Escape
<1>3. CASE Parse /\ UNCHANGED promised
  BY <1>3 DEF Parse, Deliver, cli, promised
<1>4. CASE Install /\ UNCHANGED promised
  BY <1>4, Installing DEF Install, promised
<1>5. CASE SetupFails /\ UNCHANGED promised
  BY <1>5 DEF SetupFails, Deliver, promised
<1>6. CASE Cutoff /\ UNCHANGED promised
  BY <1>6 DEF Cutoff, promised
<1>7. CASE Restore /\ UNCHANGED promised
  BY <1>7, GivingBack DEF Restore, promised
<1>8. CASE Respond /\ UNCHANGED promised
  BY <1>8, Responding DEF Respond, promised
<1>9. CASE Present /\ UNCHANGED promised
  BY <1>9 DEF Present, Enter, cli, promised
<1>10. CASE EmitSucceeds /\ UNCHANGED promised
  BY <1>10, Emitting DEF EmitSucceeds, promised
<1>11. CASE EmitFails /\ UNCHANGED promised
  BY <1>11, Emitting, Failure DEF EmitFails, Deliver, promised
<1>12. CASE Exit /\ UNCHANGED promised
  BY <1>12 DEF Exit, Enter, cli, promised
<1>13. ASSUME NEW sig \in Signals, Arrive(sig) PROVE Untouched'
  BY <1>13, Arriving, Emitting, Failure DEF promised
<1>14. CASE UNCHANGED vars
  BY <1>14 DEF vars, cli, promised
<1>. QED
  BY <1>1, <1>2, <1>3, <1>4, <1>5, <1>6, <1>7, <1>8,
     <1>9, <1>10, <1>11, <1>12, <1>13, <1>14 DEF Next, Run, Step

\* Every step keeps account of the handlers that were replaced.
LEMMA HandlingNext ==
    ASSUME IInv, [Next]_vars
    PROVE  Handling'
<1>. USE DEF IInv, Untouched, Handling, Serving, Delivering, Failing, Top, Ended
<1>1. CASE Serve
  BY <1>1 DEF Serve, Publish, Synchronize, Sample, cli, promised
<1>2. CASE Settled
  BY <1>2 DEF Settled, Conclude, Escape
<1>3. CASE Parse /\ UNCHANGED promised
  <2>1. installed = <<>> /\ installed' = installed /\ handler' = handler /\ prior' = prior
    BY <1>3 DEF Parse, Deliver, cli
  <2>2. ~restore_failed /\ restore_failed' = restore_failed /\ pc' # "serve"
    BY <1>3 DEF Parse, Deliver, cli
  <2>. QED BY <2>1, <2>2, Distinct
<1>4. CASE Install /\ UNCHANGED promised
  <2>. USE DEF Typed, SignalsTyped, Signals
  <2>1. ~restore_failed /\ restore_failed' = restore_failed /\ prior' = prior
    BY <1>4 DEF Install
  <2>2. CASE installed = <<>>
    BY <1>4, <2>1, <2>2, Installing, Distinct DEF Install
  <2>3. CASE installed = <<SIGINT>>
    BY <1>4, <2>1, <2>3, Installing, Distinct DEF Install
  <2>. QED BY <1>4, <2>2, <2>3, Installing
<1>5. CASE SetupFails /\ UNCHANGED promised
  BY <1>5 DEF SetupFails, Deliver, promised
<1>6. CASE Cutoff /\ UNCHANGED promised
  BY <1>6 DEF Cutoff, promised
<1>7. CASE Restore /\ UNCHANGED promised
  <2>. USE DEF Typed, SignalsTyped, Signals
  <2>1. pc = "restore" /\ prior' = prior
    BY <1>7 DEF Restore
  <2>2. CASE installed = <<>>
    BY <1>7, <2>1, <2>2, GivingBack, Distinct
  <2>3. CASE installed = <<SIGINT>>
    BY <1>7, <2>1, <2>3, GivingBack, Distinct
  <2>4. CASE installed = <<SIGINT, SIGTERM>>
    BY <1>7, <2>1, <2>4, GivingBack, Distinct
  <2>. QED BY <2>2, <2>3, <2>4
<1>8. CASE Respond /\ UNCHANGED promised
  BY <1>8, Responding DEF Respond, promised
<1>9. CASE Present /\ UNCHANGED promised
  BY <1>9 DEF Present, Enter, cli, promised
<1>10. CASE EmitSucceeds /\ UNCHANGED promised
  BY <1>10, Emitting DEF EmitSucceeds, promised
<1>11. CASE EmitFails /\ UNCHANGED promised
  BY <1>11, Emitting, Failure DEF EmitFails, Deliver, promised
<1>12. CASE Exit /\ UNCHANGED promised
  BY <1>12 DEF Exit, Enter, cli, promised
<1>13. ASSUME NEW sig \in Signals, Arrive(sig) PROVE Handling'
  BY <1>13, Arriving, Emitting, Failure DEF promised
<1>14. CASE UNCHANGED vars
  BY <1>14 DEF vars, cli, promised
<1>. QED
  BY <1>1, <1>2, <1>3, <1>4, <1>5, <1>6, <1>7, <1>8,
     <1>9, <1>10, <1>11, <1>12, <1>13, <1>14 DEF Next, Run, Step

\* Every step keeps the first signal, and gives its status to a pure cancellation only.
LEMMA CancellingNext ==
    ASSUME IInv, [Next]_vars
    PROVE  Cancelling'
<1>. USE DEF IInv, Untouched, Handling, Cancelling, Serving, Delivering, Failing, Top, Ended
<1>1. CASE Serve
  <2>1. pc = "serve" /\ UNCHANGED cli /\ pc' = pc /\ report' = report
    BY <1>1 DEF Serve, Publish, Synchronize, Sample
  <2>2. requested' => requested \/ observed # 0
    BY <1>1 DEF Serve, Publish, Synchronize, Sample, Typed, ServiceTyped
  <2>. QED BY <2>1, <2>2 DEF cli
<1>2. CASE Settled
  BY <1>2 DEF Settled, Conclude, Escape
<1>3. CASE Parse /\ UNCHANGED promised
  BY <1>3 DEF Parse, Deliver, cli, promised
<1>4. CASE Install /\ UNCHANGED promised
  BY <1>4, Installing DEF Install, promised
<1>5. CASE SetupFails /\ UNCHANGED promised
  BY <1>5 DEF SetupFails, Deliver, promised
<1>6. CASE Cutoff /\ UNCHANGED promised
  BY <1>6 DEF Cutoff, promised
<1>7. CASE Restore /\ UNCHANGED promised
  BY <1>7, GivingBack DEF Restore, promised
<1>8. CASE Respond /\ UNCHANGED promised
  <2>1. /\ pc = "respond" /\ pc' = "present"
        /\ UNCHANGED <<promised, prior, handler, observed, cutoff>>
    BY <1>8, Responding
  <2>2. \/ status' = status \/ status' = 1
        \/ /\ ~restore_failed /\ cutoff # 0 /\ status' = 128 + cutoff
           /\ report \in Reports /\ report.code \in {"none", "CANCELLED"}
    BY <1>8, Responding
  <2>3. ~restore_failed => handler = prior
    BY <2>1 DEF Typed, SignalsTyped, Signals
  <2>. QED BY <2>1, <2>2, <2>3 DEF promised
<1>9. CASE Present /\ UNCHANGED promised
  BY <1>9 DEF Present, Enter, cli, promised
<1>10. CASE EmitSucceeds /\ UNCHANGED promised
  BY <1>10, Emitting DEF EmitSucceeds, promised
<1>11. CASE EmitFails /\ UNCHANGED promised
  BY <1>11, Emitting, Failure DEF EmitFails, Deliver, promised
<1>12. CASE Exit /\ UNCHANGED promised
  BY <1>12 DEF Exit, Enter, cli, promised
<1>13. ASSUME NEW sig \in Signals, Arrive(sig) PROVE Cancelling'
  BY <1>13, Arriving, Emitting, Failure DEF promised
<1>14. CASE UNCHANGED vars
  BY <1>14 DEF vars, cli, promised
<1>. QED
  BY <1>1, <1>2, <1>3, <1>4, <1>5, <1>6, <1>7, <1>8,
     <1>9, <1>10, <1>11, <1>12, <1>13, <1>14 DEF Next, Run, Step

\* Truth of the effects that are not taken from a report.
LEMMA Truths ==
    /\ True(Unknown)
    /\ True(NoEffects) <=> ~published
    /\ \A kind, e : Text(kind, e).effects = e /\ Text(kind, e).kind = kind
    /\ \A m \in Messages : \A notes : [m EXCEPT !.notes = notes].effects = m.effects
BY DEF True, Unknown, NoEffects, Text, Messages

\* Every text is a message.
LEMMA TextTyped ==
    ASSUME NEW kind \in Kinds, NEW e \in Effects
    PROVE  Text(kind, e) \in Messages
BY DEF Text, Messages

\* The answer delivered is an answer, about the effects known before or at the end.
LEMMA RespondedMessage ==
    ASSUME Typed, Respond
    PROVE  /\ Final \in Effects
           /\ message' \in Messages
           /\ message'.effects \in {message.effects, Final}
<1>1. Final \in Effects
  BY DEF Final, Typed, AnswerTyped, Effects
<1>. DEFINE T == {Text("CLI_SIGNAL_RESTORE", Final), Text("CLI_CANCELLED", Final),
                  message, [message EXCEPT !.notes = {"CLI_CANCELLED"}]}
<1>2. message \in Messages
  BY DEF Typed, AnswerTyped, Messages
<1>3. ASSUME NEW m \in Messages, NEW notes \in SUBSET Kinds
      PROVE  /\ [m EXCEPT !.notes = notes] \in Messages
             /\ [m EXCEPT !.notes = notes].effects = m.effects
  BY DEF Messages
<1>4. ASSUME NEW t \in T
      PROVE  t \in Messages /\ t.effects \in {message.effects, Final}
  <2>1. CASE t = Text("CLI_SIGNAL_RESTORE", Final) \/ t = Text("CLI_CANCELLED", Final)
    <3>1. {"CLI_SIGNAL_RESTORE", "CLI_CANCELLED"} \subseteq Kinds
      BY DEF Kinds
    <3>. QED BY <1>1, <2>1, <3>1, TextTyped, Truths
  <2>2. CASE t = message
    BY <1>2, <2>2
  <2>3. CASE t = [message EXCEPT !.notes = {"CLI_CANCELLED"}]
    <3>1. {"CLI_CANCELLED"} \in SUBSET Kinds
      BY DEF Kinds
    <3>. QED BY <1>2, <1>3, <2>3, <3>1
  <2>. QED BY <2>1, <2>2, <2>3
<1>5. ASSUME NEW t \in T
      PROVE  LET u == [t EXCEPT !.notes = t.notes \cup {"CLI_SIGNAL_RESTORE"}]
             IN  u \in Messages /\ u.effects \in {message.effects, Final}
  <2>1. t.notes \cup {"CLI_SIGNAL_RESTORE"} \in SUBSET Kinds
    BY <1>4 DEF Messages, Kinds
  <2>. HIDE DEF T
  <2>. QED BY <1>3, <1>4, <2>1
<1>6. \E t \in T : \/ message' = t
                   \/ message' = [t EXCEPT !.notes = t.notes \cup {"CLI_SIGNAL_RESTORE"}]
  BY Responding
<1>. HIDE DEF T
<1>. QED BY <1>1, <1>4, <1>5, <1>6

\* A step that leaves the file alone need only see to what it sets.
LEMMA TruthfulKept ==
    ASSUME Truthful, UNCHANGED promised, observed # 0 => observed' # 0,
           shown' = shown \/ (pc # "serve" /\ shown' = shown \cup {message}),
           True(effects'), pc' # "serve" => True(message'.effects)
    PROVE  Truthful'
<1>1. (published => saving)' /\ True(effects)' /\ (pc # "serve" => True(message.effects))'
  BY DEF Truthful, True, promised
<1>2. \A m \in shown' : True(m.effects)
  BY DEF Truthful
<1>3. (\A m \in shown : True(m.effects))'
  BY <1>2 DEF True, promised
<1>. QED BY <1>1, <1>3 DEF Truthful

\* What the command takes over from a report is true if the report is honest.
LEMMA EstablishedTrue ==
    ASSUME Typed, NEW r \in Reports, Honest(r), effects = Unknown,
           published => saving, requested => observed # 0
    PROVE  True(Established(r))
<1>1. CASE r.code # "none"
  <2>. DEFINE e == [visibility |-> r.visibility, cancelled |-> r.cancel_requested,
                    sync |-> IF r.sync_completed THEN "true" ELSE "false"]
  <2>1. Established(r) = e
    BY <1>1 DEF Established
  <2>2. True(e)
    BY DEF True, Honest, Typed, ServiceTyped, Reports
  <2>. QED BY <2>1, <2>2
<1>2. CASE r.code = "none"
  <2>. DEFINE e == [effects EXCEPT !.visibility = IF saving THEN "published" ELSE "not_published",
                                   !.sync = IF saving THEN "true" ELSE "false"]
  <2>1. Established(r) = e
    BY <1>2 DEF Established
  <2>2. /\ e.visibility = (IF saving THEN "published" ELSE "not_published")
        /\ e.sync = (IF saving THEN "true" ELSE "false")
        /\ e.cancelled = FALSE
    BY DEF Unknown
  <2>3. saving => r.sync_completed
    BY <1>2 DEF Honest
  <2>4. saving => published /\ synced
    BY <2>3 DEF Honest
  <2>. HIDE DEF e
  <2>5. True(e)
    BY <2>2, <2>4 DEF True
  <2>. QED BY <2>1, <2>5
<1>. QED BY <1>1, <1>2

\* Every step keeps what was delivered, and what will be, true.
LEMMA TruthfulNext ==
    ASSUME IInv, [Next]_vars
    PROVE  Truthful'
<1>. USE DEF IInv, Untouched, Truthful
<1>1. CASE Serve
  <2>1. /\ pc = "serve" /\ shown = {} /\ effects = Unknown
        /\ pc' = pc /\ effects' = effects /\ shown' = shown
    BY <1>1 DEF Serve, cli
  <2>2. published' => saving'
    BY <1>1 DEF Serve, Publish, Synchronize, Sample, Typed, ServiceTyped
  <2>. QED BY <2>1, <2>2 DEF Unknown, True
<1>2. CASE Settled
  <2>1. /\ pc = "serve" /\ effects = Unknown
        /\ UNCHANGED <<saving, published, synced, requested, observed, shown>> /\ shown = {}
    BY <1>2 DEF Settled, Conclude, Escape
  <2>2. True(effects') /\ True(message'.effects)
    <3>1. CASE Escape /\ effects' = effects /\ message' = Text("CLI_INTERNAL", effects)
      BY <2>1, <3>1, Truths
    <3>2. ASSUME NEW r \in Reports, Honest(r), effects' = Established(r),
                 message' = Text(Answer(r), Established(r))
          PROVE  True(effects') /\ True(message'.effects)
      BY <2>1, <3>2, EstablishedTrue, Truths DEF Cancelling
    <3>. QED BY <1>2, <3>1, <3>2 DEF Settled, Conclude
  <2>. QED BY <2>1, <2>2 DEF True
<1>3. CASE Parse /\ UNCHANGED promised
  <2>1. pc = "parse" /\ ~published /\ effects' = effects /\ observed' = observed /\ shown' = shown
    BY <1>3 DEF Parse, Deliver, cli
  <2>2. message' = message \/ \E kind : message' = Text(kind, NoEffects)
    BY <1>3 DEF Parse, Deliver, cli
  <2>. QED BY <1>3, <2>1, <2>2, Truths, TruthfulKept
<1>4. CASE Install /\ UNCHANGED promised
  <2>1. pc = "setup" /\ message' = message /\ observed' = observed /\ shown' = shown
    BY <1>4 DEF Install
  <2>. QED BY <1>4, <2>1, Installing, Truths, TruthfulKept
<1>5. CASE SetupFails /\ UNCHANGED promised
  <2>1. /\ pc = "setup" /\ message' = Text("CLI_SIGNAL_SETUP", effects)
        /\ effects' = effects /\ observed' = observed /\ shown' = shown
    BY <1>5 DEF SetupFails, Deliver
  <2>. QED BY <1>5, <2>1, Truths, TruthfulKept
<1>6. CASE Cutoff /\ UNCHANGED promised
  BY <1>6, TruthfulKept DEF Cutoff
<1>7. CASE Restore /\ UNCHANGED promised
  BY <1>7, TruthfulKept DEF Restore
<1>8. CASE Respond /\ UNCHANGED promised
  <2>1. /\ pc = "respond" /\ effects' = Final /\ observed' = observed /\ shown' = shown
    BY <1>8, Responding
  <2>2. True(Final)
    BY DEF Final, True, Cancelling, Typed, AnswerTyped, Effects
  <2>3. message'.effects \in {message.effects, Final}
    BY <1>8, RespondedMessage
  <2>. QED BY <1>8, <2>1, <2>2, <2>3, TruthfulKept
<1>9. CASE Present /\ UNCHANGED promised
  BY <1>9, TruthfulKept DEF Present, Enter, cli
<1>10. CASE EmitSucceeds /\ UNCHANGED promised
  BY <1>10, Emitting, TruthfulKept DEF EmitSucceeds
<1>11. CASE EmitFails /\ UNCHANGED promised
  <2>1. pc \in DOMAIN After /\ effects' = effects /\ observed' = observed /\ shown' = shown
    BY <1>11 DEF EmitFails, Deliver
  <2>2. message' = Undelivered[1]
    BY <1>11 DEF EmitFails, Deliver
  <2>3. True(message'.effects)
    BY <2>1, <2>2, Failure, Emitting, Truths
  <2>. QED BY <1>11, <2>1, <2>3, TruthfulKept
<1>12. CASE Exit /\ UNCHANGED promised
  BY <1>12, TruthfulKept DEF Exit, Enter, cli
<1>13. ASSUME NEW sig \in Signals, Arrive(sig) PROVE Truthful'
  <2>1. /\ UNCHANGED promised /\ effects' = effects /\ shown' = shown
        /\ observed # 0 => observed' # 0
    BY <1>13, Arriving DEF Signals, SIGINT, SIGTERM
  <2>2. \/ message' = message /\ (pc' # "serve" => pc # "serve")
        \/ message' = Text("CLI_INTERNAL", Unknown)
        \/ pc \in DOMAIN After /\ message' = Undelivered[1]
    <3>1. pc = "serve" => handler[SIGINT] = "latch" /\ handler[SIGTERM] = "latch"
      BY Distinct DEF Handling
    <3>. QED BY <1>13, <3>1, Arriving, Emitting
  <2>3. pc' # "serve" => True(message'.effects)
    BY <2>2, Failure, Emitting, Truths
  <2>. QED BY <2>1, <2>3, TruthfulKept
<1>14. CASE UNCHANGED vars
  BY <1>14, TruthfulKept DEF vars, cli
<1>. QED
  BY <1>1, <1>2, <1>3, <1>4, <1>5, <1>6, <1>7, <1>8,
     <1>9, <1>10, <1>11, <1>12, <1>13, <1>14 DEF Next, Run, Step

\* Status 0 stays with an answer that was given or is about to be.
LEMMA SucceedingNext ==
    ASSUME IInv, [Next]_vars
    PROVE  Succeeding'
<1>. USE DEF IInv, Untouched, Succeeding, Good, Serving, Failing, Top
<1>1. CASE Serve
  BY <1>1 DEF Serve, Publish, Synchronize, Sample, cli, promised
<1>2. CASE Settled
  <2>1. /\ pc = "serve" /\ pc' = "cutoff" /\ effects = Unknown
        /\ UNCHANGED <<saving, published, synced, requested>>
    BY <1>2 DEF Settled, Conclude, Escape
  <2>2. ASSUME status' = 0 PROVE (Good(message) /\ ~requested)'
    <3>1. PICK r \in Reports : /\ Honest(r) /\ r.code = "none"
                              /\ message' = Text(Answer(r), Established(r))
      BY <1>2, <2>2 DEF Settled, Conclude
    <3>2. message'.kind = IF saving THEN "receipt" ELSE "view"
      BY <3>1, Truths DEF Answer
    <3>3. published => saving
      BY DEF Truthful
    <3>4. ~requested /\ (saving => published /\ synced)
      BY <3>1 DEF Honest, Typed, ServiceTyped, Reports
    <3>. QED BY <2>1, <3>2, <3>3, <3>4
  <2>. QED BY <2>1, <2>2
<1>3. CASE Parse /\ UNCHANGED promised
  <2>1. pc = "parse" /\ UNCHANGED promised /\ cutoff' = cutoff /\ cutoff = 0 /\ ~requested
    BY <1>3 DEF Parse, Deliver, cli
  <2>2. \/ status' = 2 /\ pc' \in {"topPresent", "present"}
        \/ message' = Text("help", NoEffects) /\ pc' = "help"
        \/ pc' = "setup"
    BY <1>3 DEF Parse, Deliver
  <2>. QED BY <2>1, <2>2, Truths DEF promised
<1>4. CASE Install /\ UNCHANGED promised
  BY <1>4, Installing DEF Install, promised
<1>5. CASE SetupFails /\ UNCHANGED promised
  BY <1>5 DEF SetupFails, Deliver, promised
<1>6. CASE Cutoff /\ UNCHANGED promised
  BY <1>6 DEF Cutoff, promised
<1>7. CASE Restore /\ UNCHANGED promised
  BY <1>7, GivingBack DEF Restore, promised
<1>8. CASE Respond /\ UNCHANGED promised
  <2>1. /\ pc = "respond" /\ pc' = "present" /\ UNCHANGED <<promised, cutoff>>
        /\ \/ cutoff = 0 /\ message' = message /\ status' = status
           \/ cutoff # 0 /\ (status' = 128 + cutoff \/ (status # 0 /\ status' = status))
           \/ status' = 1
    BY <1>8, Responding
  <2>2. cutoff \in Nat
    BY DEF Typed, SignalsTyped, Signals, SIGINT, SIGTERM
  <2>. QED BY <2>1, <2>2 DEF promised
<1>9. CASE Present /\ UNCHANGED promised
  BY <1>9 DEF Present, Enter, cli, promised
<1>10. CASE EmitSucceeds /\ UNCHANGED promised
  BY <1>10, Emitting DEF EmitSucceeds, promised
<1>11. CASE EmitFails /\ UNCHANGED promised
  BY <1>11, Emitting, Failure DEF EmitFails, Deliver, promised
<1>12. CASE Exit /\ UNCHANGED promised
  BY <1>12 DEF Exit, Enter, cli, promised
<1>13. ASSUME NEW sig \in Signals, Arrive(sig) PROVE Succeeding'
  BY <1>13, Arriving, Emitting, Failure DEF promised
<1>14. CASE UNCHANGED vars
  BY <1>14 DEF vars, cli, promised
<1>. QED
  BY <1>1, <1>2, <1>3, <1>4, <1>5, <1>6, <1>7, <1>8,
     <1>9, <1>10, <1>11, <1>12, <1>13, <1>14 DEF Next, Run, Step

\* What the service keeps has its type.
LEMMA ServiceTypedNext ==
    ASSUME IInv, [Next]_vars
    PROVE  ServiceTyped'
<1>. USE DEF IInv, Typed, ServiceTyped
<1>1. CASE Serve
  BY <1>1 DEF Serve, Publish, Synchronize, Sample, cli, promised
<1>2. CASE Settled
  BY <1>2 DEF Settled, Conclude, Escape
<1>3. CASE Parse /\ UNCHANGED promised
  BY <1>3 DEF Parse, Deliver, cli, promised
<1>4. CASE Install /\ UNCHANGED promised
  BY <1>4, Installing DEF Install, promised
<1>5. CASE SetupFails /\ UNCHANGED promised
  BY <1>5 DEF SetupFails, Deliver, promised
<1>6. CASE Cutoff /\ UNCHANGED promised
  BY <1>6 DEF Cutoff, promised
<1>7. CASE Restore /\ UNCHANGED promised
  BY <1>7, GivingBack DEF Restore, promised
<1>8. CASE Respond /\ UNCHANGED promised
  BY <1>8, Responding DEF Respond, promised
<1>9. CASE Present /\ UNCHANGED promised
  BY <1>9 DEF Present, Enter, cli, promised
<1>10. CASE EmitSucceeds /\ UNCHANGED promised
  BY <1>10, Emitting DEF EmitSucceeds, promised
<1>11. CASE EmitFails /\ UNCHANGED promised
  BY <1>11, Emitting, Failure DEF EmitFails, Deliver, promised
<1>12. CASE Exit /\ UNCHANGED promised
  BY <1>12 DEF Exit, Enter, cli, promised
<1>13. ASSUME NEW sig \in Signals, Arrive(sig) PROVE ServiceTyped'
  BY <1>13, Arriving, Emitting, Failure DEF promised
<1>14. CASE UNCHANGED vars
  BY <1>14 DEF vars, cli, promised
<1>. QED
  BY <1>1, <1>2, <1>3, <1>4, <1>5, <1>6, <1>7, <1>8,
     <1>9, <1>10, <1>11, <1>12, <1>13, <1>14 DEF Next, Run, Step

\* What is kept of signals has its type.
LEMMA SignalsTypedNext ==
    ASSUME IInv, [Next]_vars
    PROVE  SignalsTyped'
<1>. USE DEF IInv, Typed, SignalsTyped
<1>1. CASE Serve
  BY <1>1 DEF Serve, Publish, Synchronize, Sample, cli, promised
<1>2. CASE Settled
  BY <1>2 DEF Settled, Conclude, Escape
<1>3. CASE Parse /\ UNCHANGED promised
  BY <1>3 DEF Parse, Deliver, cli, promised
<1>4. CASE Install /\ UNCHANGED promised
  BY <1>4, Installing DEF Install, promised
<1>5. CASE SetupFails /\ UNCHANGED promised
  BY <1>5 DEF SetupFails, Deliver, promised
<1>6. CASE Cutoff /\ UNCHANGED promised
  BY <1>6 DEF Cutoff, promised
<1>7. CASE Restore /\ UNCHANGED promised
  <2>1. UNCHANGED <<prior, observed, cutoff, arrived>>
    BY <1>7 DEF Restore
  <2>2. installed' \in {<<>>, <<SIGINT>>, <<SIGINT, SIGTERM>>}
    BY <1>7, GivingBack
  <2>3. SIGINT \in Signals /\ SIGTERM \in Signals
    BY DEF Signals
  <2>4. /\ handler' \in [Signals -> {"default", "ignore", "latch"}]
        /\ restore_failed' \in BOOLEAN
    BY <1>7, <2>3, GivingBack
  <2>. QED BY <2>1, <2>2, <2>4
<1>8. CASE Respond /\ UNCHANGED promised
  BY <1>8, Responding DEF Respond, promised
<1>9. CASE Present /\ UNCHANGED promised
  BY <1>9 DEF Present, Enter, cli, promised
<1>10. CASE EmitSucceeds /\ UNCHANGED promised
  BY <1>10, Emitting DEF EmitSucceeds, promised
<1>11. CASE EmitFails /\ UNCHANGED promised
  BY <1>11, Emitting, Failure DEF EmitFails, Deliver, promised
<1>12. CASE Exit /\ UNCHANGED promised
  BY <1>12 DEF Exit, Enter, cli, promised
<1>13. ASSUME NEW sig \in Signals, Arrive(sig) PROVE SignalsTyped'
  BY <1>13, Arriving, Emitting, Failure DEF promised
<1>14. CASE UNCHANGED vars
  BY <1>14 DEF vars, cli, promised
<1>. QED
  BY <1>1, <1>2, <1>3, <1>4, <1>5, <1>6, <1>7, <1>8,
     <1>9, <1>10, <1>11, <1>12, <1>13, <1>14 DEF Next, Run, Step

\* Effects and kinds that are written out.
LEMMA Literals ==
    /\ NoEffects \in Effects /\ Unknown \in Effects
    /\ {"none", "help", "view", "receipt", "service error", "CLI_USAGE",
        "CLI_ARGUMENT_ENCODING", "CLI_SIGNAL_SETUP", "CLI_OUTPUT", "CLI_INTERNAL"} \subseteq Kinds
    /\ {"parse", "setup", "serve", "cutoff", "restore", "respond", "present", "emit", "return",
        "help", "emitHelp", "presentFailure", "emitFailure", "topPresent", "topEmit",
        "topReturn", "exited", "killed", "interrupted"} = Places
BY DEF NoEffects, Unknown, Effects, Kinds, Places, Serving, Delivering, Failing, Top, Ended

\* A failed delivery leaves an answer, and the program where it may be.
LEMMA FailureTyped ==
    ASSUME Typed, pc \in DOMAIN After
    PROVE  Undelivered[1] \in Messages /\ Undelivered[2] \in Places
<1>1. /\ Text("CLI_OUTPUT", effects) \in Messages /\ Text("CLI_OUTPUT", NoEffects) \in Messages
      /\ message \in Messages
  BY Literals, TextTyped DEF Typed, AnswerTyped
<1>2. PICK m, next : /\ Undelivered = <<m, next>> /\ m \in Messages
                     /\ next \in {"presentFailure", "return", "topPresent", "topReturn"}
  BY <1>1, Failure
<1>3. next \in Places
  BY <1>2, Literals
<1>. QED BY <1>2, <1>3

\* What the command takes over from a report are effects.
LEMMA EstablishedTyped ==
    ASSUME Typed, NEW r \in Reports
    PROVE  Established(r) \in Effects
<1>1. CASE r.code # "none"
  BY <1>1 DEF Established, Effects, Reports
<1>2. CASE r.code = "none"
  BY <1>2 DEF Established, Effects, Typed, AnswerTyped
<1>. QED BY <1>1, <1>2

\* The answer has its type.
LEMMA AnswerTypedNext ==
    ASSUME IInv, [Next]_vars
    PROVE  AnswerTyped'
<1>. USE DEF IInv, Typed, AnswerTyped
<1>1. CASE Serve
  BY <1>1 DEF Serve, cli
<1>2. CASE Settled
  <2>1. shown' = shown /\ pc' = "cutoff" /\ status' \in {0, 1}
    BY <1>2 DEF Settled
  <2>2. effects' \in Effects /\ message' \in Messages
    <3>1. CASE effects' = effects /\ message' = Text("CLI_INTERNAL", effects)
      BY <3>1, Literals, TextTyped
    <3>2. ASSUME NEW r \in Reports, effects' = Established(r),
                 message' = Text(Answer(r), Established(r))
          PROVE  effects' \in Effects /\ message' \in Messages
      <4>1. Answer(r) \in Kinds
        BY Literals DEF Answer
      <4>. QED BY <3>2, <4>1, EstablishedTyped, TextTyped
    <3>. QED BY <1>2, <3>1, <3>2 DEF Settled
  <2>. QED BY <2>1, <2>2, Literals
<1>3. CASE Parse /\ UNCHANGED promised
  <2>1. effects' = effects /\ shown' = shown
    BY <1>3 DEF Parse, Deliver, cli
  <2>2. /\ status' \in {0, 2} \/ status' = status
        /\ pc' \in {"topPresent", "present", "help", "setup"}
    BY <1>3 DEF Parse, Deliver, cli
  <2>3. \/ message' = message
        \/ \E kind \in {"CLI_USAGE", "CLI_ARGUMENT_ENCODING", "help"} :
             message' = Text(kind, NoEffects)
    BY <1>3 DEF Parse, Deliver, cli
  <2>4. message' \in Messages
    BY <2>3, Literals, TextTyped
  <2>. QED BY <2>1, <2>2, <2>4, Literals
<1>4. CASE Install /\ UNCHANGED promised
  <2>1. message' = message /\ shown' = shown /\ status' = status
    BY <1>4 DEF Install
  <2>. QED BY <1>4, <2>1, Installing, Literals
<1>5. CASE SetupFails /\ UNCHANGED promised
  <2>1. /\ effects' = effects /\ shown' = shown /\ status' = 1 /\ pc' = "cutoff"
        /\ message' = Text("CLI_SIGNAL_SETUP", effects)
    BY <1>5 DEF SetupFails, Deliver
  <2>. QED BY <2>1, Literals, TextTyped
<1>6. CASE Cutoff /\ UNCHANGED promised
  BY <1>6, Literals DEF Cutoff
<1>7. CASE Restore /\ UNCHANGED promised
  <2>1. UNCHANGED <<effects, message, status, shown>>
    BY <1>7 DEF Restore
  <2>. QED BY <1>7, <2>1, GivingBack, Literals
<1>8. CASE Respond /\ UNCHANGED promised
  <2>1. effects' \in Effects /\ message' \in Messages
    BY <1>8, RespondedMessage, Responding
  <2>2. shown' = shown /\ pc' = "present"
    BY <1>8, Responding
  <2>3. status' \in {0, 1, 2, 128 + SIGINT, 128 + SIGTERM}
    BY <1>8, Responding DEF SignalsTyped, Signals
  <2>. QED BY <2>1, <2>2, <2>3, Literals
<1>9. CASE Present /\ UNCHANGED promised
  BY <1>9, Literals DEF Present, Enter, cli
<1>10. CASE EmitSucceeds /\ UNCHANGED promised
  BY <1>10, Emitting, Literals DEF EmitSucceeds
<1>11. CASE EmitFails /\ UNCHANGED promised
  <2>1. /\ pc \in DOMAIN After /\ effects' = effects /\ shown' = shown /\ status' = 1
        /\ message' = Undelivered[1] /\ pc' = Undelivered[2]
    BY <1>11 DEF EmitFails, Deliver
  <2>2. message' \in Messages /\ pc' \in Places
    BY <2>1, FailureTyped
  <2>. QED BY <2>1, <2>2
<1>12. CASE Exit /\ UNCHANGED promised
  BY <1>12, Literals DEF Exit, Enter, cli
<1>13. ASSUME NEW sig \in Signals, Arrive(sig) PROVE AnswerTyped'
  <2>1. effects' = effects /\ shown' = shown /\ (status' = status \/ status' = 1)
    BY <1>13, Arriving
  <2>2. \/ message' = message /\ pc' \in {pc, "interrupted", "killed"}
        \/ message' = Text("CLI_INTERNAL", Unknown) /\ pc' = "topPresent"
        \/ pc \in DOMAIN After /\ message' = Undelivered[1] /\ pc' = Undelivered[2]
    BY <1>13, Arriving
  <2>3. message' \in Messages /\ pc' \in Places
    BY <2>2, FailureTyped, Literals, TextTyped
  <2>. QED BY <2>1, <2>3
<1>14. CASE UNCHANGED vars
  BY <1>14 DEF vars, cli, promised
<1>. QED
  BY <1>1, <1>2, <1>3, <1>4, <1>5, <1>6, <1>7, <1>8,
     <1>9, <1>10, <1>11, <1>12, <1>13, <1>14 DEF Next, Run, Step

(***************************************************************************)
(* What holds for every number of signals                                  *)
(***************************************************************************)

\* Every step keeps the invariant.
LEMMA INext == IInv /\ [Next]_vars => IInv'
<1>. SUFFICES ASSUME IInv, [Next]_vars PROVE IInv'
  OBVIOUS
<1>1. Typed'
  BY ServiceTypedNext, SignalsTypedNext, AnswerTypedNext DEF Typed
<1>. QED
  BY <1>1, UntouchedNext, HandlingNext, CancellingNext, TruthfulNext, SucceedingNext DEF IInv

\* The invariant holds in every state.
LEMMA Invariant == Spec => []IInv
BY IInit, INext, PTL DEF Spec

\* Every variable keeps its type, however many signals arrive.
THEOREM Types == Spec => []TypeOK
<1>1. IInv => TypeOK
  BY DEF IInv, Typed, ServiceTyped, SignalsTyped, AnswerTyped, Messages, TypeOK
<1>. QED BY <1>1, Invariant, PTL

\* A command that exits with 0 has delivered an answer that is true, and no signal was
\* observed by the cutoff (_run_assessment, _deliver, _emit).
THEOREM ZeroExitAlwaysTrue == Spec => []ZeroExitTrue
<1>1. IInv => ZeroExitTrue
  BY DEF IInv, Succeeding, Good, ZeroExitTrue
<1>. QED BY <1>1, Invariant, PTL

\* An exit status above 128 names the first signal, and nothing but it went wrong
\* (_run_assessment).
THEOREM CancellationExitAlways == Spec => []CancellationExit
<1>1. IInv => CancellationExit
  BY DEF IInv, Cancelling, CancellationExit
<1>. QED BY <1>1, Invariant, PTL

\* No delivered message is wrong about the effects (_Effects, _run_assessment, main).
THEOREM EffectsAlwaysTruthful == Spec => []EffectsTruthful
<1>1. IInv => EffectsTruthful
  BY DEF IInv, Truthful, True, EffectsTruthful
<1>. QED BY <1>1, Invariant, PTL

\* The handlers that were found are back when the command ends, or its status is 1
\* because one of them could not be restored (_run_assessment).
THEOREM HandlersAlwaysGivenBack == Spec => []HandlersGivenBack
<1>1. IInv => HandlersGivenBack
  <2>. SUFFICES ASSUME IInv, pc \in {"exited", "interrupted"}, ~restore_failed
                PROVE  handler = prior
    BY DEF IInv, Handling, Delivering, HandlersGivenBack
  <2>1. handler[SIGINT] = prior[SIGINT] /\ handler[SIGTERM] = prior[SIGTERM]
    BY Distinct DEF IInv, Handling
  <2>. QED BY <2>1 DEF IInv, Typed, SignalsTyped, Signals
<1>. QED BY <1>1, Invariant, PTL
=============================================================================
